----------------------------- MODULE Reductions -----------------------------
(***************************************************************************)
(* The reductions that move parts of the vector to different ranks:        *)
(* Rabenseifner's reduction of coll_tuned_reduce.c, the rings of           *)
(* coll_tuned_allreduce.c and coll_tuned_reduce_scatter.c, its recursive   *)
(* halving, and the reduction and the scans of coll/basic.                 *)
(***************************************************************************)
EXTENDS TreeCollectives

\* The slots that arrive in `from' are combined into those of `to'.
ReduceSlots(from, to) ==
  [x \in Range(to) |-> <<from[CHOOSE i \in DOMAIN to : to[i] = x], x>>]

-----------------------------------------------------------------------------
(* Rabenseifner's reduction: <<"r", i>> is element i of the result, which  *)
(* begins with the rank's own, and <<"t", i>> where others' arrive.  The   *)
(* odd ones of the first ranks hand what they have to their predecessors;  *)
(* the others halve the vector among themselves, in pairs that are twice   *)
(* as far apart each time, and gather the pieces along the way back.       *)

\* Bug: either part of an odd window is taken to be as large as the other.
HalvesEqual(low, window) ==
  LET half == window.size \div 2
      left == [index |-> window.index, size |-> half]
      right == [index |-> window.index + half, size |-> half]
  IN IF low THEN [kept |-> left, given |-> right] ELSE [kept |-> right, given |-> left]

\* The lower of a pair keeps the left part of the window.
Halves(low, window) ==
  LET half == window.size \div 2
      left == [index |-> window.index, size |-> half]
      right == [index |-> window.index + half, size |-> window.size - half]
  IN IF low THEN [kept |-> left, given |-> right] ELSE [kept |-> right, given |-> left]

\* The parts of node v before each step.
Parts(count, steps, v) ==
  LET Window[k \in 0 .. steps] == IF k = 0 THEN [index |-> 0, size |-> count]
        ELSE Halves((v \div 2 ^ (k - 1)) % 2 = 0, Window[k - 1]).kept
  IN [k \in 0 .. steps - 1 |-> Halves((v \div 2 ^ k) % 2 = 0, Window[k])]

Elements(buffer, window) == Slots(buffer, window.index, window.size)

ReduceRabenseifner(n, count, commutes, root, r) ==
  LET pof2 == NextPowerOfTwo(n) \div 2
      rem == n - pof2
      steps == Log(pof2)
      first == r < 2 * rem
      out == first /\ r % 2 = 1
      vrank == IF first THEN r \div 2 ELSE r - rem
      Real(v) == IF v < rem THEN 2 * v ELSE v + rem
      Exchange(peer, part) ==
        Then(Sendrecv(peer, Elements("r", part.given), peer, Elements("t", part.kept)),
             ReduceSlots(Elements("t", part.kept), Elements("r", part.kept)))
      Fold == LET whole == [index |-> 0, size |-> count]
                  rest == Elements("r", Halves(FALSE, whole).kept)
              IN IF out THEN <<Exchange(r - 1, Halves(FALSE, whole)), Send(r - 1, rest)>>
                 ELSE <<Exchange(r + 1, Halves(TRUE, whole)), Recv(r + 1, rest)>>
      Step(k) == Exchange(Real(Flip(vrank, 2 ^ k)), Parts(count, steps, vrank)[k])
      \* A root that dropped out takes the place of node 0, once that has
      \* handed it the piece it has.
      dropped == root < 2 * rem /\ root % 2 = 1
      vroot == CASE dropped -> 0
                 [] root < 2 * rem /\ ~dropped -> root \div 2
                 [] OTHER -> root - rem
      piece == Elements("r", Parts(count, steps, 0)[steps - 1].kept)
      Gather(v) ==
        LET Dest(k) == IF dropped /\ Flip(v, 2 ^ k) = 0 THEN root ELSE Real(Flip(v, 2 ^ k))
            Back[k \in -1 .. steps - 1] ==
              IF k = -1 THEN <<>>
              ELSE LET part == Parts(count, steps, v)[k] IN
                   IF Flip(v, 2 ^ k) \div 2 ^ k = vroot \div 2 ^ k
                   THEN <<Send(Dest(k), Elements("r", part.kept))>>
                   ELSE <<Recv(Dest(k), Elements("r", part.given))>> \o Back[k - 1]
        IN Back[steps - 1]
  IN IF pof2 < 2 \/ count < pof2 \/ ~commutes THEN ReduceLinear(n, root, r)
     ELSE   OnlyIf(first, Fold)
         \o OnlyIf(~out, [k \in 1 .. steps |-> Step(k - 1)])
         \o (CASE r = root /\ dropped -> <<Recv(0, piece)>> \o Gather(0)
               [] r # root /\ out -> <<>>
               [] ~out /\ dropped /\ vrank = 0 -> <<Send(root, piece)>>
               [] OTHER -> Gather(vrank))

-----------------------------------------------------------------------------
(* Rings.  Each block goes around and is combined on its way, from rank r  *)
(* with block r on; block[b], 0 <= b < n, is a list of at most one slot.   *)

RingReduce(n, r, block) ==
  LET right == (r + 1) % n
      left == (r + n - 1) % n
      Combine(j, b) == ReduceSlots(<<Inbuf(j)>>, block[b])
      Step(k) == LET prev == (r + n - k + 1) % n IN
                 <<Then(Ahead(Recv(left, <<Inbuf(k - 1)>>)), Combine(k - 2, prev)),
                   Ahead(Send(right, block[prev]))>>
  IN   <<Ahead(Recv(left, <<Inbuf(0)>>)), Ahead(Send(right, block[r]))>>
    \o FlattenSeq([k \in 1 .. n - 2 |-> Step(k + 1)])
    \o <<Then(WaitLast, Combine(n - 2, right))>>

\* The blocks are cut into phases, which go around one after the other; the
\* results go around as whole blocks.
AllreduceRingSegmented(n, phases, r) ==
  LET Whole(b) == Slots("r", b * phases, phases)
      Pass(k) == Sendrecv((r + 1) % n, Whole((r + 1 + n - k) % n),
                          (r + n - 1) % n, Whole((r + n - k) % n))
  IN FlattenSeq([p \in 1 .. phases |->
                   RingReduce(n, r, [b \in 0 .. n - 1 |-> Slots("r", b * phases + p - 1, 1)])])
     \o [k \in 1 .. n - 1 |-> Pass(k - 1)]

-----------------------------------------------------------------------------
(* Reduce-scatter: rank s gets the rcounts[s] results of block s, 0 or 1   *)
(* of them here.  <<"a", s>> is block s of the vector, which begins with   *)
(* the rank's own contribution.                                            *)

ResultBlock(rcounts, s) == Slots("a", s, rcounts[s])

\* The blocks travel one place behind those of the allreduce, so that each ends
\* at its rank.
ReduceScatterRing(n, rcounts, r) ==
  LET copy == [x \in Range(Slots("r", 0, rcounts[r])) |-> <<<<"a", r>>>>]
  IN RingReduce(n, r, [b \in 0 .. n - 1 |-> ResultBlock(rcounts, (b + n - 1) % n)])
     \o <<Then(WaitLast, copy)>>

\* Bug: what the neighbour that dropped out is to get is forgotten.
NodeBlocksOwn(n, remain, rcounts, v) ==
  ResultBlock(rcounts, IF v < remain THEN 2 * v + 1 ELSE v + remain)

\* The blocks node v is to end with, its neighbour's first.
NodeBlocks(n, remain, rcounts, v) ==
  IF v < remain THEN ResultBlock(rcounts, 2 * v) \o ResultBlock(rcounts, 2 * v + 1)
  ELSE ResultBlock(rcounts, v + remain)

\* The even ones of the first ranks have their successors take part for them.
\* In each step a node keeps the half of the blocks that it is in, and nothing
\* is sent, or received, when there is nothing in it.
RecursiveHalving(n, rcounts, r) ==
  LET size == NextPowerOfTwo(n) \div 2
      remain == n - size
      first == r < 2 * remain
      out == first /\ r % 2 = 0
      v == IF first THEN r \div 2 ELSE r - remain
      all == FlattenSeq([s \in 1 .. n |-> ResultBlock(rcounts, s - 1)])
      arrived == [i \in DOMAIN all |-> <<"in", all[i][2]>>]
      BlocksIn(lo, mask) ==
        FlattenSeq([i \in 1 .. mask |-> NodeBlocks(n, remain, rcounts, lo + i - 1)])
      Step(mask) ==
        LET lo == v - (v % (2 * mask))
            low == (v \div mask) % 2 = 0
            kept == BlocksIn(IF low THEN lo ELSE lo + mask, mask)
            given == BlocksIn(IF low THEN lo + mask ELSE lo, mask)
            peer == LET w == Flip(v, mask) IN IF w < remain THEN 2 * w + 1 ELSE w + remain
            into == [i \in DOMAIN kept |-> <<"in", kept[i][2]>>]
        IN OnlyIf(kept # <<>> \/ given # <<>>,
             <<Then(Round(OnlyIf(kept # <<>>, <<In(peer, into)>>),
                          OnlyIf(given # <<>>, <<Out(peer, given)>>)),
                    ReduceSlots(into, kept))>>)
      Halving == FlattenSeq([k \in 1 .. Log(size) |-> Step(size \div 2 ^ k)])
      copy == [x \in Range(Slots("r", 0, rcounts[r])) |-> <<<<"a", r>>>>]
  IN IF out
     THEN <<Send(r + 1, all)>> \o OnlyIf(rcounts[r] > 0, <<Recv(r + 1, Slots("r", 0, 1))>>)
     ELSE   OnlyIf(first, <<Then(Recv(r - 1, arrived), ReduceSlots(arrived, all))>>)
         \o Halving
         \o <<Then(WaitLast, copy)>>
         \o OnlyIf(first /\ rcounts[r - 1] > 0, <<Send(r - 1, ResultBlock(rcounts, r - 1))>>)

-----------------------------------------------------------------------------
(* coll/basic.                                                             *)

\* mca_coll_basic_reduce_log_intra: a node receives from those that add a bit
\* below its lowest one; <<"p", 0>> is pml_buffer.
ReduceLog(n, root, r) ==
  LET tree == BuildInOrderBmtree(n, root, r)
      leaf == tree.next = <<>>
      Take(i) == IF i = 1 THEN Then(Recv(tree.next[1], <<<<"p", 0>>>>), Reduce(<<"s", 0>>, <<"p", 0>>))
                 ELSE Then(Recv(tree.next[i], <<<<"r", 0>>>>), Reduce(<<"r", 0>>, <<"p", 0>>))
      sent == <<IF leaf THEN "s" ELSE "p", 0>>
  IN [i \in 1 .. Len(tree.next) |-> Take(i)]
     \o (IF r = root THEN <<Then(WaitLast, Assign(<<"r", 0>>, <<sent>>))>>
         ELSE <<Send(tree.prev, <<sent>>)>>)

\* mca_coll_basic_scan_intra
Scan(n, r) ==
     <<Then(WaitLast, Assign(<<"r", 0>>, <<<<"s", 0>>>>))>>
  \o OnlyIf(r > 0, <<Then(Recv(r - 1, <<<<"p", 0>>>>), Reduce(<<"p", 0>>, <<"r", 0>>))>>)
  \o OnlyIf(r < n - 1, <<Send(r + 1, Slots("r", 0, 1))>>)

\* mca_coll_basic_exscan_intra
Exscan(n, r) ==
  CASE r = 0 -> <<Send(1, Slots("s", 0, 1))>>
    [] r = n - 1 -> <<Recv(r - 1, Slots("r", 0, 1))>>
    [] OTHER -> <<Then(WaitLast, Assign(<<"p", 0>>, <<<<"s", 0>>>>)),
                  Then(Recv(r - 1, Slots("r", 0, 1)), Reduce(<<"r", 0>>, <<"p", 0>>)),
                  Send(r + 1, Slots("p", 0, 1))>>
=============================================================================
