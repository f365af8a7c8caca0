------------------------------ MODULE Barriers ------------------------------
(***************************************************************************)
(* The six barriers of coll_tuned_barrier.c: the program of rank r among   *)
(* n.  All messages are empty and carry the same tag.                      *)
(***************************************************************************)
EXTENDS Rounds

\* ompi_coll_tuned_sendrecv_zero
SendrecvZero(to, from) == Sendrecv(to, <<>>, from, <<>>)

\* The ranks pass a message around the ring twice.  For rank 0 the left
\* neighbour (rank - 1) % size is -1, which is MPI_ANY_SOURCE.
DoubleRing(n, r) ==
  LET right == (r + 1) % n
      left == IF r = 0 THEN AnySource ELSE r - 1
  IN IF r > 0
     THEN <<Recv(left, <<>>), Send(right, <<>>), Recv(left, <<>>), Ssend(right, <<>>)>>
     ELSE <<Send(right, <<>>), Recv(left, <<>>), Ssend(right, <<>>), Recv(left, <<>>)>>

\* Bug: the ranks above the power of two are let go before the exchange.
RecursiveDoublingEarly(n, r) ==
  LET adjsize == NextPowerOfTwo(n) \div 2 IN
     OnlyIf(r >= adjsize, <<SendrecvZero(r - adjsize, r - adjsize)>>)
  \o OnlyIf(r < n - adjsize, <<Recv(r + adjsize, <<>>), Ssend(r + adjsize, <<>>)>>)
  \o OnlyIf(r < adjsize, [k \in 1 .. Log(adjsize) |->
       SendrecvZero(Flip(r, Doublings(adjsize)[k]), Flip(r, Doublings(adjsize)[k]))])

\* The ranks below a power of two exchange in pairs; each of the others reports
\* to one of them first and is let go by it last.
RecursiveDoubling(n, r) ==
  LET adjsize == NextPowerOfTwo(n) \div 2
      Pair(mask) == SendrecvZero(Flip(r, mask), Flip(r, mask))
  IN   OnlyIf(r >= adjsize, <<SendrecvZero(r - adjsize, r - adjsize)>>)
    \o OnlyIf(r < n - adjsize, <<Recv(r + adjsize, <<>>)>>)
    \o OnlyIf(r < adjsize, [k \in 1 .. Log(adjsize) |-> Pair(Doublings(adjsize)[k])])
    \o OnlyIf(r < n - adjsize, <<Ssend(r + adjsize, <<>>)>>)

BarrierBruck(n, r) ==
  [k \in 1 .. Log(n) |-> LET distance == Doublings(n)[k] IN
     SendrecvZero((r + distance) % n, (r + n - distance) % n)]

BarrierTwoProcs(r) == <<SendrecvZero((r + 1) % 2, (r + 1) % 2)>>

\* Bug: the root lets the ranks go before it has heard from all of them.
BarrierLinearAtOnce(n, r) ==
  IF r > 0 THEN <<Send(0, <<>>), Recv(0, <<>>)>>
  ELSE <<Round([i \in 1 .. n - 1 |-> In(AnySource, <<>>)],
               [i \in 1 .. n - 1 |-> Out(i, <<>>)])>>

\* The root takes the arrivals from whichever rank they come.
BarrierLinear(n, r) ==
  IF r > 0 THEN <<Send(0, <<>>), Recv(0, <<>>)>>
  ELSE <<Round([i \in 1 .. n - 1 |-> In(AnySource, <<>>)], <<>>),
         Round(<<>>, [i \in 1 .. n - 1 |-> Out(i, <<>>)])>>

\* Bug: the partner may be beyond the last rank.
TakesPartBeyond(n, k, partner) == partner % 2 ^ k = 0

\* The partner at a jump takes part if it is a multiple of the jump.
TakesPart(n, k, partner) == partner % 2 ^ k = 0 /\ partner < n

\* Up the tree to rank 0 and down again.
BarrierTree(n, r) ==
  LET depth == Log(NextPowerOfTwoInclusive(n))
      Partner(k) == Flip(r, 2 ^ k)
      Up(k) == OnlyIf(TakesPart(n, k, Partner(k)),
                 IF Partner(k) > r THEN <<Recv(Partner(k), <<>>)>> ELSE <<Send(Partner(k), <<>>)>>)
      Down(k) == OnlyIf(TakesPart(n, k, Partner(k)),
                   IF Partner(k) > r THEN <<Send(Partner(k), <<>>)>> ELSE <<Recv(Partner(k), <<>>)>>)
  IN   FlattenSeq([k \in 1 .. depth |-> Up(k - 1)])
    \o FlattenSeq([k \in 1 .. depth |-> Down(depth - k)])
=============================================================================
