------------------------------ MODULE Gathers -------------------------------
(***************************************************************************)
(* The allgathers of coll_tuned_allgather.c, and the all-to-alls of        *)
(* coll_tuned_alltoall.c and coll_tuned_alltoallv.c that have no module of *)
(* their own: the program of rank r among n.                               *)
(*                                                                         *)
(* Slot <<"r", s>> is block s of the receive buffer.  A call finds its own *)
(* block where the initial copy from the send buffer puts it; in the       *)
(* variants that copy it last, and in all-to-all, slot <<"s", d>> is block *)
(* d of the send buffer.                                                   *)
(***************************************************************************)
EXTENDS Rounds

Block(s) == Slots("r", s, 1)
Blocks(first, count) == Slots("r", first, count)

\* Where the own block is when the exchanges begin.
OwnBlock(alg, r) == CASE alg = "allgather_bruck" -> <<"r", 0>>
                      [] alg = "allgather_two_procs" -> <<"s", 0>>
                      [] OTHER -> <<"r", r>>

\* How many blocks a step of the Bruck algorithm moves.
BruckCount(n, distance) == IF distance <= n \div 2 THEN distance ELSE n - distance

\* The last step of the Bruck algorithm: block i goes to its place.
BruckShift(n, r) == [x \in {<<"r", i>> : i \in 0 .. n - 1} |-> <<<<"r", (x[2] + n - r) % n>>>>]

AllgatherBruck(n, r) ==
  LET Step(distance) ==
        Sendrecv((r + n - distance) % n, Blocks(0, BruckCount(n, distance)),
                 (r + distance) % n, Blocks(distance, BruckCount(n, distance)))
      rounds == [k \in 1 .. Log(n) |-> Step(Doublings(n)[k])]
  IN [rounds EXCEPT ![Log(n)].then = BruckShift(n, r)]

\* The blocks a rank has at distance d are those of the ranks that differ from
\* it in the bits below d.  Other numbers of ranks use the Bruck algorithm.
AllgatherRecursiveDoubling(n, r) ==
  LET Step(d) == LET have == r - (r % d) IN
        Sendrecv(Flip(r, d), Blocks(have, d),
                 Flip(r, d), Blocks(IF r < Flip(r, d) THEN have + d ELSE have - d, d))
  IN [k \in 1 .. Log(n) |-> Step(Doublings(n)[k])]

AllgatherRing(n, r) ==
  [i \in 1 .. n - 1 |-> Sendrecv((r + 1) % n, Block((r + n - i + 1) % n),
                                 (r + n - 1) % n, Block((r + n - i) % n))]

\* By how many blocks the source moves at every other step.
NeighborOffset(r, parity) == IF (r % 2 = 0) = (parity = 0) THEN 2 ELSE -2

\* Neighbours exchange the last two blocks they have received.  An odd number
\* of ranks uses the ring.
AllgatherNeighborExchange(n, r) ==
  LET Neighbor(parity) == IF (r % 2 = 0) = (parity = 0) THEN (r + 1) % n ELSE (r + n - 1) % n
      first == r - (r % 2)
      RecvDataFrom(i) == IF i = 0 THEN first
        ELSE (first + NeighborOffset(r, i % 2) * ((i + 1) \div 2) + 2 * n) % n
      Step(i) == Sendrecv(Neighbor(i % 2), Blocks(RecvDataFrom(i - 1), 2),
                          Neighbor(i % 2), Blocks(RecvDataFrom(i), 2))
  IN <<Sendrecv(Neighbor(0), Block(r), Neighbor(0), Block(Neighbor(0)))>>
     \o [i \in 1 .. n \div 2 - 1 |-> Step(i)]

AllgatherTwoProcs(r) ==
  <<Then(Sendrecv(Flip(r, 1), <<<<"s", 0>>>>, Flip(r, 1), Block(Flip(r, 1))),
         Assign(<<"r", r>>, <<<<"s", 0>>>>))>>

\* Of the variants with counts, whose blocks are found by their displacements,
\* only Bruck's differs: every block is received where it belongs.
AllgathervBruck(n, r) ==
  LET Step(distance) ==
        LET from == (r + distance) % n
            count == BruckCount(n, distance)
            Wrapped(first) == [i \in 1 .. count |-> <<"r", (first + i - 1) % n>>]
        IN Sendrecv((r + n - distance) % n, Wrapped(r), from, Wrapped(from))
  IN [k \in 1 .. Log(n) |-> Step(Doublings(n)[k])]

-----------------------------------------------------------------------------
(* All-to-all.                                                             *)

SendBlock(d) == Slots("s", d, 1)
KeepOwn(r) == Assign(<<"r", r>>, SendBlock(r))

AlltoallTwoProcs(r) ==
  <<Then(Sendrecv(Flip(r, 1), SendBlock(Flip(r, 1)), Flip(r, 1), Block(Flip(r, 1))), KeepOwn(r))>>

\* All the requests are started together: receives from the successor up, sends
\* from the predecessor down.
AlltoallLinear(n, r) ==
  <<Then(Round([i \in 1 .. n - 1 |-> LET s == (r + i) % n IN In(s, Block(s))],
               [i \in 1 .. n - 1 |-> LET d == (r + n - i) % n IN Out(d, SendBlock(d))]),
         KeepOwn(r))>>

\* The alltoallv variants: the linear one goes up with both, and the pairwise
\* one starts with the rank itself.
AlltoallvLinear(n, r) ==
  LET others == SelectSeq([i \in 1 .. n |-> i - 1], LAMBDA p : p # r)
  IN <<Then(Round([i \in 1 .. n - 1 |-> In(others[i], Block(others[i]))],
                  [i \in 1 .. n - 1 |-> Out(others[i], SendBlock(others[i]))]),
            KeepOwn(r))>>

AlltoallvPairwise(n, r) ==
  LET To(step) == (r + step) % n
      From(step) == (r + n - step) % n
  IN <<Then(WaitLast, KeepOwn(r))>>
     \o [step \in 1 .. n - 1 |->
           Sendrecv(To(step), SendBlock(To(step)), From(step), Block(From(step)))]

-----------------------------------------------------------------------------
(* All-to-all in place: slot <<"r", p>> holds the block for p and then the *)
(* block from p.  A rank meets its peers one at a time; before it does, it *)
(* copies the block for the peer into its only temporary buffer.           *)

Temporary == Slots("t", 0, 1)

\* Copies out the block for the i-th peer, if there is one.
CopyOut(peers, i) ==
  IF i <= Len(peers) THEN Assign(Temporary[1], Block(peers[i])) ELSE NoWork

\* Bug: the block is sent from the slot it is replaced in.
AlltoallvInplaceFromSlot(n, empty, r) ==
  LET peers == SelectSeq([i \in 1 .. n |-> i - 1], LAMBDA p : p # r /\ {p, r} \notin empty)
  IN <<Then(WaitLast, CopyOut(peers, 1))>>
     \o [i \in 1 .. Len(peers) |->
           Then(Sendrecv(peers[i], Block(peers[i]), peers[i], Block(peers[i])),
                CopyOut(peers, i + 1))]

\* In the order of the ranks, but for the peers of no data.
AlltoallvInplace(n, empty, r) ==
  LET peers == SelectSeq([i \in 1 .. n |-> i - 1], LAMBDA p : p # r /\ {p, r} \notin empty)
  IN <<Then(WaitLast, CopyOut(peers, 1))>>
     \o [i \in 1 .. Len(peers) |->
           Then(Sendrecv(peers[i], Temporary, peers[i], Block(peers[i])),
                CopyOut(peers, i + 1))]

\* In the order of a shuffle, with a blocking receive and a blocking send.
AlltoallInplace(order, n, r) ==
  LET peers == SelectSeq([i \in 1 .. n |-> order[i - 1]], LAMBDA p : p # r)
  IN <<Then(WaitLast, CopyOut(peers, 1))>>
     \o FlattenSeq([i \in 1 .. Len(peers) |->
          <<Recv(peers[i], Block(peers[i])),
            Then(Send(peers[i], Temporary), CopyOut(peers, i + 1))>>])
=============================================================================
