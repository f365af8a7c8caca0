----------------------------- MODULE Schedules -----------------------------
(***************************************************************************)
(* The exchange schedules of the pairwise all-to-all.  Every rank walks a  *)
(* loop whose iterations are numbered 0, 1, ...; an iteration is either    *)
(* skipped (the loop's "continue") or is one exchange: send one block to   *)
(* sendto and receive one block from recvfrom.  SF_ALLTOALL_MODE selects   *)
(* the loop:                                                               *)
(*   0  base            step 1, 2, ..., size                               *)
(*   1  random          the same steps in a shuffled order, size last      *)
(*   2  custom          steps grouped by the place of the peer in a switch *)
(*   3  random grid     a size * size grid of peers, each row shuffled,    *)
(*                      walked column by column                            *)
(* Any other value selects no loop at all.                                 *)
(* A shuffle is one of the results of the C function FisherYatesAllToAll.  *)
(***************************************************************************)
EXTENDS Shuffles

CONSTANTS N,         \* size: the number of ranks of the communicator
          PerSwitch  \* nperswitch: the value of SF_NPERSWITCH

\* The collective module is never selected on a communicator of one rank, and
\* mode 2 divides by nperswitch.
ASSUME NAssumption == N \in Nat /\ N >= 2
ASSUME PerSwitchAssumption == PerSwitch \in Nat \ {0}

Ranks == 0 .. N - 1

-----------------------------------------------------------------------------
(* Modes 0, 1 and 2 exchange with the ranks at distance step.              *)

switches == N \div PerSwitch

\* Bugs: the shuffled steps start at 0; the shuffle covers the last entry too.
StepOfUnshifted(mode, rnd, k) ==
  CASE mode = 0 -> k + 1
    [] mode = 1 -> IF k < N - 1 THEN rnd.steps[k] ELSE N
    [] mode = 2 -> 0

StepOfSizeFirst(mode, rnd, k) ==
  CASE mode = 0 -> k + 1
    [] mode = 1 -> IF k = 0 THEN N ELSE rnd.steps[k - 1] + 1
    [] mode = 2 -> 0

\* The distance of iteration k.  In mode 2 the iteration after the two loops
\* is the exchange of a rank with itself.
StepOf(mode, rnd, k) ==
  CASE mode = 0 -> k + 1
    [] mode = 1 -> IF k < N - 1 THEN rnd.steps[k] + 1 ELSE N
    [] mode = 2 -> IF k < PerSwitch * switches
                   THEN PerSwitch * (k % switches) + (k \div switches)
                   ELSE 0

(* Mode 3 exchanges with the peer the grid names.  Row i holds -1 below    *)
(* the diagonal and the column number from the diagonal on, shuffled.      *)

\* Bug: the row is blank up to and including the diagonal.
CellOffDiagonal(rnd, i, j) ==
  IF rnd.grid[i][j] <= i THEN -1 ELSE rnd.grid[i][j]

Cell(rnd, i, j) == IF rnd.grid[i][j] < i THEN -1 ELSE rnd.grid[i][j]

GridRow(k) == k % N
GridCol(k) == k \div N
GridCell(rnd, k) == Cell(rnd, GridRow(k), GridCol(k))

-----------------------------------------------------------------------------
(* The iterations of a mode, those rank r skips, and the two partners of   *)
(* rank r in the others.                                                   *)

Last(mode) == CASE mode \in {0, 1} -> N - 1
                [] mode = 2        -> PerSwitch * switches
                [] mode = 3        -> N * N - 1
                [] OTHER           -> -1

Iterations(mode) == 0 .. Last(mode)

Skips(mode, rnd, r, k) ==
  \/ /\ mode = 2
     /\ k < PerSwitch * switches
     /\ StepOf(mode, rnd, k) = 0 \/ StepOf(mode, rnd, k) > N
  \/ /\ mode = 3
     /\ GridCell(rnd, k) = -1 \/ r \notin {GridRow(k), GridCell(rnd, k)}

GridPeer(rnd, r, k) == IF r = GridRow(k) THEN GridCell(rnd, k) ELSE GridRow(k)

SendTo(mode, rnd, r, k) ==
  IF mode = 3 THEN GridPeer(rnd, r, k)
              ELSE (r + StepOf(mode, rnd, k)) % N

RecvFrom(mode, rnd, r, k) ==
  IF mode = 3 THEN GridPeer(rnd, r, k)
              ELSE (r + N - StepOf(mode, rnd, k)) % N

Exchanges(mode, rnd, r, k) == k \in Iterations(mode) /\ ~Skips(mode, rnd, r, k)

\* Iteration n is the first exchange of rank r after iteration k, or the end
\* of the loop when none is left.
IsNext(mode, rnd, r, k, n) ==
  /\ n > k
  /\ \A m \in k + 1 .. n - 1 : Skips(mode, rnd, r, m)
  /\ n \in Iterations(mode) => ~Skips(mode, rnd, r, n)

-----------------------------------------------------------------------------
(* What the loop of a rank has to be for an all-to-all: it sends to every  *)
(* rank exactly once, receives from every rank exactly once, and when one  *)
(* partner of an exchange is the rank itself so is the other.              *)

Covers(mode, rnd, r, Partner(_, _, _, _)) ==
  /\ \A d \in Ranks : \E k \in Iterations(mode) :
       Exchanges(mode, rnd, r, k) /\ Partner(mode, rnd, r, k) = d
  /\ \A k, l \in Iterations(mode) :
       /\ Exchanges(mode, rnd, r, k) /\ Exchanges(mode, rnd, r, l)
       /\ Partner(mode, rnd, r, k) = Partner(mode, rnd, r, l)
       => k = l

Regular(mode, rnd, r) ==
  /\ Covers(mode, rnd, r, SendTo)
  /\ Covers(mode, rnd, r, RecvFrom)
  /\ \A k \in Iterations(mode) : Exchanges(mode, rnd, r, k) =>
       /\ SendTo(mode, rnd, r, k) \in Ranks
       /\ RecvFrom(mode, rnd, r, k) \in Ranks
       /\ SendTo(mode, rnd, r, k) = r <=> RecvFrom(mode, rnd, r, k) = r
=============================================================================
