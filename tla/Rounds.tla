------------------------------- MODULE Rounds -------------------------------
(***************************************************************************)
(* The collectives of coll/tuned as programs.  What a rank does in a call  *)
(* is a sequence of rounds, fixed by its rank and the arguments of the     *)
(* call.  A round posts receives, then sends, waits for them, and works on *)
(* the rank's own buffers.                                                 *)
(*                                                                         *)
(*   recv   the receives: a peer and the slots the message goes into       *)
(*   send   the sends: a peer, the slots sent, whether the mode is         *)
(*          synchronous                                                    *)
(*   ahead  how many of the last receives posted need not be complete: 1   *)
(*          where the code waits for a block with the receive of the next  *)
(*          one already posted                                             *)
(*   behind how many of the first of them need not be either               *)
(*   then   what is written after the wait, all at once: to[slot] is the   *)
(*          list of slots whose values are combined into it, in this order *)
(*                                                                         *)
(* A slot is a pair of a buffer's name and an index.                       *)
(***************************************************************************)
EXTENDS Integers, Sequences, FiniteSets, SequencesExt

AnySource == -1

In(p, slots) == [peer |-> p, slots |-> slots]
Out(p, slots) == [peer |-> p, slots |-> slots, sync |-> FALSE]
SyncOut(p, slots) == [peer |-> p, slots |-> slots, sync |-> TRUE]

NoWork == [x \in {} |-> <<>>]

Round(recvs, sends) == [recv |-> recvs, send |-> sends, ahead |-> 0, behind |-> 0, then |-> NoWork]

\* MCA_PML_CALL(recv), and send in the two modes.
Recv(p, slots) == Round(<<In(p, slots)>>, <<>>)
Send(p, slots) == Round(<<>>, <<Out(p, slots)>>)
Ssend(p, slots) == Round(<<>>, <<SyncOut(p, slots)>>)

\* ompi_coll_tuned_sendrecv: irecv, isend, and wait for both.
Sendrecv(to, sent, from, slots) == Round(<<In(from, slots)>>, <<Out(to, sent)>>)

\* Rounds that leave the last receive open, and the wait for it.
Ahead(round) == [round EXCEPT !.ahead = 1]
WaitLast == Round(<<>>, <<>>)

Then(round, work) == [round EXCEPT !.then = work]
Assign(slot, slots) == [x \in {slot} |-> slots]

\* ompi_op_reduce(op, source, target): target = source (op) target.
Reduce(source, target) == Assign(target, <<source, target>>)

\* The slots first .. first + count - 1 of a buffer.
Slots(buffer, first, count) == [i \in 1 .. count |-> <<buffer, first + i - 1>>]

OnlyIf(condition, rounds) == IF condition THEN rounds ELSE <<>>

-----------------------------------------------------------------------------
(* Powers of two.                                                          *)

\* The least power of two that is not below n, as an exponent.
Log(n) == CHOOSE k \in 0 .. n : 2 ^ k >= n /\ \A j \in 0 .. k - 1 : 2 ^ j < n

\* 1, 2, 4 ... below n: for (d = 1; d < n; d <<= 1).
Doublings(n) == [k \in 1 .. Log(n) |-> 2 ^ (k - 1)]

\* opal_next_poweroftwo, the least power of two above n; opal_next_poweroftwo
\* _inclusive, the least that is not below n.
NextPowerOfTwo(n) == 2 ^ Log(n + 1)
NextPowerOfTwoInclusive(n) == 2 ^ Log(n)

\* r ^ mask for a mask of one bit.
Flip(r, mask) == IF (r \div mask) % 2 = 0 THEN r + mask ELSE r - mask
=============================================================================
