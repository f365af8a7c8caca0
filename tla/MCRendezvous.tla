---------------------------- MODULE MCRendezvous ----------------------------
(* The transfers that are model-checked.                                   *)
EXTENDS Rendezvous

Both(s, r) == [p \in Sides |-> IF p = "s" THEN s ELSE r]

\* More descriptors than there are messages.
Plenty == [descriptors |-> Both(9, 9), others |-> Both(0, 0), errors |-> 0]

\* Both processes have two, and other messages use those of the sender, and the
\* receiver's or not.
Scarce(receiver) == [descriptors |-> Both(2, 2), others |-> Both(2, receiver), errors |-> 0]

\* A third one is free, but the BTL may return an error.
Failing == [descriptors |-> Both(3, 3), others |-> Both(2, 2), errors |-> 1]

Transfer(first, split, pipeline, threads, resources) ==
  [length |-> 2, first |-> first, split |-> split, frag |-> 1, put |-> 1,
   pipeline |-> pipeline, threads |-> threads, descriptors |-> resources.descriptors,
   others |-> resources.others, errors |-> resources.errors]

\* The copy protocol, RDMA, and both, with enough descriptors, then with few.
\* A process whose ACK or receive request may have to wait has one thread here.
Transfers ==
  {Transfer(0, 0, Both(1, 1), Both(2, 1), Plenty),
   Transfer(0, 2, Both(1, 2), Both(1, 1), Plenty),
   Transfer(1, 2, Both(1, 2), Both(1, 2), Plenty),
   Transfer(0, 1, Both(1, 1), Both(1, 1), Plenty),
   Transfer(1, 1, Both(1, 1), Both(2, 1), Scarce(0)),
   Transfer(1, 2, Both(1, 2), Both(1, 1), Scarce(2)),
   Transfer(1, 1, Both(1, 1), Both(1, 1), Failing)}

\* A PUT that is an ACK too is refused.
RefusedPut == {Transfer(1, 2, Both(1, 1), Both(1, 1), Failing)}

\* An ACK has to wait, and two threads run the receiver's callbacks.
WaitingAck == {Transfer(1, 1, Both(1, 1), Both(1, 2), Scarce(2))}
=============================================================================
