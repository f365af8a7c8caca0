--------------------------- MODULE BruckAlltoall ---------------------------
(***************************************************************************)
(* ompi_coll_tuned_alltoall_intra_bruck (not in place): all-to-all in as   *)
(* many rounds as N - 1 has bits.  A rank rotates its blocks into a        *)
(* temporary buffer, so that slot i is the block for the rank i places on; *)
(* in the round of distance 2^b it passes on, by one exchange, every slot  *)
(* whose number has bit b; and in the end it rotates the slots into the    *)
(* receive buffer.  The distances come in a shuffled order: a block goes   *)
(* through ranks that must all have made the same rounds before.           *)
(***************************************************************************)
EXTENDS Shuffles, Sequences, FiniteSets

CONSTANTS N,           \* size: the number of ranks
          Orders,      \* the orders the shuffle may give the distances
          SameOrders,  \* whether all the ranks draw the same one
          Protocols,   \* how the point-to-point layer may send a message
          Calls,       \* bound: how many calls each rank makes
          MaxFaults    \* bound: how many irecv and isend calls return an error

ASSUME NAssumption == N \in Nat \ {0}

Ranks == 0 .. N - 1

\* 1 << b.
Power[b \in Nat] == IF b = 0 THEN 1 ELSE 2 * Power[b - 1]

\* i & distance, for a distance that is a power of two.
Has(i, distance) == (i \div distance) % 2 = 1

\* Bug: the distances stop at half of the size.
lenHalved == Cardinality({b \in 0 .. N - 1 : Power[b] < N \div 2})

\* len: how many powers of two are below the size.
len == Cardinality({b \in 0 .. N - 1 : Power[b] < N})

ASSUME OrdersAssumption == Orders # {} /\ Orders \subseteq Shuffles(len)
ASSUME SameOrdersAssumption == SameOrders \in BOOLEAN
ASSUME ProtocolsAssumption == Protocols \subseteq {"eager", "rndv"}
ASSUME BoundsAssumption == Calls \in Nat /\ MaxFaults \in Nat

VARIABLES
  idx,    \* idx[r]: the order r's shuffle gives, the same in every call
  pc,     \* "out" of the library, at "irecv", "isend" or "wait", or "failed"
  call,   \* the number of calls a rank has entered
  round,  \* the round a rank has reached
  tmpbuf, \* tmpbuf[r][i]: the block in slot i of r's temporary buffer
  rbuf,   \* rbuf[r][s]: the block in slot s of r's receive buffer
  rreq,   \* r's receive request: "none", "posted" or "done"
  sreq,   \* r's send request: "none", "active" or "done"
  wire,   \* wire[s][d]: the messages s has sent d that match no receive yet
  faults  \* how many errors there have been

pmlVars == <<rreq, sreq, wire>>
vars == <<idx, pc, call, round, tmpbuf, rbuf, pmlVars, faults>>

Block(s, d, c) == <<s, d, c>>
NoBlock == <<>>
Blocks == Ranks \X Ranks \X (0 .. Calls)

\* The round r has reached: its distance, partners, and the slots passed on.
Distance(r, k) == Power[idx[r][k]]
Moves(r, i) == Has(i, Distance(r, round[r]))
SendTo(r, k) == (r + Distance(r, k)) % N
RecvFrom(r, k) == (r - Distance(r, k) + N) % N

\* The slots of a message are those of the distance between its two ranks.
Slots(s, d) == {i \in Ranks : Has(i, (d - s) % N)}

Init == /\ idx \in [Ranks -> Orders]
        /\ SameOrders => \A r, s \in Ranks : idx[r] = idx[s]
        /\ pc = [r \in Ranks |-> "out"]
        /\ call = [r \in Ranks |-> 0]
        /\ round = [r \in Ranks |-> len]
        /\ tmpbuf = [r \in Ranks |-> [i \in Ranks |-> NoBlock]]
        /\ rbuf = [r \in Ranks |-> [s \in Ranks |-> NoBlock]]
        /\ rreq = [r \in Ranks |-> "none"]
        /\ sreq = [r \in Ranks |-> "none"]
        /\ wire = [s \in Ranks |-> [d \in Ranks |-> <<>>]]
        /\ faults = 0

\* Bug: the blocks are not rotated by the rank.
EnterUnrotated(r) ==
  /\ pc[r] = "out"
  /\ call[r] < Calls
  /\ call' = [call EXCEPT ![r] = @ + 1]
  /\ tmpbuf' = [tmpbuf EXCEPT ![r] = [i \in Ranks |-> Block(r, i, call[r] + 1)]]
  /\ round' = [round EXCEPT ![r] = 0]
  /\ pc' = [pc EXCEPT ![r] = "irecv"]
  /\ UNCHANGED <<idx, rbuf, pmlVars, faults>>

\* Step 1: the rotation into the temporary buffer.
Enter(r) ==
  /\ pc[r] = "out"
  /\ call[r] < Calls
  /\ call' = [call EXCEPT ![r] = @ + 1]
  /\ tmpbuf' = [tmpbuf EXCEPT ![r] =
                  [i \in Ranks |-> Block(r, (r + i) % N, call[r] + 1)]]
  /\ round' = [round EXCEPT ![r] = 0]
  /\ pc' = [pc EXCEPT ![r] = "irecv"]
  /\ UNCHANGED <<idx, rbuf, pmlVars, faults>>

Irecv(r) == /\ pc[r] = "irecv"
            /\ round[r] < len
            /\ rreq' = [rreq EXCEPT ![r] = "posted"]
            /\ pc' = [pc EXCEPT ![r] = "isend"]
            /\ UNCHANGED <<idx, call, round, tmpbuf, rbuf, sreq, wire, faults>>

\* Bug: the send waits for the receive.
IsendAfterReceive(r) ==
  /\ pc[r] = "isend"
  /\ rreq[r] = "done"
  /\ \E p \in Protocols :
       /\ wire' = [wire EXCEPT ![r][SendTo(r, round[r])] =
                     Append(@, [data |-> tmpbuf[r], protocol |-> p])]
       /\ sreq' = [sreq EXCEPT ![r] = IF p = "eager" THEN "done" ELSE "active"]
  /\ pc' = [pc EXCEPT ![r] = "wait"]
  /\ UNCHANGED <<idx, call, round, tmpbuf, rbuf, rreq, faults>>

Isend(r) ==
  /\ pc[r] = "isend"
  /\ \E p \in Protocols :
       /\ wire' = [wire EXCEPT ![r][SendTo(r, round[r])] =
                     Append(@, [data |-> tmpbuf[r], protocol |-> p])]
       /\ sreq' = [sreq EXCEPT ![r] = IF p = "eager" THEN "done" ELSE "active"]
  /\ pc' = [pc EXCEPT ![r] = "wait"]
  /\ UNCHANGED <<idx, call, round, tmpbuf, rbuf, rreq, faults>>

\* Both requests are complete: copy the new data to the temporary buffer.
WaitAll(r) ==
  /\ pc[r] = "wait"
  /\ rreq[r] = "done"
  /\ sreq[r] = "done"
  /\ rreq' = [rreq EXCEPT ![r] = "none"]
  /\ sreq' = [sreq EXCEPT ![r] = "none"]
  /\ tmpbuf' = [tmpbuf EXCEPT ![r] =
                  [i \in Ranks |-> IF Moves(r, i) THEN rbuf[r][i] ELSE @[i]]]
  /\ round' = [round EXCEPT ![r] = @ + 1]
  /\ pc' = [pc EXCEPT ![r] = "irecv"]
  /\ UNCHANGED <<idx, call, rbuf, wire, faults>>

\* Step 3: the rotation into the receive buffer.
Return(r) ==
  /\ pc[r] = "irecv"
  /\ round[r] = len
  /\ rbuf' = [rbuf EXCEPT ![r] = [s \in Ranks |-> tmpbuf[r][(r - s + N) % N]]]
  /\ pc' = [pc EXCEPT ![r] = "out"]
  /\ UNCHANGED <<idx, call, round, tmpbuf, pmlVars, faults>>

\* Bug: the error code is dropped on the way out.
FailUnreported(r) ==
  /\ faults < MaxFaults
  /\ \/ pc[r] = "irecv" /\ round[r] < len
     \/ pc[r] = "isend"
  /\ pc' = [pc EXCEPT ![r] = "out"]
  /\ faults' = faults + 1
  /\ UNCHANGED <<idx, call, round, tmpbuf, rbuf, pmlVars>>

\* irecv or isend returns an error, and so does the call; the temporary buffer
\* is freed, a receive that is posted stays posted.
Fail(r) == /\ faults < MaxFaults
           /\ \/ pc[r] = "irecv" /\ round[r] < len
              \/ pc[r] = "isend"
           /\ pc' = [pc EXCEPT ![r] = "failed"]
           /\ faults' = faults + 1
           /\ UNCHANGED <<idx, call, round, tmpbuf, rbuf, pmlVars>>

RankStep(r) == \/ Enter(r) \/ Irecv(r) \/ Isend(r) \/ WaitAll(r) \/ Return(r)

\* The data goes where it was in the sender's buffer; that of a rendezvous
\* message is read from the temporary buffer only now.
Match(s, d) ==
  LET m == Head(wire[s][d])
      data == IF m.protocol = "rndv" THEN tmpbuf[s] ELSE m.data IN
  /\ wire[s][d] # <<>>
  /\ rreq[d] = "posted"
  /\ RecvFrom(d, round[d]) = s
  /\ rbuf' = [rbuf EXCEPT ![d] =
                [i \in Ranks |-> IF i \in Slots(s, d) THEN data[i] ELSE @[i]]]
  /\ rreq' = [rreq EXCEPT ![d] = "done"]
  /\ sreq' = [sreq EXCEPT ![s] = IF m.protocol = "rndv" THEN "done" ELSE @]
  /\ wire' = [wire EXCEPT ![s][d] = Tail(@)]
  /\ UNCHANGED <<idx, pc, call, round, tmpbuf, faults>>

\* All the calls are over.
Finished == /\ \A r \in Ranks : pc[r] = "out" /\ call[r] = Calls
            /\ UNCHANGED vars

Next == \/ \E r \in Ranks : RankStep(r) \/ Fail(r)
        \/ \E s, d \in Ranks : Match(s, d)
        \/ Finished

Fairness == /\ \A r \in Ranks : WF_vars(RankStep(r))
            /\ \A s, d \in Ranks : WF_vars(Match(s, d))

Spec == Init /\ [][Next]_vars /\ Fairness

-----------------------------------------------------------------------------
(* Properties.                                                             *)

TypeOK ==
  /\ idx \in [Ranks -> Orders]
  /\ pc \in [Ranks -> {"out", "irecv", "isend", "wait", "failed"}]
  /\ call \in [Ranks -> 0 .. Calls]
  /\ round \in [Ranks -> 0 .. len]
  /\ tmpbuf \in [Ranks -> [Ranks -> Blocks \union {NoBlock}]]
  /\ rbuf \in [Ranks -> [Ranks -> Blocks \union {NoBlock}]]
  /\ rreq \in [Ranks -> {"none", "posted", "done"}]
  /\ sreq \in [Ranks -> {"none", "active", "done"}]
  /\ wire \in [Ranks -> [Ranks -> Seq([data : [Ranks -> Blocks], protocol : Protocols])]]
  /\ faults \in 0 .. MaxFaults

\* A call that returned MPI_SUCCESS has in slot s the block that rank s
\* addressed to this rank in the same call, through however many ranks it came.
Complete == \A r \in Ranks : pc[r] = "out" /\ call[r] > 0 =>
              \A s \in Ranks : rbuf[r][s] = Block(s, r, call[r])

\* No rank returns from a call before every rank has entered it, although it
\* exchanges with a few of them only.
NoneLeavesEarly == \A r, s \in Ranks : pc[r] = "out" => call[s] >= call[r]

\* The distances of the rounds below k.
Made(order, k) == {Power[order[m]] : m \in 0 .. k - 1}

\* What is left of i when those distances are taken out of it.
IsRest(rest, i, made) == \A b \in 0 .. len - 1 :
  Has(rest, Power[b]) <=> Has(i, Power[b]) /\ Power[b] \notin made

\* A block of call c that may be in slot i of r when those rounds are made: it has
\* i to go in all, and the rest of i from here.
IsInSlot(block, i, r, made, c) == \E rest \in Ranks :
  /\ IsRest(rest, i, made)
  /\ block = Block((r + rest - i) % N, (r + rest) % N, c)

\* In its current call, s has sent, and d has received, in round k.
HasSent(s, k) == k < round[s] \/ (k = round[s] /\ pc[s] = "wait")
HasReceived(d, k) == k < round[d] \/ (k = round[d] /\ rreq[d] = "done")

\* The rounds in which two ranks meet; one at most, in each call.
Meetings(s, d) == {k \in 0 .. len - 1 : SendTo(s, k) = d}
Sent(s, k) == IF HasSent(s, k) THEN call[s] ELSE call[s] - 1
Received(d, k) == IF HasReceived(d, k) THEN call[d] ELSE call[d] - 1

\* The n-th message on the way from s to d is that of the n-th call whose
\* message d has not received, with the blocks s had when it came to the round.
ChannelOK(s, d) ==
  /\ Meetings(s, d) = {} => wire[s][d] = <<>>
  /\ \A k \in Meetings(s, d) :
       /\ Len(wire[s][d]) = Sent(s, k) - Received(d, k)
       /\ \A n \in 1 .. Len(wire[s][d]) : \A i \in Slots(s, d) :
            IsInSlot(wire[s][d][n].data[i], i, s, Made(idx[s], k), Received(d, k) + n)

\* The data of a rendezvous message is still in the temporary buffer: its sender
\* waits for it, and has sent nothing since.
RendezvousOK(s, d) == \A n \in 1 .. Len(wire[s][d]) : wire[s][d][n].protocol = "rndv" =>
  /\ n = Len(wire[s][d])
  /\ pc[s] = "wait" /\ sreq[s] = "active" /\ SendTo(s, round[s]) = d
  /\ wire[s][d][n].data = tmpbuf[s]

\* The requests of a rank, where it is in the function.
RequestsOK(r) ==
  /\ pc[r] \in {"isend", "wait"} => rreq[r] # "none"
  /\ pc[r] \in {"out", "irecv"} => rreq[r] = "none"
  /\ sreq[r] # "none" <=> pc[r] = "wait"
  /\ pc[r] = "out" => round[r] = len
  /\ pc[r] \in {"isend", "wait", "failed"} => round[r] < len
  /\ pc[r] # "out" => call[r] > 0

\* In a call, the temporary buffer is as far as the rounds the rank has made; what
\* it has received is one round further.
TmpbufOK(r) == pc[r] # "out" =>
  \A i \in Ranks : IsInSlot(tmpbuf[r][i], i, r, Made(idx[r], round[r]), call[r])
ReceivedOK(r) == rreq[r] = "done" =>
  \A i \in Ranks : Moves(r, i) => IsInSlot(rbuf[r][i], i, r, Made(idx[r], round[r] + 1), call[r])

\* A block exists only once its sender has entered the call.
HasBegun(block) == block # NoBlock => block[3] <= call[block[1]]
OriginsOK(r) == /\ \A i \in Ranks : HasBegun(tmpbuf[r][i]) /\ HasBegun(rbuf[r][i])
                /\ \A d \in Ranks : \A n \in 1 .. Len(wire[r][d]) : \A i \in Ranks :
                     HasBegun(wire[r][d][n].data[i])

\* The invariant behind Complete, where the ranks draw the same order.
IInv == /\ TypeOK
        /\ SameOrders => \A r, s \in Ranks : idx[r] = idx[s]
        /\ \A r \in Ranks : RequestsOK(r) /\ TmpbufOK(r) /\ ReceivedOK(r) /\ OriginsOK(r)
        /\ \A s, d \in Ranks : ChannelOK(s, d) /\ RendezvousOK(s, d)
        /\ Complete

\* Unless something fails, every rank gets through all its calls.
Termination ==
  [](faults = 0) => <>[](\A r \in Ranks : pc[r] = "out" /\ call[r] = Calls)
=============================================================================
