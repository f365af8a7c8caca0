------------------------- MODULE LinearSyncAlltoall -------------------------
(***************************************************************************)
(* ompi_coll_tuned_alltoall_intra_linear_sync (not in place): all-to-all   *)
(* with a window of requests.  A rank posts T receives and T sends at      *)
(* once; unless these are all there are, it then waits for any request to  *)
(* complete and puts the next one of the same kind in its slot, until it   *)
(* has counted 2 * (N - 1) completions.  Receives go up from the rank's    *)
(* successor and sends down from its predecessor.                          *)
(***************************************************************************)
EXTENDS Integers, Sequences, FiniteSets

CONSTANTS N,          \* size: the number of ranks
          Windows,    \* the values max_outstanding_reqs may have
          Protocols,  \* how the point-to-point layer may send a block
          Calls,      \* bound: how many calls each rank makes
          MaxFaults   \* bound: how many irecv and isend calls return an error

ASSUME NAssumption == N \in Nat \ {0}
ASSUME WindowsAssumption == Windows # {} /\ Windows \subseteq Int
ASSUME ProtocolsAssumption == Protocols \subseteq {"eager", "rndv"}
ASSUME BoundsAssumption == Calls \in Nat /\ MaxFaults \in Nat

Ranks == 0 .. N - 1

VARIABLES
  window, \* max_outstanding_reqs, the same on all ranks
  pc,      \* "out" of the library, at the local "copy", "in" the exchanges,
           \* "failed", or "crashed"
  call,    \* the number of calls a rank has entered
  reqs,    \* reqs[r][k]: the request in slot k, or Null
  nrreqs,  \* how many receives a rank has posted in its call
  nsreqs,  \* how many sends
  ncreqs,  \* how many completions it has counted
  rbuf,    \* rbuf[r][s]: the block in slot s of r's receive buffer
  wire,    \* wire[s][d]: the messages s has sent d that match no receive yet
  faults,  \* how many errors there have been
  lost     \* whether the error of a send has gone unnoticed (history)

counters == <<nrreqs, nsreqs, ncreqs>>
vars == <<window, pc, call, reqs, counters, rbuf, wire, faults, lost>>

\* total_reqs; slots below T are for receives, the others for sends.
T == IF window > N - 1 \/ window <= 0 THEN N - 1 ELSE window
Slots == 0 .. 2 * T - 1

Block(s, d, c) == <<s, d, c>>
NoBlock == <<>>
Blocks == Ranks \X Ranks \X (0 .. Calls)
Messages == [block : Blocks, protocol : Protocols]

Null == [peer |-> -1, done |-> FALSE]
Request(p, done) == [peer |-> p, done |-> done]
NoRequests == [k \in Slots |-> Null]

\* The partner of the n-th receive and of the n-th send, counted from 0.
RecvPeer(r, n) == (r + 1 + n) % N
\* Bug: the sends go up like the receives.
SendPeerUp(r, n) == (r + 1 + n) % N

SendPeer(r, n) == (r + N - 1 - n) % N

\* The counters of a rank that is in no call are those of a call that is over.
Init == /\ window \in Windows
        /\ pc = [r \in Ranks |-> "out"]
        /\ call = [r \in Ranks |-> 0]
        /\ reqs = [r \in Ranks |-> NoRequests]
        /\ nrreqs = [r \in Ranks |-> N - 1]
        /\ nsreqs = [r \in Ranks |-> N - 1]
        /\ ncreqs = [r \in Ranks |-> 2 * (N - 1)]
        /\ rbuf = [r \in Ranks |-> [s \in Ranks |-> NoBlock]]
        /\ wire = [s \in Ranks |-> [d \in Ranks |-> <<>>]]
        /\ faults = 0
        /\ lost = FALSE

-----------------------------------------------------------------------------
(* The steps of a rank.                                                    *)

Enter(r) == /\ pc[r] = "out"
            /\ call[r] < Calls
            /\ call' = [call EXCEPT ![r] = @ + 1]
            /\ pc' = [pc EXCEPT ![r] = "copy"]
            /\ reqs' = [reqs EXCEPT ![r] = NoRequests]
            /\ nrreqs' = [nrreqs EXCEPT ![r] = 0]
            /\ nsreqs' = [nsreqs EXCEPT ![r] = 0]
            /\ ncreqs' = [ncreqs EXCEPT ![r] = 0]
            /\ UNCHANGED <<window, rbuf, wire, faults, lost>>

LocalCopy(r) == /\ pc[r] = "copy"
                /\ rbuf' = [rbuf EXCEPT ![r][r] = Block(r, r, call[r])]
                /\ pc' = [pc EXCEPT ![r] = "in"]
                /\ UNCHANGED <<window, call, reqs, counters, wire, faults, lost>>

\* irecv into slot k from the next partner.
Irecv(r, k) == /\ reqs' = [reqs EXCEPT ![r][k] = Request(RecvPeer(r, nrreqs[r]), FALSE)]
               /\ nrreqs' = [nrreqs EXCEPT ![r] = @ + 1]
               /\ UNCHANGED <<nsreqs, wire>>

\* isend into slot k to the next partner: an eager one is complete at once.
Isend(r, k) ==
  LET d == SendPeer(r, nsreqs[r]) IN
  /\ \E p \in Protocols :
       /\ wire' = [wire EXCEPT ![r][d] =
                     Append(@, [block |-> Block(r, d, call[r]), protocol |-> p])]
       /\ reqs' = [reqs EXCEPT ![r][k] = Request(d, p = "eager")]
  /\ nsreqs' = [nsreqs EXCEPT ![r] = @ + 1]
  /\ UNCHANGED nrreqs

PostRecv(r) == /\ pc[r] = "in"
               /\ nrreqs[r] < T
               /\ Irecv(r, nrreqs[r])
               /\ UNCHANGED <<window, pc, call, ncreqs, rbuf, faults, lost>>

PostSend(r) == /\ pc[r] = "in"
               /\ nrreqs[r] >= T
               /\ nsreqs[r] < T
               /\ Isend(r, T + nsreqs[r])
               /\ UNCHANGED <<window, pc, call, ncreqs, rbuf, faults, lost>>

\* The first batch is posted.
Waiting(r) == pc[r] = "in" /\ nrreqs[r] >= T /\ nsreqs[r] >= T

\* Bugs: the wait covers the receives only, or the sends only.
WaitAllReceives(r) == /\ Waiting(r)
                      /\ T = N - 1
                      /\ \A k \in 0 .. T - 1 : reqs[r][k].done
                      /\ reqs' = [reqs EXCEPT ![r] = NoRequests]
                      /\ pc' = [pc EXCEPT ![r] = "out"]
                      /\ UNCHANGED <<window, call, counters, rbuf, wire, faults, lost>>

WaitAllSends(r) == /\ Waiting(r)
                   /\ T = N - 1
                   /\ \A k \in T .. 2 * T - 1 : reqs[r][k].done
                   /\ reqs' = [reqs EXCEPT ![r] = NoRequests]
                   /\ pc' = [pc EXCEPT ![r] = "out"]
                   /\ UNCHANGED <<window, call, counters, rbuf, wire, faults, lost>>

\* These were all the requests: wait for all of them, and return.
WaitAll(r) == /\ Waiting(r)
              /\ T = N - 1
              /\ \A k \in Slots : reqs[r][k].done
              /\ reqs' = [reqs EXCEPT ![r] = NoRequests]
              /\ pc' = [pc EXCEPT ![r] = "out"]
              /\ UNCHANGED <<window, call, counters, rbuf, wire, faults, lost>>

\* Bug: the loop counts the rank's own block as well.
InLoopLong(r) == Waiting(r) /\ T < N - 1 /\ ncreqs[r] < 2 * N - 1

InLoop(r) == Waiting(r) /\ T < N - 1 /\ ncreqs[r] < 2 * (N - 1)

\* wait_any takes the first slot whose request is complete.
Completed(r, k) == /\ reqs[r][k].done
                   /\ \A j \in 0 .. k - 1 : ~reqs[r][j].done

Count(r) == ncreqs' = [ncreqs EXCEPT ![r] = @ + 1]

MoreRecvs(r) == nrreqs[r] < N - 1
MoreSends(r) == nsreqs[r] < N - 1

\* wait_any, and the next request of the same kind if there is one.
ReplaceRecv(r) == /\ InLoop(r)
                  /\ MoreRecvs(r)
                  /\ \E k \in 0 .. T - 1 : Completed(r, k) /\ Irecv(r, k)
                  /\ Count(r)
                  /\ UNCHANGED <<window, pc, call, rbuf, faults, lost>>

ReplaceSend(r) == /\ InLoop(r)
                  /\ MoreSends(r)
                  /\ \E k \in T .. 2 * T - 1 : Completed(r, k) /\ Isend(r, k)
                  /\ Count(r)
                  /\ UNCHANGED <<window, pc, call, rbuf, faults, lost>>

\* Bug: the slot is not set to MPI_REQUEST_NULL.
RetireKept(r) == /\ InLoop(r)
                 /\ \E k \in Slots :
                      /\ Completed(r, k)
                      /\ IF k < T THEN ~MoreRecvs(r) ELSE ~MoreSends(r)
                 /\ Count(r)
                 /\ UNCHANGED <<window, pc, call, reqs, nrreqs, nsreqs, rbuf, wire, faults, lost>>

Retire(r) == /\ InLoop(r)
             /\ \E k \in Slots :
                  /\ Completed(r, k)
                  /\ IF k < T THEN ~MoreRecvs(r) ELSE ~MoreSends(r)
                  /\ reqs' = [reqs EXCEPT ![r][k] = Null]
             /\ Count(r)
             /\ UNCHANGED <<window, pc, call, nrreqs, nsreqs, rbuf, wire, faults, lost>>

\* Bug: the loop counts one completion short.
ReturnShort(r) == /\ Waiting(r)
                  /\ T < N - 1
                  /\ ncreqs[r] >= 2 * (N - 1) - 1
                  /\ pc' = [pc EXCEPT ![r] = "out"]
                  /\ UNCHANGED <<window, call, reqs, counters, rbuf, wire, faults, lost>>

Return(r) == /\ Waiting(r)
             /\ T < N - 1
             /\ ncreqs[r] = 2 * (N - 1)
             /\ pc' = [pc EXCEPT ![r] = "out"]
             /\ UNCHANGED <<window, call, reqs, counters, rbuf, wire, faults, lost>>

RankStep(r) == \/ Enter(r) \/ LocalCopy(r) \/ PostRecv(r) \/ PostSend(r)
               \/ WaitAll(r) \/ ReplaceRecv(r) \/ ReplaceSend(r)
               \/ Retire(r) \/ Return(r)

-----------------------------------------------------------------------------
(* Errors.                                                                 *)

\* Bug: the error code is dropped on the way out.
FailUnreported(r) ==
  /\ faults < MaxFaults
  /\ pc[r] = "in"
  /\ \/ nrreqs[r] < T
     \/ nsreqs[r] < T
     \/ InLoop(r) /\ MoreRecvs(r) /\ \E k \in 0 .. T - 1 : Completed(r, k)
  /\ pc' = [pc EXCEPT ![r] = "out"]
  /\ faults' = faults + 1
  /\ UNCHANGED <<window, call, reqs, counters, rbuf, wire, lost>>

\* irecv, or isend of the first batch, returns an error: so does the call.  The
\* array of requests is freed, the requests that are posted stay posted.
Fail(r) == /\ faults < MaxFaults
           /\ pc[r] = "in"
           /\ \/ nrreqs[r] < T
              \/ nsreqs[r] < T
              \/ InLoop(r) /\ MoreRecvs(r) /\ \E k \in 0 .. T - 1 : Completed(r, k)
           /\ pc' = [pc EXCEPT ![r] = "failed"]
           /\ faults' = faults + 1
           /\ UNCHANGED <<window, call, reqs, counters, rbuf, wire, lost>>

\* isend in the loop returns an error, which nothing looks at.  The request is
\* not set (PML cm) or is one that never completes (PML ob1).
LoseSend(r) ==
  /\ faults < MaxFaults
  /\ InLoop(r)
  /\ MoreSends(r)
  /\ \E k \in T .. 2 * T - 1, q \in {Null, Request(SendPeer(r, nsreqs[r]), FALSE)} :
       /\ Completed(r, k)
       /\ reqs' = [reqs EXCEPT ![r][k] = q]
  /\ nsreqs' = [nsreqs EXCEPT ![r] = @ + 1]
  /\ Count(r)
  /\ faults' = faults + 1
  /\ lost' = TRUE
  /\ UNCHANGED <<window, pc, call, nrreqs, rbuf, wire>>

\* wait_any has nothing to wait for and sets the index to MPI_UNDEFINED, which
\* is negative: the write to reqs[completed] is outside the array.  It hits
\* memory that is not mapped, or it goes unnoticed and counts as a completion.
WaitForNothing(r) == /\ InLoop(r)
                     /\ reqs[r] = NoRequests
                     /\ \/ pc' = [pc EXCEPT ![r] = "crashed"] /\ UNCHANGED ncreqs
                        \/ Count(r) /\ UNCHANGED pc
                     /\ UNCHANGED <<window, call, reqs, nrreqs, nsreqs, rbuf, wire, faults, lost>>

Fault(r) == Fail(r) \/ LoseSend(r) \/ WaitForNothing(r)

-----------------------------------------------------------------------------
(* The point-to-point layer.                                               *)

Outstanding(q, p) == q.peer = p /\ ~q.done

\* The oldest message of s meets the receive d has posted for s; the send of a
\* rendezvous message is then complete.
Match(s, d) ==
  /\ wire[s][d] # <<>>
  /\ \E k \in 0 .. T - 1 :
       /\ Outstanding(reqs[d][k], s)
       /\ reqs' = [r \in Ranks |-> [j \in Slots |->
            IF \/ r = d /\ j = k
               \/ /\ r = s /\ j >= T
                  /\ Outstanding(reqs[s][j], d) /\ Head(wire[s][d]).protocol = "rndv"
            THEN Request(reqs[r][j].peer, TRUE) ELSE reqs[r][j]]]
  /\ rbuf' = [rbuf EXCEPT ![d][s] = Head(wire[s][d]).block]
  /\ wire' = [wire EXCEPT ![s][d] = Tail(@)]
  /\ UNCHANGED <<window, pc, call, counters, faults, lost>>

\* All the calls are over.
Finished == /\ \A r \in Ranks : pc[r] = "out" /\ call[r] = Calls
            /\ UNCHANGED vars

Next == \/ \E r \in Ranks : RankStep(r) \/ Fault(r)
        \/ \E s, d \in Ranks : Match(s, d)
        \/ Finished

Fairness == /\ \A r \in Ranks : WF_vars(RankStep(r))
            /\ \A s, d \in Ranks : WF_vars(Match(s, d))

Spec == Init /\ [][Next]_vars /\ Fairness

-----------------------------------------------------------------------------
(* Properties.                                                             *)

TypeOK ==
  /\ window \in Windows
  /\ pc \in [Ranks -> {"out", "copy", "in", "failed", "crashed"}]
  /\ call \in [Ranks -> 0 .. Calls]
  /\ reqs \in [Ranks -> [Slots -> [peer : Ranks \union {-1}, done : BOOLEAN]]]
  /\ nrreqs \in [Ranks -> 0 .. N - 1]
  /\ nsreqs \in [Ranks -> 0 .. N - 1]
  /\ ncreqs \in [Ranks -> 0 .. 2 * (N - 1)]
  /\ rbuf \in [Ranks -> [Ranks -> Blocks \union {NoBlock}]]
  /\ wire \in [Ranks -> [Ranks -> Seq(Messages)]]
  /\ faults \in 0 .. MaxFaults
  /\ lost \in BOOLEAN

\* A call that returned MPI_SUCCESS has in slot s the block that rank s
\* addressed to this rank in the same call, for every s.
Complete == \A r \in Ranks : pc[r] = "out" /\ call[r] > 0 =>
              \A s \in Ranks : rbuf[r][s] = Block(s, r, call[r])

\* It has as long as every error that occurs is looked at.
CompleteIfReported == ~lost => Complete

\* No rank returns from a call before every rank has entered it.
NoneLeavesEarly == \A r, s \in Ranks : pc[r] = "out" => call[s] >= call[r]

\* A call that returned left no request behind on the application's buffers.
BuffersReleased == \A r \in Ranks : pc[r] = "out" =>
  /\ reqs[r] = NoRequests
  /\ \A d \in Ranks : \A i \in 1 .. Len(wire[r][d]) :
       wire[r][d][i].protocol # "rndv"

\* wait_any is never given nothing to wait for: each completion the loop still
\* has to count is one of a request in a slot or of one that will get there.
\* (Unless the error of an isend has gone unnoticed.)
WaitsForSomething == ~lost => \A r \in Ranks : InLoop(r) => reqs[r] # NoRequests

\* The slots with a request, and how many requests are posted and not counted.
Busy(r) == {k \in Slots : reqs[r][k] # Null}
Left(r) == nrreqs[r] + nsreqs[r] - ncreqs[r]

\* The peers r waits to receive from, and those it waits for to take its block.
Pending(r) == {p \in Ranks : \E k \in 0 .. T - 1 : Outstanding(reqs[r][k], p)}
Sending(r) == {p \in Ranks : \E k \in T .. 2 * T - 1 : Outstanding(reqs[r][k], p)}

\* The peers that r has received from, and those it has sent to, in this call.
Posted(r) == {RecvPeer(r, n) : n \in 0 .. nrreqs[r] - 1}
ReceivedFrom(r) == Posted(r) \ Pending(r)
SentTo(r) == {SendPeer(r, n) : n \in 0 .. nsreqs[r] - 1}

Sent(s, d) == IF d \in SentTo(s) THEN call[s] ELSE call[s] - 1
Received(d, s) == IF s \in ReceivedFrom(d) THEN call[d] ELSE call[d] - 1

\* The slots fill up from the first of each kind and hold different requests,
\* all of them posted and not counted.  The next receive takes the slot of the
\* one that is complete, so that none goes unused before the last is posted;
\* nothing is counted before the first batch is.
SlotsOK(r) ==
  /\ \A k \in Busy(r) :
       IF k < T THEN k < nrreqs[r] /\ reqs[r][k].peer \in Posted(r)
                ELSE k - T < nsreqs[r] /\ reqs[r][k].peer \in SentTo(r)
  /\ \A j, k \in Busy(r) : j # k /\ (j < T <=> k < T)
                            => reqs[r][j].peer # reqs[r][k].peer
  /\ MoreRecvs(r) => \A k \in 0 .. T - 1 : k < nrreqs[r] => k \in Busy(r)
  /\ nrreqs[r] < T \/ nsreqs[r] < T => ncreqs[r] = 0
  /\ Busy(r) = {} \/ Cardinality(Busy(r)) <= Left(r)

\* Nothing but an isend that fails unseen loses a slot or a completion.
CountsOK(r) ==
  /\ T < N - 1 => Cardinality(Busy(r)) = Left(r)
  /\ MoreSends(r) => \A k \in 0 .. T - 1 : k < nsreqs[r] => T + k \in Busy(r)
  /\ pc[r] = "out" => nsreqs[r] = N - 1

\* Where a rank is in its call.
StageOK(r) ==
  /\ pc[r] = "out" => Busy(r) = {} /\ nrreqs[r] = N - 1
  /\ pc[r] = "copy" => /\ Busy(r) = {}
                       /\ nrreqs[r] = 0 /\ nsreqs[r] = 0 /\ ncreqs[r] = 0
  /\ pc[r] # "out" => call[r] > 0
  /\ pc[r] # "copy" /\ call[r] > 0 => rbuf[r][r] = Block(r, r, call[r])

\* The last message between two ranks may go by rendezvous, and the sender then
\* waits for it.
WireOK(s, d) ==
  /\ Len(wire[s][d]) <= Sent(s, d) - Received(d, s)
  /\ \A n \in 1 .. Len(wire[s][d]) : wire[s][d][n].protocol = "rndv" =>
                                        n = Len(wire[s][d]) /\ d \in Sending(s)

\* Between two ranks are the blocks sent and not received, one of each call and
\* in order.
InOrder(s, d) ==
  /\ Len(wire[s][d]) = Sent(s, d) - Received(d, s)
  /\ \A n \in 1 .. Len(wire[s][d]) :
       wire[s][d][n].block = Block(s, d, Received(d, s) + n)

ReceivedInPlace(r) == call[r] > 0 =>
  \A s \in ReceivedFrom(r) : rbuf[r][s] = Block(s, r, call[r])

\* The inductive invariant: what holds whatever fails, and what else holds until
\* the error of an isend goes unnoticed.
IInv == /\ TypeOK
        /\ \A r \in Ranks : SlotsOK(r) /\ StageOK(r)
        /\ \A s, d \in Ranks : IF s = d THEN wire[s][d] = <<>> ELSE WireOK(s, d)
        /\ ~lost => /\ \A r \in Ranks : CountsOK(r) /\ ReceivedInPlace(r)
                    /\ \A s, d \in Ranks : s # d => InOrder(s, d)

\* Unless a request fails, every rank gets through all its calls.
Termination == [](faults = 0) => <>[](\A r \in Ranks : pc[r] = "out" /\ call[r] = Calls)

\* The contract, as the ranks' calls see it.
Contract == INSTANCE Alltoall WITH
  stage <- [r \in Ranks |-> CASE pc[r] = "out" -> "out"
                              [] pc[r] \in {"copy", "in"} -> "in"
                              [] OTHER -> "failed"]

\* The algorithm implements MPI_Alltoall until an error goes unnoticed; from
\* then on a call may return without the blocks it promised.
ImplementsContract ==
  Contract!Init /\ [][~lost' => Contract!Next \/ UNCHANGED Contract!vars]_vars
=============================================================================
