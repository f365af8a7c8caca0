-------------------------- MODULE PairwiseAlltoall --------------------------
(***************************************************************************)
(* ompi_coll_tuned_alltoall_intra_pairwise (not in place), called Calls    *)
(* times in a row by every rank of a communicator, over the point-to-point *)
(* layer.  An exchange is ompi_coll_tuned_sendrecv: a local copy when both *)
(* partners are the rank itself, otherwise irecv, isend and a wait for     *)
(* both.  All messages of all calls carry the same communicator and tag,   *)
(* so only their order between two ranks says to which call they belong.   *)
(* Blocks are not empty: an exchange of empty blocks does nothing.         *)
(***************************************************************************)
EXTENDS Schedules, Sequences

CONSTANTS Plans,      \* SF_ALLTOALL_MODE with the shuffles a rank may draw for it
          SamePlans,  \* whether all ranks have the same mode and shuffles
          Protocols,  \* how the point-to-point layer may send a block
          Calls,      \* bound: how many calls each rank makes
          MaxFaults   \* bound: how many irecv and isend calls return an error

ASSUME PlansAssumption ==
  /\ Plans # {}
  /\ Plans \subseteq [mode : Nat, steps : Shuffles(N - 1),
                      grid : [Ranks -> Shuffles(N)]]
ASSUME SamePlansAssumption == SamePlans \in BOOLEAN
ASSUME ProtocolsAssumption == Protocols \subseteq {"eager", "rndv"}
ASSUME BoundsAssumption == Calls \in Nat /\ MaxFaults \in Nat

VARIABLES
  plan,   \* plan[r]: the mode r reads from its environment and its shuffles, the
          \* same in every call since srand fixes them
  pc,     \* "out" of the library, at "exchange", at "isend", in "wait", "failed"
  call,   \* the number of calls a rank has entered
  pos,    \* the iteration of the schedule a rank has reached
  rbuf,   \* rbuf[r][s]: the block in slot s of r's receive buffer
  rreq,   \* r's receive request: "none", "posted" or "done"
  sreq,   \* r's send request: "none", "active" or "done"
  wire,   \* wire[s][d]: the messages s has sent d that match no receive yet
  faults  \* how many errors there have been

rankVars == <<pc, call, pos>>
pmlVars == <<rbuf, rreq, sreq, wire>>
vars == <<plan, rankVars, pmlVars, faults>>

Block(s, d, c) == <<s, d, c>>
NoBlock == <<>>
Blocks == Ranks \X Ranks \X (0 .. Calls)
Messages == [block : Blocks, protocol : Protocols]

\* The partners of r in the iteration it has reached.
AtExchange(r) == Exchanges(plan[r].mode, plan[r], r, pos[r])
sendto(r) == SendTo(plan[r].mode, plan[r], r, pos[r])
recvfrom(r) == RecvFrom(plan[r].mode, plan[r], r, pos[r])
IsLocal(r) == sendto(r) = recvfrom(r) /\ recvfrom(r) = r

\* The position of a rank that is not in a call.
LoopEnd(r) == Last(plan[r].mode) + 1

\* Bug: each rank seeds the shuffle with a number of its own.
InitSeedPerRank ==
  /\ plan \in [Ranks -> Plans]
  /\ pc = [r \in Ranks |-> "out"]
  /\ call = [r \in Ranks |-> 0]
  /\ pos = [r \in Ranks |-> LoopEnd(r)]
  /\ rbuf = [r \in Ranks |-> [s \in Ranks |-> NoBlock]]
  /\ rreq = [r \in Ranks |-> "none"]
  /\ sreq = [r \in Ranks |-> "none"]
  /\ wire = [s \in Ranks |-> [d \in Ranks |-> <<>>]]
  /\ faults = 0

Init == /\ plan \in [Ranks -> Plans]
        /\ SamePlans => \A r, s \in Ranks : plan[r] = plan[s]
        /\ pc = [r \in Ranks |-> "out"]
        /\ call = [r \in Ranks |-> 0]
        /\ pos = [r \in Ranks |-> LoopEnd(r)]
        /\ rbuf = [r \in Ranks |-> [s \in Ranks |-> NoBlock]]
        /\ rreq = [r \in Ranks |-> "none"]
        /\ sreq = [r \in Ranks |-> "none"]
        /\ wire = [s \in Ranks |-> [d \in Ranks |-> <<>>]]
        /\ faults = 0

-----------------------------------------------------------------------------
(* The steps of a rank.                                                    *)

\* Move to the first exchange after iteration k.
GoToNext(r, k) == \E n \in 0 .. LoopEnd(r) :
                     /\ IsNext(plan[r].mode, plan[r], r, k, n)
                     /\ pos' = [pos EXCEPT ![r] = n]

\* The application calls MPI_Alltoall.
Enter(r) == /\ pc[r] = "out"
            /\ call[r] < Calls
            /\ call' = [call EXCEPT ![r] = @ + 1]
            /\ pc' = [pc EXCEPT ![r] = "exchange"]
            /\ GoToNext(r, -1)
            /\ UNCHANGED <<plan, pmlVars, faults>>

\* An exchange of a rank with itself copies the block.
LocalCopy(r) == /\ pc[r] = "exchange"
                /\ AtExchange(r)
                /\ IsLocal(r)
                /\ rbuf' = [rbuf EXCEPT ![r][r] = Block(r, r, call[r])]
                /\ GoToNext(r, pos[r])
                /\ UNCHANGED <<plan, pc, call, rreq, sreq, wire, faults>>

Irecv(r) == /\ pc[r] = "exchange"
            /\ AtExchange(r)
            /\ ~IsLocal(r)
            /\ rreq' = [rreq EXCEPT ![r] = "posted"]
            /\ pc' = [pc EXCEPT ![r] = "isend"]
            /\ UNCHANGED <<plan, call, pos, rbuf, sreq, wire, faults>>

\* Bug: the send is posted only once the receive is complete.
IsendAfterReceive(r) ==
  /\ pc[r] = "isend"
  /\ rreq[r] = "done"
  /\ \E p \in Protocols :
       /\ wire' = [wire EXCEPT ![r][sendto(r)] =
                     Append(@, [block |-> Block(r, sendto(r), call[r]),
                                protocol |-> p])]
       /\ sreq' = [sreq EXCEPT ![r] = IF p = "eager" THEN "done" ELSE "active"]
  /\ pc' = [pc EXCEPT ![r] = "wait"]
  /\ UNCHANGED <<plan, call, pos, rbuf, rreq, faults>>

\* An eager send is complete as soon as the data is copied out, a rendezvous
\* send only once the receiver has matched it.
Isend(r) == /\ pc[r] = "isend"
            /\ \E p \in Protocols :
                 /\ wire' = [wire EXCEPT ![r][sendto(r)] =
                               Append(@, [block |-> Block(r, sendto(r), call[r]),
                                          protocol |-> p])]
                 /\ sreq' = [sreq EXCEPT ![r] =
                               IF p = "eager" THEN "done" ELSE "active"]
            /\ pc' = [pc EXCEPT ![r] = "wait"]
            /\ UNCHANGED <<plan, call, pos, rbuf, rreq, faults>>

\* Bugs: the wait covers the send request only, or the receive request only.
WaitSendOnly(r) ==
  /\ pc[r] = "wait"
  /\ sreq[r] = "done"
  /\ rreq' = [rreq EXCEPT ![r] = "none"]
  /\ sreq' = [sreq EXCEPT ![r] = "none"]
  /\ pc' = [pc EXCEPT ![r] = "exchange"]
  /\ GoToNext(r, pos[r])
  /\ UNCHANGED <<plan, call, rbuf, wire, faults>>

WaitReceiveOnly(r) ==
  /\ pc[r] = "wait"
  /\ rreq[r] = "done"
  /\ rreq' = [rreq EXCEPT ![r] = "none"]
  /\ sreq' = [sreq EXCEPT ![r] = "none"]
  /\ pc' = [pc EXCEPT ![r] = "exchange"]
  /\ GoToNext(r, pos[r])
  /\ UNCHANGED <<plan, call, rbuf, wire, faults>>

\* wait_all returns when both requests are complete.
WaitAll(r) == /\ pc[r] = "wait"
              /\ rreq[r] = "done"
              /\ sreq[r] = "done"
              /\ rreq' = [rreq EXCEPT ![r] = "none"]
              /\ sreq' = [sreq EXCEPT ![r] = "none"]
              /\ pc' = [pc EXCEPT ![r] = "exchange"]
              /\ GoToNext(r, pos[r])
              /\ UNCHANGED <<plan, call, rbuf, wire, faults>>

\* The loop is over: the call returns MPI_SUCCESS.  An unknown mode comes here
\* at once, since it jumps to the error handler with err still 0.
Return(r) == /\ pc[r] = "exchange"
             /\ ~AtExchange(r)
             /\ pc' = [pc EXCEPT ![r] = "out"]
             /\ UNCHANGED <<plan, call, pos, pmlVars, faults>>

\* Bug: the error code is dropped on the way out.
FailUnreported(r) ==
  /\ faults < MaxFaults
  /\ \/ pc[r] = "exchange" /\ AtExchange(r) /\ ~IsLocal(r)
     \/ pc[r] = "isend"
  /\ pc' = [pc EXCEPT ![r] = "out"]
  /\ faults' = faults + 1
  /\ UNCHANGED <<plan, call, pos, pmlVars>>

\* irecv or isend returns an error: the call returns it, and a receive that
\* is already posted stays posted.
Fail(r) == /\ faults < MaxFaults
           /\ \/ pc[r] = "exchange" /\ AtExchange(r) /\ ~IsLocal(r)
              \/ pc[r] = "isend"
           /\ pc' = [pc EXCEPT ![r] = "failed"]
           /\ faults' = faults + 1
           /\ UNCHANGED <<plan, call, pos, pmlVars>>

RankStep(r) == \/ Enter(r) \/ LocalCopy(r) \/ Irecv(r) \/ Isend(r)
               \/ WaitAll(r) \/ Return(r)

-----------------------------------------------------------------------------
(* The point-to-point layer.  Messages from one rank to another match in   *)
(* the order they were sent, and a rank has at most one receive posted.    *)

Match(s, d) ==
  /\ wire[s][d] # <<>>
  /\ rreq[d] = "posted"
  /\ recvfrom(d) = s
  /\ rbuf' = [rbuf EXCEPT ![d][s] = Head(wire[s][d]).block]
  /\ rreq' = [rreq EXCEPT ![d] = "done"]
  /\ sreq' = [sreq EXCEPT ![s] = IF Head(wire[s][d]).protocol = "rndv"
                                 THEN "done" ELSE @]
  /\ wire' = [wire EXCEPT ![s][d] = Tail(@)]
  /\ UNCHANGED <<plan, rankVars, faults>>

\* All the calls are over.
Finished == /\ \A r \in Ranks : pc[r] = "out" /\ call[r] = Calls
            /\ UNCHANGED vars

Next == \/ \E r \in Ranks : RankStep(r) \/ Fail(r)
        \/ \E s, d \in Ranks : Match(s, d)
        \/ Finished

\* Every rank makes its calls and runs on inside them, and the progress engine
\* matches a message whose receive is posted.
Fairness == /\ \A r \in Ranks : WF_vars(RankStep(r))
            /\ \A s, d \in Ranks : WF_vars(Match(s, d))

Spec == Init /\ [][Next]_vars /\ Fairness

-----------------------------------------------------------------------------
(* Properties.                                                             *)

TypeOK ==
  /\ plan \in [Ranks -> Plans]
  /\ pc \in [Ranks -> {"out", "exchange", "isend", "wait", "failed"}]
  /\ call \in [Ranks -> 0 .. Calls]
  /\ pos \in [Ranks -> Int]
  /\ \A r \in Ranks : pos[r] \in 0 .. LoopEnd(r)
  /\ rbuf \in [Ranks -> [Ranks -> Blocks \union {NoBlock}]]
  /\ rreq \in [Ranks -> {"none", "posted", "done"}]
  /\ sreq \in [Ranks -> {"none", "active", "done"}]
  /\ wire \in [Ranks -> [Ranks -> Seq(Messages)]]
  /\ faults \in 0 .. MaxFaults

\* A call that returned MPI_SUCCESS has placed in slot s of the receive buffer
\* the block that rank s addressed to this rank in the same call, for every s:
\* not nothing, not the block of an earlier or a later call.
Complete == \A r \in Ranks : pc[r] = "out" /\ call[r] > 0 =>
              \A s \in Ranks : rbuf[r][s] = Block(s, r, call[r])

\* No rank gets out of a call before every rank has entered it, so two ranks
\* are never more than one call apart.
NoneLeavesEarly == \A r, s \in Ranks : pc[r] = "out" => call[s] >= call[r]

\* However far a rank runs ahead, a peer never has to hold more than two
\* unexpected messages of it: one of the call the peer is in, one of the next.
UnexpectedBound == \A s, d \in Ranks : s # d => Len(wire[s][d]) <= 2

\* Once a call has returned MPI_SUCCESS the library touches neither of the
\* application's buffers: no receive is posted and no rendezvous message still
\* has its data in the send buffer.
BuffersReleased == \A r \in Ranks : pc[r] = "out" =>
  /\ rreq[r] # "posted"
  /\ \A d \in Ranks : \A i \in 1 .. Len(wire[r][d]) :
       wire[r][d][i].protocol # "rndv"

\* In its current call, s has sent its block to d; d has received s's block.
HasSent(s, d) == \E k \in Iterations(plan[s].mode) :
  /\ Exchanges(plan[s].mode, plan[s], s, k)
  /\ SendTo(plan[s].mode, plan[s], s, k) = d
  /\ k < pos[s] \/ (k = pos[s] /\ pc[s] = "wait")

HasReceived(d, s) == \E k \in Iterations(plan[d].mode) :
  /\ Exchanges(plan[d].mode, plan[d], d, k)
  /\ RecvFrom(plan[d].mode, plan[d], d, k) = s
  /\ k < pos[d] \/ (k = pos[d] /\ rreq[d] = "done")

\* How many messages s has sent to d in all its calls, and how many messages
\* of s the receives of d have taken.
Sent(s, d) == IF HasSent(s, d) THEN call[s] ELSE call[s] - 1
Received(d, s) == IF HasReceived(d, s) THEN call[d] ELSE call[d] - 1

\* A request is outstanding only in the middle of an exchange of the schedule.
RankOK(r) ==
  /\ pc[r] \in {"out", "exchange"} => rreq[r] = "none" /\ sreq[r] = "none"
  /\ pc[r] = "out" => pos[r] = LoopEnd(r)
  /\ pc[r] = "exchange" => AtExchange(r) \/ pos[r] = LoopEnd(r)
  /\ pc[r] = "isend" => rreq[r] # "none"
  /\ pc[r] \in {"isend", "wait"} \/ rreq[r] # "none" => AtExchange(r) /\ ~IsLocal(r)
  /\ pc[r] # "out" => call[r] > 0

RequestsOK == \A r \in Ranks : RankOK(r)

\* Between two ranks there are exactly the messages sent and not received, one
\* of each call, in the order of the calls.
WireOK == \A s, d \in Ranks : s # d =>
  /\ Len(wire[s][d]) = Sent(s, d) - Received(d, s)
  /\ \A i \in 1 .. Len(wire[s][d]) :
       wire[s][d][i].block = Block(s, d, Received(d, s) + i)

\* What the receives of this call have taken is in place.
ReceivedInPlace == \A d, s \in Ranks :
  HasReceived(d, s) /\ call[d] > 0 => rbuf[d][s] = Block(s, d, call[d])

\* A rendezvous message is the last one of its sender to its receiver, and the
\* sender is waiting for it.
IsPending(s, d, i) == pc[s] = "wait" /\ sreq[s] = "active" /\ sendto(s) = d
                      /\ i = Len(wire[s][d])

RendezvousOK == \A s, d \in Ranks : \A i \in 1 .. Len(wire[s][d]) :
  wire[s][d][i].protocol = "rndv" => IsPending(s, d, i)

\* The inductive invariant behind Complete.
IInv == TypeOK /\ RequestsOK /\ WireOK /\ RendezvousOK /\ ReceivedInPlace

\* "so the local copy is last": in modes 0 and 1 a rank copies its own block
\* only after it has received the blocks of all its peers in this call.
LocalCopyLast ==
  [][\A r \in Ranks : LocalCopy(r) /\ plan[r].mode \in {0, 1} =>
       \A s \in Ranks \ {r} : rbuf[r][s] = Block(s, r, call[r])]_vars

\* Unless a request fails, every rank gets through all its calls.
Termination == [](faults = 0) => <>[](\A r \in Ranks : pc[r] = "out" /\ call[r] = Calls)

\* The exchange implements MPI_Alltoall.
Contract == INSTANCE Alltoall WITH
  stage <- [r \in Ranks |-> IF pc[r] \in {"out", "failed"} THEN pc[r] ELSE "in"]

ImplementsContract == Contract!Spec
=============================================================================
