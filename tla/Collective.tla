----------------------------- MODULE Collective -----------------------------
(***************************************************************************)
(* The ranks of a communicator run a collective again and again, each the  *)
(* rounds of its program (module Rounds), over the point-to-point layer.   *)
(* A rank posts the requests of a round, waits, works on its buffers, and  *)
(* goes on; how fast it does so depends on nobody but the messages it      *)
(* waits for, so ranks may be in different rounds and in different calls.  *)
(***************************************************************************)
EXTENDS Rounds

CONSTANT Job    \* Job[j]: the program of every rank in collective j

(***************************************************************************)
(*   size      the number of ranks                                         *)
(*   program   program[r]: the rounds of rank r                            *)
(*   input     input[r]: the slots that hold data when the call begins,    *)
(*             with the name of the item in each                           *)
(*   output    output[r]: the slots that matter when it ends, with the     *)
(*             items that each must consist of, as <<rank, name>> pairs    *)
(*   ordered   whether the items must be combined in this order            *)
(*   needs     needs[r]: the ranks without which r cannot have its result  *)
(*   eager     how long a message may be to be sent without a rendezvous   *)
(*   calls     bound: how many calls each rank makes                       *)
(*   faults    bound: how many irecv and isend calls return an error       *)
(***************************************************************************)
Slot == STRING \X Int
Receive == [peer : Int, slots : Seq(Slot)]
Sending == [peer : Int, slots : Seq(Slot), sync : BOOLEAN]

\* No two requests of a list are for the same rank.
DifferentPeers(list) == \A k, l \in DOMAIN list :
  list[k].peer = list[l].peer => k = l \/ list[k].peer = AnySource

ASSUME JobAssumption ==
  \A j \in DOMAIN Job :
    /\ Job[j].size \in Nat \ {0}
    /\ Job[j].calls \in Nat
    /\ Job[j].faults \in Nat
    /\ \A r \in 0 .. Job[j].size - 1 :
         LET rounds == Job[j].program[r] IN
         /\ Job[j].needs[r] \subseteq 0 .. Job[j].size - 1
         /\ Len(rounds) \in Nat \ {0} /\ DOMAIN rounds = 1 .. Len(rounds)
         /\ \A i \in DOMAIN rounds :
              /\ rounds[i].recv \in Seq(Receive) /\ DifferentPeers(rounds[i].recv)
              /\ rounds[i].send \in Seq(Sending) /\ DifferentPeers(rounds[i].send)
              /\ rounds[i].ahead \in Nat /\ rounds[i].behind \in Nat
         /\ rounds[Len(rounds)].ahead = 0 /\ rounds[Len(rounds)].behind = 0

VARIABLES
  job,     \* the collective the ranks run, one of Job
  pc,      \* the round i a rank is in, 0 outside the library, -i after an error
  call,    \* the number of calls a rank has entered
  recvs,   \* recvs[r]: the receives r has posted and not waited for, in order
  wire,    \* wire[s][d]: the messages s has sent d that match no receive yet
  mem,     \* mem[r]: what is in the slots of r, as lists of items
  faults   \* how many errors there have been

vars == <<job, pc, call, recvs, wire, mem, faults>>

Ranks == 0 .. job.size - 1
Program(r) == job.program[r]

Item(r, name, c) == <<r, name, c>>

\* The buffers the application gives to a call; a slot that is not in mem[r]
\* holds whatever was there before.
Buffers(r, c) == LET given == job.input[r] IN
  [x \in DOMAIN given |-> <<Item(r, given[x], c)>>]

Value(m, x) == IF x \in DOMAIN m THEN m[x] ELSE <<>>
Values(m, slots) == [i \in 1 .. Len(slots) |-> Value(m, slots[i])]

Write(m, slots, values) ==
  [x \in DOMAIN m \union Range(slots) |->
     IF \E i \in DOMAIN values : slots[i] = x
     THEN values[CHOOSE i \in DOMAIN values : slots[i] = x] ELSE Value(m, x)]

Init == /\ \E j \in DOMAIN Job : job = Job[j]
        /\ pc = [r \in Ranks |-> 0]
        /\ call = [r \in Ranks |-> 0]
        /\ recvs = [r \in Ranks |-> <<>>]
        /\ wire = [s \in Ranks |-> [d \in Ranks |-> <<>>]]
        /\ mem = [r \in Ranks |-> <<>>]
        /\ faults = 0

-----------------------------------------------------------------------------
(* The steps of a rank.                                                    *)

\* A send that is complete only when it has met its receive.
Rendezvous(send) == send.sync \/ Len(send.slots) > job.eager

\* An eager message takes the data along, the others leave it in the buffers.  The
\* round is, as the call, for the properties only: no message says where it is from.
Message(send, i, c, m) == LET rndv == Rendezvous(send) IN
  [call |-> c, round |-> i, slots |-> send.slots, rndv |-> rndv,
   values |-> IF rndv THEN <<>> ELSE Values(m, send.slots)]

\* A receive that has been posted; `at' says where in the program it is.
PostedReceive == [at : Nat \X Nat, peer : Int, slots : Seq(Slot), done : BOOLEAN]

\* The k-th receive of round i.
Posted(i, k, recv) == [at |-> <<i, k>>, peer |-> recv.peer, slots |-> recv.slots, done |-> FALSE]

\* Rank r, with open receives behind it, posts round i of
\* call c: first the receives, then the sends.  The post that returns an error
\* is the last one, and the requests posted before it stay posted.
Post(r, i, c, open, buffers) ==
  LET round == Program(r)[i] IN
  \E n \in 0 .. Len(round.recv), m \in 0 .. Len(round.send) :
       LET To(d) == {k \in 1 .. m : round.send[k].peer = d}
           all == n = Len(round.recv) /\ m = Len(round.send)
       IN /\ n < Len(round.recv) => m = 0
          /\ \/ all /\ pc' = [pc EXCEPT ![r] = i] /\ faults' = faults
             \/ /\ ~all /\ faults < job.faults
                /\ pc' = [pc EXCEPT ![r] = -i]
                /\ faults' = faults + 1
          /\ recvs' = [recvs EXCEPT ![r] = open \o [k \in 1 .. n |-> Posted(i, k, round.recv[k])]]
          /\ wire' = [wire EXCEPT ![r] = [d \in Ranks |->
                        IF To(d) = {} THEN @[d]
                        ELSE Append(@[d], Message(round.send[CHOOSE k \in To(d) : TRUE], i, c, buffers))]]
          /\ mem' = [mem EXCEPT ![r] = buffers]

Enter(r) == /\ pc[r] = 0
            /\ call[r] < job.calls
            /\ call' = [call EXCEPT ![r] = @ + 1]
            /\ Post(r, 1, call[r] + 1, <<>>, Buffers(r, call[r] + 1))
            /\ UNCHANGED job

\* The receives the round waits for, as places in recvs[r].
Awaited(r) == LET round == Program(r)[pc[r]] IN round.behind + 1 .. Len(recvs[r]) - round.ahead

\* Bug: the wait covers the receives only.
WaitedReceives(r) == /\ pc[r] > 0
                     /\ \A k \in Awaited(r) : recvs[r][k].done

\* The sends are complete, and the receives but for the first and last ones.
Waited(r) == /\ pc[r] > 0
             /\ \A k \in Awaited(r) : recvs[r][k].done
             /\ \A d \in Ranks : \A k \in 1 .. Len(wire[r][d]) : ~wire[r][d][k].rndv

\* What is left of a list of receives when but the first and last ones have gone.
Kept(list, round) == IF round.behind + round.ahead >= Len(list) THEN list
  ELSE SubSeq(list, 1, round.behind) \o SubSeq(list, Len(list) - round.ahead + 1, Len(list))

\* The receives that are still open after the wait.
Open(r) == Kept(recvs[r], Program(r)[pc[r]])

\* What the round writes: each slot becomes the combination of some values.
Worked(r) == LET work == Program(r)[pc[r]].then IN
  [x \in DOMAIN mem[r] \union DOMAIN work |->
     IF x \in DOMAIN work THEN FlattenSeq(Values(mem[r], work[x])) ELSE Value(mem[r], x)]

Advance(r) == /\ Waited(r)
              /\ pc[r] < Len(Program(r))
              /\ Post(r, pc[r] + 1, call[r], Open(r), Worked(r))
              /\ UNCHANGED <<job, call>>

Return(r) == /\ Waited(r)
             /\ pc[r] = Len(Program(r))
             /\ pc' = [pc EXCEPT ![r] = 0]
             /\ recvs' = [recvs EXCEPT ![r] = Open(r)]
             /\ mem' = [mem EXCEPT ![r] = Worked(r)]
             /\ UNCHANGED <<job, call, wire, faults>>

RankStep(r) == Enter(r) \/ Advance(r) \/ Return(r)

-----------------------------------------------------------------------------
(* The point-to-point layer.                                               *)

\* Receive k of d is the first that takes messages of s.
Meets(s, d, k) == /\ wire[s][d] # <<>>
                  /\ ~recvs[d][k].done
                  /\ recvs[d][k].peer \in {s, AnySource}
                  /\ \A j \in 1 .. k - 1 :
                       recvs[d][j].done \/ recvs[d][j].peer \notin {s, AnySource}

Match(s, d) ==
  LET message == Head(wire[s][d])
      data == IF message.rndv THEN Values(mem[s], message.slots) ELSE message.values
  IN /\ \E k \in DOMAIN recvs[d] :
          /\ Meets(s, d, k)
          /\ recvs' = [recvs EXCEPT ![d][k].done = TRUE]
          /\ mem' = [mem EXCEPT ![d] = Write(@, recvs[d][k].slots, data)]
     /\ wire' = [wire EXCEPT ![s][d] = Tail(@)]
     /\ UNCHANGED <<job, pc, call, faults>>

\* All the calls are over.
Finished == /\ \A r \in Ranks : pc[r] = 0 /\ call[r] = job.calls
            /\ UNCHANGED vars

Next == \/ \E r \in Ranks : RankStep(r)
        \/ \E s, d \in Ranks : Match(s, d)
        \/ Finished

\* The library makes progress as long as a rank is in a call, and the ranks make
\* their calls.
Fairness == /\ WF_vars(\E r \in Ranks : RankStep(r))
            /\ WF_vars(\E s, d \in Ranks : Match(s, d))

Spec == Init /\ [][Next]_vars /\ Fairness

-----------------------------------------------------------------------------
(* Properties.                                                             *)

TypeOK ==
  /\ pc \in [Ranks -> Int]
  /\ \A r \in Ranks : pc[r] \in -Len(Program(r)) .. Len(Program(r))
  /\ call \in [Ranks -> 0 .. job.calls] /\ \A r \in Ranks : pc[r] # 0 => call[r] # 0
  /\ recvs \in [Ranks -> Seq(PostedReceive)]
  /\ DOMAIN wire = Ranks
  /\ \A s \in Ranks : DOMAIN wire[s] = Ranks /\ \A d \in Ranks :
       /\ wire[s][d] \in Seq(Range(wire[s][d]))
       /\ \A k \in DOMAIN wire[s][d] : wire[s][d][k].call \in 1 .. call[s]
  /\ DOMAIN mem = Ranks
  /\ faults \in 0 .. job.faults

\* A call that returned MPI_SUCCESS has the result: each slot that matters is
\* made of the items it should be made of, all of this call, none of them twice,
\* and in the order of the ranks when the operation does not commute.
Complete == \A r \in Ranks : pc[r] = 0 /\ call[r] > 0 =>
  \A x \in DOMAIN job.output[r] :
    LET wanted == job.output[r][x]
        items == [i \in DOMAIN wanted |-> Item(wanted[i][1], wanted[i][2], call[r])]
        result == Value(mem[r], x)
    IN IF job.ordered THEN result = items
       ELSE Len(result) = Len(items) /\ Range(result) = Range(items)

\* No rank returns from a call before those have entered it without which it
\* cannot have its result: all of them in a barrier, the root in a broadcast.
NoneLeavesEarly == \A r \in Ranks : pc[r] = 0 =>
  \A s \in job.needs[r] : call[s] >= call[r]

\* A message only ever meets a receive of the same call, long enough for it,
\* although successive calls, and the rounds of a call, use the same tag.
NothingCrosses == \A s, d \in Ranks : \A k \in DOMAIN recvs[d] : Meets(s, d, k) =>
  /\ Head(wire[s][d]).call = call[d]
  /\ Len(Head(wire[s][d]).slots) <= Len(recvs[d][k].slots)

\* A call that returned left no request behind on the application's buffers.
BuffersReleased == \A r \in Ranks : pc[r] = 0 =>
  /\ recvs[r] = <<>>
  /\ \A d \in Ranks : \A k \in DOMAIN wire[r][d] : ~wire[r][d][k].rndv

\* No rank leaves the library before its sends have met their receives, as the
\* comments say of the barriers, which use synchronous sends for this.
SendsMatched == \A r \in Ranks : pc[r] = 0 => \A d \in Ranks : wire[r][d] = <<>>

\* Unless a request fails, every rank gets through all its calls.
Termination == [](faults = 0) => <>[](\A r \in Ranks : pc[r] = 0 /\ call[r] = job.calls)
=============================================================================
