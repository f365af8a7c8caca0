------------------------------ MODULE Annotated -----------------------------
(***************************************************************************)
(* Collectives with an annotation for each round of each rank, and what    *)
(* it takes for annotations to be right: conditions on the programs alone, *)
(* which are about one round, or a send and its receive, at a time.  The   *)
(* invariant below follows from them, whatever the ranks' pace.            *)
(*                                                                         *)
(* Job[j].plan[r][i] is about rank r after the wait of round i, or at the  *)
(* beginning of a call when i = 0:                                         *)
(*   open   the receives that are still posted, as <<round, place>> pairs  *)
(*   knows  ranks that have entered the call                               *)
(*   holds  holds[c]: what is in the slots in call c                       *)
(*   gets   gets[c][k]: what the k-th receive of the round gets in call c, *)
(*          by the time it is waited for                                   *)
(***************************************************************************)
EXTENDS Collective

-----------------------------------------------------------------------------
(* The requests of a pair of ranks.                                        *)

\* The rounds in which s sends to d, and those in which d receives from s.
SendRounds(j, s, d) == {i \in DOMAIN j.program[s] :
  \E k \in DOMAIN j.program[s][i].send : j.program[s][i].send[k].peer = d}
RecvRounds(j, d, s) == {i \in DOMAIN j.program[d] :
  \E k \in DOMAIN j.program[d][i].recv : j.program[d][i].recv[k].peer = s}

\* The place of the request for a rank in a list, where there is one.
PlaceOf(list, q) == CHOOSE k \in DOMAIN list : list[k].peer = q
SendOf(j, s, i, d) == j.program[s][i].send[PlaceOf(j.program[s][i].send, d)]
RecvOf(j, d, i, s) == j.program[d][i].recv[PlaceOf(j.program[d][i].recv, s)]

\* How many of a set of rounds there are up to the i-th; and how many requests a
\* rank has made, in all its calls, with those of round i of call c.
Upto(rounds, i) == Cardinality({x \in rounds : x <= i})
Number(rounds, c, i) == (c - 1) * Cardinality(rounds) + Upto(rounds, i)

\* Send x of s and receive y of d are the n-th of their pair, for the same n.
Fellows(j, s, x, d, y) == /\ x \in SendRounds(j, s, d)
                          /\ y \in RecvRounds(j, d, s)
                          /\ Upto(SendRounds(j, s, d), x) = Upto(RecvRounds(j, d, s), y)

-----------------------------------------------------------------------------
(* Proper annotations.                                                     *)

All(j) == 0 .. j.size - 1

FromAny(j) == \E r \in All(j) : RecvRounds(j, r, AnySource) # {}

\* All requests are for ranks of the communicator.
PeersOK(j) == \A r \in All(j) : \A i \in DOMAIN j.program[r] :
  /\ \A k \in DOMAIN j.program[r][i].recv : j.program[r][i].recv[k].peer \in All(j)
  /\ \A k \in DOMAIN j.program[r][i].send : j.program[r][i].send[k].peer \in All(j)

\* A rank has as many sends for another as that one has receives for it, and the
\* n-th receive is long enough for the n-th send.
SendsFit(j) == \A s, d \in All(j) :
  /\ Cardinality(SendRounds(j, s, d)) = Cardinality(RecvRounds(j, d, s))
  /\ \A x \in SendRounds(j, s, d), y \in RecvRounds(j, d, s) : Fellows(j, s, x, d, y) =>
       Len(SendOf(j, s, x, d).slots) <= Len(RecvOf(j, d, y, s).slots)

\* The receives that are posted in round i, those of earlier rounds first.
Listed(j, r, i) == j.plan[r][i - 1].open \o [k \in 1 .. Len(j.program[r][i].recv) |-> <<i, k>>]

\* The receive at <<round, place>>, and the part of its slots that is written.
RecvAt(j, r, at) == j.program[r][at[1]].recv[at[2]]
Got(j, r, c, at) == j.plan[r][at[1]].gets[c][at[2]]
Filled(j, r, c, at) == {RecvAt(j, r, at).slots[p] : p \in 1 .. Len(Got(j, r, c, at))}

\* The receives of a rank that are still open after a round; they are ever newer
\* in the list.
OpenOK(j, r, i) ==
  LET list == Listed(j, r, i) IN
  /\ j.plan[r][i].open \in Seq(Nat \X Nat)
  /\ j.plan[r][i].open = Kept(list, j.program[r][i])
  /\ \A k \in DOMAIN list : /\ list[k][1] \in 1 .. i
                            /\ list[k][2] \in DOMAIN j.program[r][list[k][1]].recv
  /\ \A k, l \in DOMAIN list : k < l =>
       \/ list[k][1] < list[l][1]
       \/ list[k][1] = list[l][1] /\ list[k][2] < list[l][2]

\* What rank r learns in round i is what a rank knew that sent a message which
\* r has waited for.
KnowsOK(j, r, i) == \A t \in j.plan[r][i].knows :
  \/ t \in j.plan[r][i - 1].knows
  \/ \E q \in All(j), y \in 1 .. i, x \in UNION {DOMAIN j.program[q] : q \in All(j)} :
       /\ Fellows(j, q, x, r, y)
       /\ t \in j.plan[q][x - 1].knows \union {q}
       /\ \A k \in DOMAIN j.plan[r][i].open :
            RecvAt(j, r, j.plan[r][i].open[k]).peer = q => j.plan[r][i].open[k][1] > y

\* No two receives that are posted at once write one slot, nor does a receive
\* write what the rank sends.
SlotsOK(j, r, i) ==
  LET list == Listed(j, r, i)
      round == j.program[r][i]
  IN /\ \A k, l \in DOMAIN list :
          LET first == RecvAt(j, r, list[k]).slots
              second == RecvAt(j, r, list[l]).slots
          IN \A p \in DOMAIN first, q \in DOMAIN second : first[p] = second[q] => k = l /\ p = q
     /\ \A k \in DOMAIN list, l \in DOMAIN round.send :
          Range(RecvAt(j, r, list[k]).slots) \intersect Range(round.send[l].slots) = {}

\* A receive gets what the sender has in the slots it sends.
GetsOK(j, r, i) == \A k \in DOMAIN j.program[r][i].recv : \A c \in 1 .. j.calls :
  LET recv == j.program[r][i].recv[k]
      got == Got(j, r, c, <<i, k>>)
  IN /\ Len(got) \in 0 .. Len(recv.slots) /\ DOMAIN got = 1 .. Len(got)
     /\ \A x \in SendRounds(j, recv.peer, r) : Fellows(j, recv.peer, x, r, i) =>
          got = Values(j.plan[recv.peer][x - 1].holds[c], SendOf(j, recv.peer, x, r).slots)

\* The receives that round i waits for.
Closed(j, r, i) == LET open == j.plan[r][i].open IN
  {at \in Range(Listed(j, r, i)) : \A k \in DOMAIN open : open[k] # at}

\* What a slot holds after the wait, when it held the value given before.
Received(j, r, i, c, x) ==
  IF \E at \in Closed(j, r, i) : x \in Filled(j, r, c, at)
  THEN LET at == CHOOSE at \in Closed(j, r, i) : x \in Filled(j, r, c, at)
           slots == RecvAt(j, r, at).slots
       IN Got(j, r, c, at)[CHOOSE p \in 1 .. Len(Got(j, r, c, at)) : slots[p] = x]
  ELSE Value(j.plan[r][i - 1].holds[c], x)

\* The slots that can change in round i.
Concerned(j, r, i, c) ==
  DOMAIN j.plan[r][i - 1].holds[c] \union DOMAIN j.plan[r][i].holds[c]
    \union DOMAIN j.program[r][i].then
    \union UNION {Filled(j, r, c, at) : at \in Closed(j, r, i)}

\* The work of a round takes what has been received, and neither reads nor writes
\* what is still to be received.
HoldsOK(j, r, i) ==
  LET work == j.program[r][i].then
      open == j.plan[r][i].open
      Still(k) == Range(RecvAt(j, r, open[k]).slots)
  IN /\ \A k \in DOMAIN open : /\ Still(k) \intersect DOMAIN work = {}
                               /\ \A x \in DOMAIN work : \A p \in 1 .. Len(work[x]) :
                                    work[x][p] \notin Still(k)
     /\ \A c \in 1 .. j.calls : \A x \in Concerned(j, r, i, c) :
          Value(j.plan[r][i].holds[c], x) =
            IF x \in DOMAIN work
            THEN FlattenSeq([k \in 1 .. Len(work[x]) |-> Received(j, r, i, c, work[x][k])])
            ELSE Received(j, r, i, c, x)

\* What the buffers hold when a call begins, and the result when it ends.
EndsOK(j, r) ==
  LET first == j.plan[r][0]
      last == j.plan[r][Len(j.program[r])]
  IN /\ first.open = <<>> /\ first.knows = {}
     /\ \A s \in j.needs[r] : s \in last.knows \union {r}
     /\ \A c \in 1 .. j.calls :
          /\ first.holds[c] = [x \in DOMAIN j.input[r] |-> <<Item(r, j.input[r][x], c)>>]
          /\ \A x \in DOMAIN j.output[r] :
               LET wanted == j.output[r][x]
                   items == [i \in DOMAIN wanted |-> Item(wanted[i][1], wanted[i][2], c)]
                   result == Value(last.holds[c], x)
               IN IF j.ordered THEN result = items
                  ELSE Len(result) = Len(items) /\ Range(result) = Range(items)

\* Receives from any source are left to the model checker.
Proper(j) == FromAny(j) \/
  /\ PeersOK(j) /\ SendsFit(j)
  /\ \A r \in All(j) :
       /\ EndsOK(j, r)
       /\ \A i \in DOMAIN j.program[r] :
            OpenOK(j, r, i) /\ KnowsOK(j, r, i) /\ SlotsOK(j, r, i) /\ GetsOK(j, r, i) /\ HoldsOK(j, r, i)

-----------------------------------------------------------------------------
(* The invariant.                                                          *)

\* The last round that r has begun, and the last it has been through.
Begun(r) == IF pc[r] = 0 THEN Len(Program(r)) ELSE IF pc[r] < 0 THEN -pc[r] ELSE pc[r]
Through(r) == IF pc[r] = 0 THEN Len(Program(r)) ELSE Begun(r) - 1

\* The rounds of the receives in a list for rank s that have met no message.
OpenRounds(list, s) ==
  {list[k].at[1] : k \in {k \in DOMAIN list : list[k].peer = s /\ ~list[k].done}}

\* met messages of s to d have met their receives: those on the way are the next
\* ones, in order.
SentOK(s, d, met) ==
  LET to == SendRounds(job, s, d)
      made == Number(to, call[s], Begun(s))
  IN /\ met + Len(wire[s][d]) <= made
     /\ pc[s] >= 0 => met + Len(wire[s][d]) = made
     /\ \A n \in DOMAIN wire[s][d] : LET message == wire[s][d][n] IN
          /\ message.round \in to /\ met + n = Number(to, message.call, message.round)
          /\ message.slots = SendOf(job, s, message.round, d).slots

\* The open receives are the next ones as well.
ReceivedOK(s, d, met) ==
  LET from == RecvRounds(job, d, s)
      open == OpenRounds(recvs[d], s)
  IN /\ pc[d] >= 0 => met + Cardinality(open) = Number(from, call[d], Begun(d))
     /\ \A y \in open : y \in from /\ met + Upto(open, y) = Number(from, call[d], y)

\* A list has the receives of r at some places, or the first of them.
ListOK(r, list, places) ==
  /\ Len(list) <= Len(places)
  /\ \A k \in DOMAIN list : /\ list[k].at = places[k]
                            /\ list[k].peer = RecvAt(job, r, places[k]).peer
                            /\ list[k].slots = RecvAt(job, r, places[k]).slots

\* In a call, a rank has posted the receives of its round; and the messages that
\* take no data along are of this round.
InRound(r) == pc[r] # 0 =>
  /\ ListOK(r, recvs[r], Listed(job, r, Begun(r)))
  /\ pc[r] > 0 => Len(recvs[r]) = Len(Listed(job, r, Begun(r)))
  /\ \A d \in Ranks : \A n \in DOMAIN wire[r][d] :
       wire[r][d][n].rndv => wire[r][d][n].call = call[r] /\ wire[r][d][n].round = Begun(r)

\* Every message has its receive, and every receive its message.
Paired == /\ \A s, d \in Ranks : \E met \in 0 .. call[d] * Cardinality(RecvRounds(job, d, s)) :
                SentOK(s, d, met) /\ ReceivedOK(s, d, met)
          /\ \A r \in Ranks : InRound(r)

\* What a rank should know after a round it has been through has happened.
Informed == \A r \in Ranks : \A c \in 1 .. call[r], i \in 0 .. Len(Program(r)) :
  c < call[r] \/ i <= Through(r) =>
    \A t \in job.plan[r][i].knows : t \in Ranks /\ call[t] >= c

\* The slots of r are as after round i of call c, but for what has come since for
\* the receives in a list.
SlotsHold(r, i, c, list, m) ==
  LET holds == job.plan[r][i].holds[c]
      come == {k \in DOMAIN list : list[k].done}
  IN /\ \A k \in come : LET got == Got(job, r, c, list[k].at) IN
          \A p \in DOMAIN got : Value(m, list[k].slots[p]) = got[p]
     /\ \A x \in DOMAIN m \union DOMAIN holds :
          (\A k \in come : x \notin Filled(job, r, c, list[k].at)) => Value(m, x) = Value(holds, x)

\* The buffers hold what they should, and so do the messages.
Supplied ==
  /\ \A r \in Ranks : call[r] > 0 => SlotsHold(r, Through(r), call[r], recvs[r], mem[r])
  /\ \A s, d \in Ranks : \A n \in DOMAIN wire[s][d] : LET message == wire[s][d][n] IN
       ~message.rndv => message.values =
         Values(job.plan[s][message.round - 1].holds[message.call], message.slots)

\* Nobody has entered a call yet; the job is the same from then on.
AtFirst == \A r \in Ranks : call[r] = 0

IInv == /\ TypeOK /\ BuffersReleased
        /\ AtFirst => Proper(job)
        /\ ~FromAny(job) => Paired /\ Informed /\ Supplied
=============================================================================
