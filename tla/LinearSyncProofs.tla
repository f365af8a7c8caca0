-------------------------- MODULE LinearSyncProofs --------------------------
(***************************************************************************)
(* Theorems about LinearSyncAlltoall for every number of ranks, every      *)
(* window, any number of calls and any number of faults, proved from the   *)
(* inductive invariant IInv.                                               *)
(***************************************************************************)
EXTENDS LinearSyncAlltoall, FiniteSetTheorems, TLAPS

-----------------------------------------------------------------------------
(* The partners of a rank.                                                 *)

LEMMA ModOf == ASSUME NEW x \in 0 .. N - 1 PROVE x % N = x /\ (x + N) % N = x
<1>1. ASSUME NEW b \in Nat \ {0}, NEW q \in Nat, NEW y \in 0 .. b - 1
      PROVE  (b * q + y) % b = y
  OBVIOUS
<1>2. x = N * 0 + x /\ x + N = N * 1 + x
  BY NAssumption
<1>. QED BY <1>1, <1>2, NAssumption

\* The n-th partners of a rank, without the remainder.
LEMMA Peers ==
  ASSUME NEW r \in Ranks, NEW n \in 0 .. N - 2
  PROVE  /\ RecvPeer(r, n) = IF r + 1 + n < N THEN r + 1 + n ELSE r + 1 + n - N
         /\ SendPeer(r, n) = IF r - 1 - n >= 0 THEN r - 1 - n ELSE r - 1 - n + N
<1>. USE NAssumption DEF Ranks
<1>1. RecvPeer(r, n) = IF r + 1 + n < N THEN r + 1 + n ELSE r + 1 + n - N
  <2>1. CASE r + 1 + n < N
    <3>1. r + 1 + n \in 0 .. N - 1
      BY <2>1
    <3>. QED BY <2>1, <3>1, ModOf DEF RecvPeer
  <2>2. CASE ~(r + 1 + n < N)
    <3>1. r + 1 + n - N \in 0 .. N - 1 /\ (r + 1 + n - N) + N = r + 1 + n
      BY <2>2
    <3>2. (r + 1 + n) % N = r + 1 + n - N
      BY <3>1, ModOf
    <3>. QED BY <2>2, <3>2 DEF RecvPeer
  <2>. QED BY <2>1, <2>2
<1>2. SendPeer(r, n) = IF r - 1 - n >= 0 THEN r - 1 - n ELSE r - 1 - n + N
  <2>1. CASE r - 1 - n >= 0
    <3>1. r - 1 - n \in 0 .. N - 1 /\ (r - 1 - n) + N = r + N - 1 - n
      BY <2>1
    <3>2. (r + N - 1 - n) % N = r - 1 - n
      BY <3>1, ModOf
    <3>. QED BY <2>1, <3>2 DEF SendPeer
  <2>2. CASE ~(r - 1 - n >= 0)
    <3>1. r + N - 1 - n \in 0 .. N - 1 /\ r - 1 - n + N = r + N - 1 - n
      BY <2>2
    <3>2. (r + N - 1 - n) % N = r + N - 1 - n
      BY <3>1, ModOf
    <3>. QED BY <2>2, <3>1, <3>2 DEF SendPeer
  <2>. QED BY <2>1, <2>2
<1>. QED BY <1>1, <1>2

\* They are all the other ranks, each of them once.
LEMMA PeersAreOthers ==
  ASSUME NEW r \in Ranks, NEW n \in 0 .. N - 2
  PROVE  /\ RecvPeer(r, n) \in Ranks \ {r}
         /\ SendPeer(r, n) \in Ranks \ {r}
<1>1. r \in Int /\ n \in Int /\ N \in Int
  BY NAssumption DEF Ranks
<1>2. RecvPeer(r, n) \in Ranks \ {r}
  BY <1>1, Peers DEF Ranks
<1>3. SendPeer(r, n) \in Ranks \ {r}
  <2>1. SendPeer(r, n) = IF r - 1 - n >= 0 THEN r - 1 - n ELSE r - 1 - n + N
    BY Peers
  <2>. QED BY <1>1, <2>1 DEF Ranks
<1>. QED BY <1>2, <1>3

LEMMA PeersDiffer ==
  ASSUME NEW r \in Ranks, NEW n \in 0 .. N - 2, NEW m \in 0 .. N - 2, m # n
  PROVE  RecvPeer(r, m) # RecvPeer(r, n) /\ SendPeer(r, m) # SendPeer(r, n)
<1>1. r \in Int /\ n \in Int /\ m \in Int /\ N \in Int /\ r >= 0 /\ r < N
  BY NAssumption DEF Ranks
<1>2. RecvPeer(r, m) # RecvPeer(r, n)
  BY <1>1, Peers
<1>3. SendPeer(r, m) # SendPeer(r, n)
  BY <1>1, Peers
<1>. QED BY <1>2, <1>3

LEMMA EveryPeer ==
  ASSUME NEW r \in Ranks, NEW p \in Ranks \ {r}
  PROVE  /\ \E n \in 0 .. N - 2 : RecvPeer(r, n) = p
         /\ \E n \in 0 .. N - 2 : SendPeer(r, n) = p
<1>0. /\ r \in Int /\ r >= 0 /\ r < N /\ p \in Int /\ p >= 0 /\ p < N /\ p # r
      /\ N \in Int
  BY NAssumption DEF Ranks
<1>. DEFINE n == IF p > r THEN p - r - 1 ELSE p - r - 1 + N
            m == IF r > p THEN r - p - 1 ELSE r - p - 1 + N
<1>1. n \in 0 .. N - 2 /\ m \in 0 .. N - 2
  BY <1>0
<1>2. n = (IF p > r THEN p - r - 1 ELSE p - r - 1 + N)
      /\ m = (IF r > p THEN r - p - 1 ELSE r - p - 1 + N)
  OBVIOUS
<1>. HIDE DEF n, m
<1>3. RecvPeer(r, n) = p
  <2>1. RecvPeer(r, n) = IF r + 1 + n < N THEN r + 1 + n ELSE r + 1 + n - N
    BY <1>1, Peers
  <2>. QED BY <1>0, <1>2, <2>1
<1>4. SendPeer(r, m) = p
  <2>1. SendPeer(r, m) = IF r - 1 - m >= 0 THEN r - 1 - m ELSE r - 1 - m + N
    BY <1>1, Peers
  <2>. QED BY <1>0, <1>2, <2>1
<1>. QED BY <1>1, <1>3, <1>4

-----------------------------------------------------------------------------
(* Types.                                                                  *)

\* The window is at most what there is to exchange, and the loop has a slot.
LEMMA WindowBounds ==
  ASSUME window \in Windows
  PROVE  /\ T \in 0 .. N - 1
         /\ T < N - 1 => T >= 1
         /\ \A k \in 0 .. T - 1 : k \in Slots /\ k < T
         /\ \A k \in T .. 2 * T - 1 : k \in Slots /\ ~(k < T)
         /\ \A k \in Slots : k \in Int /\ (k \in 0 .. T - 1 \/ k \in T .. 2 * T - 1)
<1>1. window \in Int
  BY WindowsAssumption
<1>2. T \in 0 .. N - 1 /\ (T < N - 1 => T >= 1)
  BY <1>1, NAssumption DEF T
<1>. HIDE DEF T
<1>. QED BY <1>2, NAssumption DEF Slots

Requests == [peer : Ranks \union {-1}, done : BOOLEAN]

LEMMA RequestType ==
  /\ Null \in Requests
  /\ \A p \in Ranks : \A b \in BOOLEAN : /\ Request(p, b) \in Requests
                                         /\ Request(p, b) # Null
                                         /\ Request(p, b).peer = p
                                         /\ Request(p, b).done = b
  /\ NoRequests \in [Slots -> Requests]
  /\ \A p \in Ranks : ~Outstanding(Null, p)
  /\ ~Null.done
BY NAssumption DEF Requests, Request, Null, NoRequests, Ranks, Outstanding

\* A receive and a send that are posted keep the types.
LEMMA IrecvType ==
  ASSUME TypeOK, NEW r \in Ranks, NEW k \in Slots, MoreRecvs(r), Irecv(r, k)
  PROVE  /\ reqs' \in [Ranks -> [Slots -> Requests]]
         /\ nrreqs' \in [Ranks -> 0 .. N - 1]
<1>1. nrreqs[r] \in 0 .. N - 2 /\ nrreqs[r] + 1 \in 0 .. N - 1
  BY NAssumption DEF TypeOK, MoreRecvs
<1>2. Request(RecvPeer(r, nrreqs[r]), FALSE) \in Requests
  BY <1>1, PeersAreOthers, RequestType
<1>. QED BY <1>1, <1>2 DEF Irecv, TypeOK, Requests

LEMMA IsendType ==
  ASSUME TypeOK, NEW r \in Ranks, NEW k \in Slots, MoreSends(r), Isend(r, k)
  PROVE  /\ reqs' \in [Ranks -> [Slots -> Requests]]
         /\ nsreqs' \in [Ranks -> 0 .. N - 1]
         /\ wire' \in [Ranks -> [Ranks -> Seq(Messages)]]
<1>. DEFINE d == SendPeer(r, nsreqs[r])
<1>1. nsreqs[r] \in 0 .. N - 2 /\ nsreqs[r] + 1 \in 0 .. N - 1
  BY NAssumption DEF TypeOK, MoreSends
<1>2. d \in Ranks
  BY <1>1, PeersAreOthers
<1>3. PICK p \in Protocols :
        /\ wire' = [wire EXCEPT ![r][d] =
                      Append(@, [block |-> Block(r, d, call[r]), protocol |-> p])]
        /\ reqs' = [reqs EXCEPT ![r][k] = Request(d, p = "eager")]
  BY DEF Isend
<1>4. Request(d, p = "eager") \in Requests
  BY <1>2, RequestType
<1>5. [block |-> Block(r, d, call[r]), protocol |-> p] \in Messages
  BY <1>2 DEF Messages, Blocks, Block, TypeOK
<1>. HIDE DEF d
<1>6. wire[r][d] \in Seq(Messages)
  BY <1>2 DEF TypeOK
<1>7. Append(wire[r][d], [block |-> Block(r, d, call[r]), protocol |-> p])
        \in Seq(Messages)
  BY <1>5, <1>6
<1>8. wire' \in [Ranks -> [Ranks -> Seq(Messages)]]
  BY <1>2, <1>3, <1>7 DEF TypeOK
<1>. QED BY <1>1, <1>3, <1>4, <1>8 DEF Isend, TypeOK, Requests

LEMMA MatchType ==
  ASSUME TypeOK, NEW s \in Ranks, NEW d \in Ranks, Match(s, d)
  PROVE  /\ reqs' \in [Ranks -> [Slots -> Requests]]
         /\ wire' \in [Ranks -> [Ranks -> Seq(Messages)]]
         /\ rbuf' \in [Ranks -> [Ranks -> Blocks \union {NoBlock}]]
<1>1. wire[s][d] \in Seq(Messages) /\ wire[s][d] # <<>>
  BY DEF Match, TypeOK
<1>2. Head(wire[s][d]) \in Messages /\ Tail(wire[s][d]) \in Seq(Messages)
  BY <1>1
<1>3. Head(wire[s][d]).block \in Blocks
  BY <1>2 DEF Messages
<1>4. wire' \in [Ranks -> [Ranks -> Seq(Messages)]]
  BY <1>2 DEF Match, TypeOK
<1>5. rbuf' \in [Ranks -> [Ranks -> Blocks \union {NoBlock}]]
  BY <1>3 DEF Match, TypeOK
<1>6. \A r \in Ranks, j \in Slots :
        reqs[r][j] \in Requests /\ Request(reqs[r][j].peer, TRUE) \in Requests
  BY DEF TypeOK, Requests, Request
<1>7. reqs' \in [Ranks -> [Slots -> Requests]]
  <2>1. PICK k \in 0 .. T - 1 :
          reqs' = [r \in Ranks |-> [j \in Slots |->
            IF \/ r = d /\ j = k
               \/ /\ r = s /\ j >= T
                  /\ Outstanding(reqs[s][j], d) /\ Head(wire[s][d]).protocol = "rndv"
            THEN Request(reqs[r][j].peer, TRUE) ELSE reqs[r][j]]]
    BY DEF Match
  <2>. QED BY <1>6, <2>1
<1>. QED BY <1>4, <1>5, <1>7

\* Every variable keeps its type, whatever fails.
THEOREM TypeCorrect == Spec => []TypeOK
<1>1. Init => TypeOK
  <2>. SUFFICES ASSUME Init PROVE TypeOK
    OBVIOUS
  <2>1. N - 1 \in 0 .. N - 1 /\ 2 * (N - 1) \in 0 .. 2 * (N - 1) /\ 0 \in 0 .. Calls
        /\ 0 \in 0 .. MaxFaults
    BY NAssumption, BoundsAssumption
  <2>2. reqs \in [Ranks -> [Slots -> Requests]]
    BY RequestType DEF Init
  <2>3. wire \in [Ranks -> [Ranks -> Seq(Messages)]]
    BY DEF Init
  <2>. QED BY <2>1, <2>2, <2>3 DEF Init, TypeOK, Requests
<1>2. TypeOK /\ [Next]_vars => TypeOK'
  <2>. SUFFICES ASSUME TypeOK, [Next]_vars PROVE TypeOK'
    OBVIOUS
  <2>1. window' = window /\ Slots' = Slots /\ T' = T
    <3>1. window' = window
      BY DEF Next, RankStep, Enter, LocalCopy, PostRecv, PostSend, WaitAll, ReplaceRecv,
             ReplaceSend, Retire, Return, Fault, Fail, LoseSend, WaitForNothing,
             Match, Finished, vars
    <3>. QED BY <3>1 DEF Slots, T
  <2>2. /\ T \in 0 .. N - 1
        /\ \A k \in 0 .. T - 1 : k \in Slots
        /\ \A k \in T .. 2 * T - 1 : k \in Slots
    BY WindowBounds DEF TypeOK
  <2>3. reqs \in [Ranks -> [Slots -> Requests]]
    BY DEF TypeOK, Requests
  <2>4. ASSUME NEW r \in Ranks, InLoop(r), Count(r)
        PROVE  ncreqs' \in [Ranks -> 0 .. 2 * (N - 1)]
    BY <2>4, NAssumption DEF TypeOK, InLoop, Count
  <2>5. CASE UNCHANGED vars
    BY <2>1, <2>5 DEF vars, counters, TypeOK
  <2>6. ASSUME NEW r \in Ranks, Enter(r) PROVE TypeOK'
    <3>1. call' \in [Ranks -> 0 .. Calls] /\ 0 \in 0 .. N - 1 /\ 0 \in 0 .. 2 * (N - 1)
      BY <2>6, NAssumption, BoundsAssumption DEF Enter, TypeOK
    <3>2. reqs' \in [Ranks -> [Slots -> Requests]]
      BY <2>3, <2>6, RequestType DEF Enter
    <3>. QED BY <2>1, <2>6, <3>1, <3>2 DEF Enter, TypeOK, Requests
  <2>7. ASSUME NEW r \in Ranks, LocalCopy(r) PROVE TypeOK'
    <3>1. Block(r, r, call[r]) \in Blocks
      BY DEF Block, Blocks, TypeOK
    <3>. QED BY <2>1, <2>7, <3>1 DEF LocalCopy, counters, TypeOK
  <2>8. ASSUME NEW r \in Ranks, PostRecv(r) PROVE TypeOK'
    <3>1. nrreqs[r] \in 0 .. T - 1 /\ MoreRecvs(r)
      BY <2>2, <2>8, NAssumption DEF PostRecv, TypeOK, MoreRecvs
    <3>2. Irecv(r, nrreqs[r])
      BY <2>8 DEF PostRecv
    <3>3. reqs' \in [Ranks -> [Slots -> Requests]] /\ nrreqs' \in [Ranks -> 0 .. N - 1]
      BY <2>2, <3>1, <3>2, IrecvType
    <3>. QED BY <2>1, <2>8, <3>3 DEF PostRecv, Irecv, TypeOK, Requests
  <2>9. ASSUME NEW r \in Ranks, PostSend(r) PROVE TypeOK'
    <3>1. T + nsreqs[r] \in T .. 2 * T - 1 /\ MoreSends(r)
      BY <2>2, <2>9, NAssumption DEF PostSend, TypeOK, MoreSends
    <3>2. Isend(r, T + nsreqs[r])
      BY <2>9 DEF PostSend
    <3>3. /\ reqs' \in [Ranks -> [Slots -> Requests]] /\ nsreqs' \in [Ranks -> 0 .. N - 1]
          /\ wire' \in [Ranks -> [Ranks -> Seq(Messages)]]
      BY <2>2, <3>1, <3>2, IsendType
    <3>. QED BY <2>1, <2>9, <3>3 DEF PostSend, Isend, TypeOK, Requests
  <2>10. ASSUME NEW r \in Ranks, WaitAll(r) PROVE TypeOK'
    <3>1. reqs' \in [Ranks -> [Slots -> Requests]]
      BY <2>3, <2>10, RequestType DEF WaitAll
    <3>. QED BY <2>1, <2>10, <3>1 DEF WaitAll, counters, TypeOK, Requests
  <2>11. ASSUME NEW r \in Ranks, ReplaceRecv(r) PROVE TypeOK'
    <3>1. PICK k \in 0 .. T - 1 : Completed(r, k) /\ Irecv(r, k)
      BY <2>11 DEF ReplaceRecv
    <3>2. reqs' \in [Ranks -> [Slots -> Requests]] /\ nrreqs' \in [Ranks -> 0 .. N - 1]
      BY <2>2, <2>11, <3>1, IrecvType DEF ReplaceRecv
    <3>3. ncreqs' \in [Ranks -> 0 .. 2 * (N - 1)]
      BY <2>4, <2>11 DEF ReplaceRecv
    <3>. QED BY <2>1, <2>11, <3>1, <3>2, <3>3 DEF ReplaceRecv, Irecv, TypeOK, Requests
  <2>12. ASSUME NEW r \in Ranks, ReplaceSend(r) PROVE TypeOK'
    <3>1. PICK k \in T .. 2 * T - 1 : Completed(r, k) /\ Isend(r, k)
      BY <2>12 DEF ReplaceSend
    <3>2. /\ reqs' \in [Ranks -> [Slots -> Requests]] /\ nsreqs' \in [Ranks -> 0 .. N - 1]
          /\ wire' \in [Ranks -> [Ranks -> Seq(Messages)]]
      BY <2>2, <2>12, <3>1, IsendType DEF ReplaceSend
    <3>3. ncreqs' \in [Ranks -> 0 .. 2 * (N - 1)]
      BY <2>4, <2>12 DEF ReplaceSend
    <3>. QED BY <2>1, <2>12, <3>1, <3>2, <3>3 DEF ReplaceSend, Isend, TypeOK, Requests
  <2>13. ASSUME NEW r \in Ranks, Retire(r) PROVE TypeOK'
    <3>1. PICK k \in Slots : reqs' = [reqs EXCEPT ![r][k] = Null]
      BY <2>13 DEF Retire
    <3>2. reqs' \in [Ranks -> [Slots -> Requests]]
      BY <2>3, <3>1, RequestType
    <3>3. ncreqs' \in [Ranks -> 0 .. 2 * (N - 1)]
      BY <2>4, <2>13 DEF Retire
    <3>. QED BY <2>1, <2>13, <3>2, <3>3 DEF Retire, TypeOK, Requests
  <2>14. ASSUME NEW r \in Ranks, Return(r) PROVE TypeOK'
    BY <2>1, <2>14 DEF Return, counters, TypeOK
  <2>15. ASSUME NEW r \in Ranks, Fail(r) PROVE TypeOK'
    BY <2>1, <2>15, BoundsAssumption DEF Fail, counters, TypeOK
  <2>16. ASSUME NEW r \in Ranks, LoseSend(r) PROVE TypeOK'
    <3>1. nsreqs[r] \in 0 .. N - 2
      BY <2>16, NAssumption DEF LoseSend, MoreSends, TypeOK
    <3>2. PICK k \in T .. 2 * T - 1, q \in {Null, Request(SendPeer(r, nsreqs[r]), FALSE)} :
            reqs' = [reqs EXCEPT ![r][k] = q]
      BY <2>16 DEF LoseSend
    <3>3. q \in Requests
      BY <3>1, <3>2, PeersAreOthers, RequestType
    <3>4. reqs' \in [Ranks -> [Slots -> Requests]]
      BY <2>3, <3>2, <3>3
    <3>5. ncreqs' \in [Ranks -> 0 .. 2 * (N - 1)]
      BY <2>4, <2>16 DEF LoseSend
    <3>6. nsreqs' \in [Ranks -> 0 .. N - 1] /\ faults' \in 0 .. MaxFaults
      BY <2>16, <3>1, BoundsAssumption, NAssumption DEF LoseSend, TypeOK
    <3>. QED BY <2>1, <2>16, <3>4, <3>5, <3>6 DEF LoseSend, TypeOK, Requests
  <2>17. ASSUME NEW r \in Ranks, WaitForNothing(r) PROVE TypeOK'
    <3>1. ncreqs' \in [Ranks -> 0 .. 2 * (N - 1)]
      BY <2>4, <2>17 DEF WaitForNothing, TypeOK
    <3>. QED BY <2>1, <2>17, <3>1 DEF WaitForNothing, TypeOK
  <2>18. ASSUME NEW s \in Ranks, NEW d \in Ranks, Match(s, d) PROVE TypeOK'
    <3>1. /\ reqs' \in [Ranks -> [Slots -> Requests]]
          /\ wire' \in [Ranks -> [Ranks -> Seq(Messages)]]
          /\ rbuf' \in [Ranks -> [Ranks -> Blocks \union {NoBlock}]]
      BY <2>18, MatchType
    <3>. QED BY <2>1, <2>18, <3>1 DEF Match, counters, TypeOK, Requests
  <2>19. CASE Finished
    BY <2>1, <2>19 DEF Finished, vars, counters, TypeOK
  <2>. QED BY <2>5, <2>6, <2>7, <2>8, <2>9, <2>10, <2>11, <2>12, <2>13, <2>14, <2>15,
              <2>16, <2>17, <2>18, <2>19 DEF Next, RankStep, Fault
<1>. QED BY <1>1, <1>2, PTL DEF Spec

-----------------------------------------------------------------------------
(* How the slots of a rank change.                                         *)

\* The invariant of a rank speaks of its own variables only, and of a slot only
\* whether it is busy and with whom.
LEMMA SameSlots ==
  ASSUME NEW r \in Ranks, window' = window, nrreqs'[r] = nrreqs[r],
         nsreqs'[r] = nsreqs[r], ncreqs'[r] = ncreqs[r], Busy(r)' = Busy(r),
         \A k \in Busy(r) : reqs'[r][k].peer = reqs[r][k].peer
  PROVE  /\ SlotsOK(r) => SlotsOK(r)'
         /\ pc'[r] = pc[r] /\ CountsOK(r) => CountsOK(r)'
         /\ Posted(r)' = Posted(r) /\ SentTo(r)' = SentTo(r)
<1>1. T' = T
  BY DEF T
<1>2. Posted(r)' = Posted(r) /\ SentTo(r)' = SentTo(r) /\ Left(r)' = Left(r)
  BY DEF Posted, SentTo, Left
<1>3. (MoreRecvs(r)' <=> MoreRecvs(r)) /\ (MoreSends(r)' <=> MoreSends(r))
  BY DEF MoreRecvs, MoreSends
<1>4. SlotsOK(r) => SlotsOK(r)'
  BY <1>1, <1>2, <1>3 DEF SlotsOK
<1>5. pc'[r] = pc[r] /\ CountsOK(r) => CountsOK(r)'
  BY <1>1, <1>2, <1>3 DEF CountsOK
<1>. QED BY <1>2, <1>4, <1>5

LEMMA SameReqs ==
  ASSUME NEW r \in Ranks, window' = window, reqs'[r] = reqs[r]
  PROVE  /\ Busy(r)' = Busy(r)
         /\ Pending(r)' = Pending(r) /\ Sending(r)' = Sending(r)
BY DEF Busy, Slots, T, Pending, Sending, Outstanding

\* A rank whose own variables a step leaves alone.
LEMMA RankFrame ==
  ASSUME NEW r \in Ranks, window' = window, reqs'[r] = reqs[r], nrreqs'[r] = nrreqs[r],
         nsreqs'[r] = nsreqs[r], ncreqs'[r] = ncreqs[r], pc'[r] = pc[r],
         call'[r] = call[r]
  PROVE  /\ SlotsOK(r) => SlotsOK(r)'
         /\ CountsOK(r) => CountsOK(r)'
         /\ rbuf'[r] = rbuf[r] => /\ (StageOK(r) => StageOK(r)')
                                  /\ (ReceivedInPlace(r) => ReceivedInPlace(r)')
         /\ Sending(r)' = Sending(r)
         /\ \A p : Sent(r, p)' = Sent(r, p) /\ Received(r, p)' = Received(r, p)
<1>1. /\ Busy(r)' = Busy(r)
      /\ Pending(r)' = Pending(r) /\ Sending(r)' = Sending(r)
  BY SameReqs
<1>2. /\ SlotsOK(r) => SlotsOK(r)'
      /\ CountsOK(r) => CountsOK(r)'
      /\ Posted(r)' = Posted(r) /\ SentTo(r)' = SentTo(r)
  BY <1>1, SameSlots
<1>3. ReceivedFrom(r)' = ReceivedFrom(r)
  BY <1>1, <1>2 DEF ReceivedFrom
<1>4. \A p : Sent(r, p)' = Sent(r, p) /\ Received(r, p)' = Received(r, p)
  BY <1>2, <1>3 DEF Sent, Received
<1>5. rbuf'[r] = rbuf[r] => /\ (StageOK(r) => StageOK(r)')
                            /\ (ReceivedInPlace(r) => ReceivedInPlace(r)')
  <2>1. ASSUME rbuf'[r] = rbuf[r], StageOK(r) PROVE StageOK(r)'
    BY <1>1, <2>1 DEF StageOK, Block
  <2>2. ASSUME rbuf'[r] = rbuf[r], ReceivedInPlace(r) PROVE ReceivedInPlace(r)'
    BY <1>3, <2>2 DEF ReceivedInPlace, Block
  <2>. QED BY <2>1, <2>2
<1>. QED BY <1>1, <1>2, <1>4, <1>5

\* The slots and the busy ones are finite in number.
LEMMA BusyFinite ==
  ASSUME TypeOK, NEW r \in Ranks
  PROVE  /\ IsFiniteSet(Busy(r)) /\ Cardinality(Busy(r)) \in Nat
         /\ Cardinality(Busy(r)) = 0 <=> Busy(r) = {}
<1>1. IsFiniteSet(Slots)
  <2>1. T \in Int
    BY WindowBounds, NAssumption DEF TypeOK
  <2>. QED BY <2>1, FS_Interval DEF Slots
<1>2. IsFiniteSet(Busy(r))
  BY <1>1, FS_Subset DEF Busy
<1>. QED BY <1>2, FS_CardinalityType, FS_EmptySet

\* The peers of the requests are ranks, so that a slot is busy if and only if it
\* has a peer.
LEMMA BusyPeers ==
  ASSUME TypeOK, NEW r \in Ranks, SlotsOK(r)
  PROVE  /\ \A k \in Busy(r) : k \in Slots /\ reqs[r][k].peer \in Ranks \ {r}
         /\ Posted(r) \subseteq Ranks \ {r} /\ SentTo(r) \subseteq Ranks \ {r}
         /\ \A k \in Slots, p \in Ranks : Outstanding(reqs[r][k], p) => k \in Busy(r)
         /\ \A k \in Slots : Completed(r, k) => k \in Busy(r)
         /\ Pending(r) \subseteq Posted(r) /\ Sending(r) \subseteq SentTo(r)
<1>1. Posted(r) \subseteq Ranks \ {r}
  <2>1. \A n \in 0 .. nrreqs[r] - 1 : n \in 0 .. N - 2
    BY NAssumption DEF TypeOK
  <2>. QED BY <2>1, PeersAreOthers DEF Posted
<1>2. SentTo(r) \subseteq Ranks \ {r}
  <2>1. \A n \in 0 .. nsreqs[r] - 1 : n \in 0 .. N - 2
    BY NAssumption DEF TypeOK
  <2>. QED BY <2>1, PeersAreOthers DEF SentTo
<1>3. \A k \in Busy(r) : k \in Slots /\ reqs[r][k].peer \in Ranks \ {r}
  BY <1>1, <1>2 DEF SlotsOK, Busy
<1>4. \A k \in Slots, p \in Ranks : Outstanding(reqs[r][k], p) => k \in Busy(r)
  BY RequestType DEF Busy
<1>5. \A k \in Slots : Completed(r, k) => k \in Busy(r)
  BY RequestType DEF Busy, Completed
<1>6. Pending(r) \subseteq Posted(r)
  <2>. SUFFICES ASSUME NEW p \in Pending(r) PROVE p \in Posted(r)
    OBVIOUS
  <2>1. PICK k \in 0 .. T - 1 : Outstanding(reqs[r][k], p)
    BY DEF Pending
  <2>2. k \in Busy(r) /\ k < T /\ reqs[r][k].peer = p
    BY <1>4, <2>1, WindowBounds DEF TypeOK, Pending, Outstanding
  <2>. QED BY <2>2 DEF SlotsOK
<1>7. Sending(r) \subseteq SentTo(r)
  <2>. SUFFICES ASSUME NEW p \in Sending(r) PROVE p \in SentTo(r)
    OBVIOUS
  <2>1. PICK k \in T .. 2 * T - 1 : Outstanding(reqs[r][k], p)
    BY DEF Sending
  <2>2. k \in Busy(r) /\ ~(k < T) /\ reqs[r][k].peer = p
    BY <1>4, <2>1, WindowBounds DEF TypeOK, Sending, Outstanding
  <2>. QED BY <2>2 DEF SlotsOK
<1>. QED BY <1>1, <1>2, <1>3, <1>4, <1>5, <1>6, <1>7

\* Slot k is free in the first batch, or its request is complete and counted.
CanTake(r, k) ==
  \/ k \notin Busy(r) /\ ncreqs[r] = 0 /\ ncreqs'[r] = ncreqs[r]
  \/ k \in Busy(r) /\ reqs[r][k].done /\ ncreqs'[r] = ncreqs[r] + 1

\* A request more, in a slot that can be taken, keeps the count.
LEMMA TakeSlot ==
  ASSUME TypeOK, TypeOK', NEW r \in Ranks, NEW k \in Slots, SlotsOK(r), CanTake(r, k),
         Busy(r)' = Busy(r) \union {k},
         nrreqs'[r] + nsreqs'[r] = nrreqs[r] + nsreqs[r] + 1
  PROVE  /\ Cardinality(Busy(r)') <= Left(r)'
         /\ Cardinality(Busy(r)) = Left(r) => Cardinality(Busy(r)') = Left(r)'
<1>1. /\ IsFiniteSet(Busy(r)) /\ Cardinality(Busy(r)) \in Nat
      /\ Cardinality(Busy(r)) = 0 <=> Busy(r) = {}
  BY BusyFinite
<1>2. /\ nrreqs[r] \in Nat /\ nsreqs[r] \in Nat /\ ncreqs[r] \in Nat
      /\ nrreqs'[r] \in Nat /\ nsreqs'[r] \in Nat /\ ncreqs'[r] \in Nat
  BY DEF TypeOK
<1>3. CASE k \notin Busy(r) /\ ncreqs[r] = 0 /\ ncreqs'[r] = ncreqs[r]
  <2>1. Cardinality(Busy(r)') = Cardinality(Busy(r)) + 1
    <3>1. Cardinality(Busy(r) \union {k}) = Cardinality(Busy(r)) + 1
      BY <1>1, <1>3, FS_AddElement
    <3>. QED BY <3>1, Zenon
  <2>2. Cardinality(Busy(r)) <= Left(r)
    BY <1>1, <1>2, <1>3 DEF SlotsOK, Left
  <2>. QED BY <1>1, <1>2, <1>3, <2>1, <2>2 DEF Left
<1>4. CASE k \in Busy(r) /\ ncreqs'[r] = ncreqs[r] + 1
  <2>1. Cardinality(Busy(r)') = Cardinality(Busy(r))
    <3>1. Busy(r)' = Busy(r)
      BY <1>4
    <3>. QED BY <3>1, Zenon
  <2>2. Cardinality(Busy(r)) <= Left(r)
    <3>1. Busy(r) = {} \/ Cardinality(Busy(r)) <= Left(r)
      BY DEF SlotsOK
    <3>2. Busy(r) # {}
      BY <1>4
    <3>. QED BY <3>1, <3>2
  <2>. QED BY <1>1, <1>2, <1>4, <2>1, <2>2 DEF Left
<1>. QED BY <1>3, <1>4 DEF CanTake

\* irecv adds a peer to those posted and awaited.
LEMMA IrecvSlots ==
  ASSUME TypeOK, TypeOK', NEW r \in Ranks, NEW k \in 0 .. T - 1, window' = window,
         SlotsOK(r), MoreRecvs(r), Irecv(r, k), CanTake(r, k)
  PROVE  /\ Busy(r)' = Busy(r) \union {k}
         /\ SentTo(r)' = SentTo(r) /\ Sending(r)' = Sending(r)
         /\ ReceivedFrom(r)' = ReceivedFrom(r)
         /\ Posted(r)' = Posted(r) \union {RecvPeer(r, nrreqs[r])}
         /\ reqs'[r][k].peer = RecvPeer(r, nrreqs[r])
         /\ \A j \in Slots \ {k} : reqs'[r][j] = reqs[r][j]
         /\ RecvPeer(r, nrreqs[r]) \in Ranks \ Posted(r)
<1>. DEFINE p == RecvPeer(r, nrreqs[r])
<1>0. T' = T /\ Slots' = Slots /\ k \in Slots /\ k < T
  BY WindowBounds DEF T, Slots, TypeOK
<1>1. nrreqs[r] \in 0 .. N - 2 /\ nrreqs'[r] = nrreqs[r] + 1 /\ nsreqs'[r] = nsreqs[r]
  BY NAssumption DEF TypeOK, MoreRecvs, Irecv
<1>2. p \in Ranks
  BY <1>1, PeersAreOthers
<1>3. p \notin Posted(r)
  <2>1. \A n \in 0 .. nrreqs[r] - 1 : n \in 0 .. N - 2 /\ n # nrreqs[r]
    BY <1>1, NAssumption
  <2>. QED BY <1>1, <2>1, PeersDiffer DEF Posted
<1>4. /\ reqs'[r][k] = Request(p, FALSE)
      /\ \A j \in Slots \ {k} : reqs'[r][j] = reqs[r][j]
  BY <1>0 DEF Irecv, TypeOK
<1>. HIDE DEF p
<1>5. /\ reqs'[r][k].peer = p /\ ~reqs'[r][k].done /\ reqs'[r][k] # Null
  BY <1>2, <1>4, RequestType
<1>6. Busy(r)' = Busy(r) \union {k}
  BY <1>0, <1>4, <1>5 DEF Busy
<1>7. SentTo(r)' = SentTo(r)
  BY <1>1 DEF SentTo
<1>8. Sending(r)' = Sending(r)
  <2>1. \A j \in T .. 2 * T - 1 : j \in Slots \ {k}
    BY <1>0, WindowBounds DEF TypeOK
  <2>. QED BY <1>0, <1>4, <2>1 DEF Sending
<1>9. Posted(r)' = Posted(r) \union {p}
  <2>1. 0 .. nrreqs'[r] - 1 = (0 .. nrreqs[r] - 1) \union {nrreqs[r]}
    BY <1>1
  <2>. QED BY <2>1 DEF Posted, p
<1>10. Pending(r)' = Pending(r) \union {p}
  <2>1. \A j \in 0 .. T - 1 : j \in Slots
    BY WindowBounds DEF TypeOK
  <2>2. \A q \in Ranks : Outstanding(reqs'[r][k], q) <=> q = p
    BY <1>2, <1>4, RequestType DEF Outstanding
  <2>3. \A q \in Ranks : ~Outstanding(reqs[r][k], q)
    <3>1. CASE k \notin Busy(r)
      BY <1>0, <3>1, BusyPeers
    <3>2. CASE reqs[r][k].done
      BY <3>2 DEF Outstanding
    <3>. QED BY <3>1, <3>2 DEF CanTake
  <2>4. ASSUME NEW q \in Ranks
        PROVE  (\E j \in 0 .. T - 1 : Outstanding(reqs'[r][j], q))
                 <=> (\E j \in 0 .. T - 1 : Outstanding(reqs[r][j], q)) \/ q = p
    BY <1>4, <2>1, <2>2, <2>3
  <2>5. Pending(r)' = {q \in Ranks : \E j \in 0 .. T - 1 : Outstanding(reqs'[r][j], q)}
    BY <1>0 DEF Pending, Outstanding
  <2>. QED BY <1>2, <2>4, <2>5 DEF Pending
<1>11. ReceivedFrom(r)' = ReceivedFrom(r)
  BY <1>3, <1>9, <1>10 DEF ReceivedFrom
<1>. QED BY <1>2, <1>3, <1>4, <1>5, <1>6, <1>7, <1>8, <1>9, <1>11 DEF p

LEMMA IrecvInv ==
  ASSUME TypeOK, TypeOK', NEW r \in Ranks, NEW k \in 0 .. T - 1, window' = window,
         SlotsOK(r), MoreRecvs(r), Irecv(r, k), CanTake(r, k),
         pc[r] = "in", pc'[r] = "in",
         \/ k = nrreqs[r] /\ ncreqs'[r] = 0
         \/ nrreqs[r] >= T /\ nsreqs[r] >= T
  PROVE  /\ SlotsOK(r)' /\ (CountsOK(r) => CountsOK(r)')
         /\ Sending(r)' = Sending(r) /\ SentTo(r)' = SentTo(r)
         /\ ReceivedFrom(r)' = ReceivedFrom(r)
<1>. DEFINE p == RecvPeer(r, nrreqs[r])
<1>0. T' = T /\ Slots' = Slots /\ k \in Slots /\ k < T /\ T \in Nat /\ k \in Nat
  <2>1. T \in 0 .. N - 1 /\ k \in Slots /\ k < T
    BY WindowBounds DEF TypeOK
  <2>2. T' = T /\ Slots' = Slots
    BY DEF T, Slots
  <2>. QED BY <2>1, <2>2, NAssumption
<1>1. /\ nrreqs[r] \in Nat /\ nrreqs'[r] = nrreqs[r] + 1 /\ nsreqs'[r] = nsreqs[r]
      /\ nsreqs[r] \in Nat
  BY DEF TypeOK, Irecv
<1>2. /\ Busy(r)' = Busy(r) \union {k}
      /\ SentTo(r)' = SentTo(r) /\ Sending(r)' = Sending(r)
      /\ ReceivedFrom(r)' = ReceivedFrom(r)
      /\ Posted(r)' = Posted(r) \union {p}
      /\ reqs'[r][k].peer = p
      /\ \A j \in Slots \ {k} : reqs'[r][j] = reqs[r][j]
      /\ p \in Ranks \ Posted(r)
  BY IrecvSlots
<1>3. /\ Cardinality(Busy(r)') <= Left(r)'
      /\ Cardinality(Busy(r)) = Left(r) => Cardinality(Busy(r)') = Left(r)'
  <2>1. nrreqs'[r] + nsreqs'[r] = nrreqs[r] + nsreqs[r] + 1
    BY <1>1
  <2>. QED BY <1>0, <1>2, <2>1, TakeSlot, Zenon
<1>4. (MoreSends(r)' <=> MoreSends(r)) /\ (MoreRecvs(r)' => MoreRecvs(r))
  BY <1>1, NAssumption DEF MoreSends, MoreRecvs
<1>5. \A j \in Busy(r) : j \in Slots
  BY DEF Busy
<1>. HIDE DEF p
<1>6. \A j \in Busy(r)' :
        IF j < T THEN j < nrreqs'[r] /\ reqs'[r][j].peer \in Posted(r)'
                 ELSE j - T < nsreqs'[r] /\ reqs'[r][j].peer \in SentTo(r)'
  <2>1. ASSUME NEW j \in Busy(r), j # k
        PROVE  IF j < T THEN j < nrreqs'[r] /\ reqs'[r][j].peer \in Posted(r)'
                        ELSE j - T < nsreqs'[r] /\ reqs'[r][j].peer \in SentTo(r)'
    <3>1. j \in Int
      BY <1>5, WindowBounds DEF TypeOK
    <3>2. IF j < T THEN j < nrreqs[r] /\ reqs[r][j].peer \in Posted(r)
                   ELSE j - T < nsreqs[r] /\ reqs[r][j].peer \in SentTo(r)
      BY DEF SlotsOK
    <3>3. reqs'[r][j] = reqs[r][j]
      BY <1>2, <1>5, <2>1
    <3>. QED BY <1>1, <1>2, <3>1, <3>2, <3>3
  <2>2. k < nrreqs'[r] /\ reqs'[r][k].peer \in Posted(r)'
    BY <1>0, <1>1, <1>2
  <2>. QED BY <1>0, <1>2, <2>1, <2>2
<1>7. \A i, j \in Busy(r)' : i # j /\ (i < T <=> j < T)
                             => reqs'[r][i].peer # reqs'[r][j].peer
  <2>1. ASSUME NEW j \in Busy(r), j # k, j < T PROVE reqs'[r][j].peer # p
    BY <1>2, <1>5, <2>1 DEF SlotsOK
  <2>2. ASSUME NEW i \in Busy(r), NEW j \in Busy(r), i # k, j # k, i # j, i < T <=> j < T
        PROVE  reqs'[r][i].peer # reqs'[r][j].peer
    BY <1>2, <1>5, <2>2 DEF SlotsOK
  <2>. QED BY <1>0, <1>2, <2>1, <2>2
<1>8. MoreRecvs(r)' => \A j \in 0 .. T - 1 : j < nrreqs'[r] => j \in Busy(r)'
  <2>. SUFFICES ASSUME MoreRecvs(r)', NEW j \in 0 .. T - 1, j < nrreqs'[r]
                PROVE  j \in Busy(r)'
    OBVIOUS
  <2>1. CASE j < nrreqs[r]
    BY <1>2, <1>4, <2>1 DEF SlotsOK
  <2>2. CASE j = nrreqs[r]
    BY <1>0, <1>2, <2>2
  <2>. QED BY <1>0, <1>1, <2>1, <2>2
<1>9. SlotsOK(r)'
  BY <1>0, <1>1, <1>3, <1>6, <1>7, <1>8 DEF SlotsOK
<1>10. CountsOK(r) => CountsOK(r)'
  BY <1>0, <1>1, <1>2, <1>3, <1>4 DEF CountsOK
<1>. QED BY <1>2, <1>9, <1>10

\* isend adds a peer to those sent to, and waits for it unless it is eager.
LEMMA IsendSlots ==
  ASSUME TypeOK, TypeOK', NEW r \in Ranks, NEW k \in T .. 2 * T - 1, window' = window,
         SlotsOK(r), MoreSends(r), Isend(r, k), CanTake(r, k)
  PROVE  /\ Busy(r)' = Busy(r) \union {k}
         /\ ReceivedFrom(r)' = ReceivedFrom(r) /\ Posted(r)' = Posted(r)
         /\ SentTo(r)' = SentTo(r) \union {SendPeer(r, nsreqs[r])}
         /\ Sending(r) \subseteq Sending(r)'
         /\ reqs'[r][k].peer = SendPeer(r, nsreqs[r])
         /\ \A j \in Slots \ {k} : reqs'[r][j] = reqs[r][j]
         /\ \A q \in Ranks \ {r} : reqs'[q] = reqs[q]
         /\ SendPeer(r, nsreqs[r]) \in Ranks \ {r}
         /\ SendPeer(r, nsreqs[r]) \notin SentTo(r)
         /\ \E p \in Protocols :
              /\ wire' = [wire EXCEPT ![r][SendPeer(r, nsreqs[r])] =
                            Append(@, [block |-> Block(r, SendPeer(r, nsreqs[r]), call[r]),
                                       protocol |-> p])]
              /\ p # "eager" => SendPeer(r, nsreqs[r]) \in Sending(r)'
<1>. DEFINE d == SendPeer(r, nsreqs[r])
<1>0. T' = T /\ Slots' = Slots /\ k \in Slots /\ ~(k < T)
  BY WindowBounds DEF T, Slots, TypeOK
<1>1. nsreqs[r] \in 0 .. N - 2 /\ nsreqs'[r] = nsreqs[r] + 1 /\ nrreqs'[r] = nrreqs[r]
  <2>1. nsreqs[r] \in 0 .. N - 2
    BY NAssumption DEF TypeOK, MoreSends
  <2>2. nsreqs' = [nsreqs EXCEPT ![r] = @ + 1] /\ nrreqs' = nrreqs
    BY DEF Isend
  <2>. QED BY <2>1, <2>2 DEF TypeOK
<1>2. d \in Ranks \ {r}
  BY <1>1, PeersAreOthers
<1>3. d \notin SentTo(r)
  <2>1. \A n \in 0 .. nsreqs[r] - 1 : n \in 0 .. N - 2 /\ n # nsreqs[r]
    BY <1>1, NAssumption
  <2>. QED BY <1>1, <2>1, PeersDiffer DEF SentTo
<1>4. PICK p \in Protocols :
        /\ wire' = [wire EXCEPT ![r][d] =
                      Append(@, [block |-> Block(r, d, call[r]), protocol |-> p])]
        /\ reqs' = [reqs EXCEPT ![r][k] = Request(d, p = "eager")]
  BY DEF Isend
<1>. HIDE DEF d
<1>5. /\ reqs'[r][k] = Request(d, p = "eager")
      /\ \A j \in Slots \ {k} : reqs'[r][j] = reqs[r][j]
      /\ \A q \in Ranks \ {r} : reqs'[q] = reqs[q]
  BY <1>0, <1>4 DEF TypeOK
<1>6. /\ reqs'[r][k].peer = d /\ reqs'[r][k].done = (p = "eager") /\ reqs'[r][k] # Null
  BY <1>2, <1>5, RequestType
<1>7. Busy(r)' = Busy(r) \union {k}
  BY <1>0, <1>5, <1>6 DEF Busy
<1>8. Posted(r)' = Posted(r)
  BY <1>1 DEF Posted
<1>9. Pending(r)' = Pending(r)
  <2>1. \A j \in 0 .. T - 1 : j \in Slots \ {k}
    BY <1>0, WindowBounds DEF TypeOK
  <2>. QED BY <1>0, <1>5, <2>1 DEF Pending
<1>10. SentTo(r)' = SentTo(r) \union {d}
  <2>1. 0 .. nsreqs'[r] - 1 = (0 .. nsreqs[r] - 1) \union {nsreqs[r]}
    BY <1>1
  <2>. QED BY <2>1 DEF SentTo, d
<1>11. Sending(r)' = {q \in Ranks : \E j \in T .. 2 * T - 1 : Outstanding(reqs'[r][j], q)}
  BY <1>0 DEF Sending, Outstanding
<1>12. \A j \in T .. 2 * T - 1 : j \in Slots
  BY WindowBounds DEF TypeOK
<1>13. \A q \in Ranks : ~Outstanding(reqs[r][k], q)
  <2>1. CASE k \notin Busy(r)
    BY <1>0, <2>1, BusyPeers
  <2>2. CASE reqs[r][k].done
    BY <2>2 DEF Outstanding
  <2>. QED BY <2>1, <2>2 DEF CanTake
<1>14. Sending(r) \subseteq Sending(r)'
  <2>. SUFFICES ASSUME NEW q \in Sending(r) PROVE q \in Sending(r)'
    OBVIOUS
  <2>1. PICK j \in T .. 2 * T - 1 : Outstanding(reqs[r][j], q)
    BY DEF Sending
  <2>2. j # k /\ q \in Ranks
    BY <1>13, <2>1 DEF Sending
  <2>. QED BY <1>5, <1>11, <1>12, <2>1, <2>2
<1>15. p # "eager" => d \in Sending(r)'
  <2>1. p # "eager" => Outstanding(reqs'[r][k], d)
    BY <1>6 DEF Outstanding
  <2>. QED BY <1>2, <1>11, <2>1
<1>. QED BY <1>2, <1>3, <1>4, <1>5, <1>6, <1>7, <1>8, <1>9, <1>10, <1>14, <1>15
         DEF d, ReceivedFrom

LEMMA IsendInv ==
  ASSUME TypeOK, TypeOK', NEW r \in Ranks, NEW k \in T .. 2 * T - 1, window' = window,
         SlotsOK(r), MoreSends(r), Isend(r, k), CanTake(r, k),
         pc[r] = "in", pc'[r] = "in",
         \/ k = T + nsreqs[r] /\ ncreqs'[r] = 0
         \/ nrreqs[r] >= T /\ nsreqs[r] >= T
  PROVE  SlotsOK(r)' /\ (CountsOK(r) => CountsOK(r)')
<1>. DEFINE d == SendPeer(r, nsreqs[r])
<1>0. /\ T' = T /\ Slots' = Slots /\ k \in Slots /\ ~(k < T) /\ T \in Nat /\ k \in Nat
      /\ k <= 2 * T - 1
  BY WindowBounds DEF T, Slots, TypeOK
<1>1. /\ nsreqs[r] \in Nat /\ nsreqs'[r] = nsreqs[r] + 1 /\ nrreqs'[r] = nrreqs[r]
      /\ nrreqs[r] \in Nat
  BY DEF TypeOK, Isend
<1>2. /\ Busy(r)' = Busy(r) \union {k}
      /\ Posted(r)' = Posted(r)
      /\ SentTo(r)' = SentTo(r) \union {d}
      /\ reqs'[r][k].peer = d
      /\ \A j \in Slots \ {k} : reqs'[r][j] = reqs[r][j]
      /\ d \notin SentTo(r)
  BY IsendSlots
<1>3. /\ Cardinality(Busy(r)') <= Left(r)'
      /\ Cardinality(Busy(r)) = Left(r) => Cardinality(Busy(r)') = Left(r)'
  <2>1. nrreqs'[r] + nsreqs'[r] = nrreqs[r] + nsreqs[r] + 1
    BY <1>1
  <2>. QED BY <1>0, <1>2, <2>1, TakeSlot, Zenon
<1>4. (MoreRecvs(r)' <=> MoreRecvs(r)) /\ (MoreSends(r)' => MoreSends(r))
  BY <1>1, NAssumption DEF MoreSends, MoreRecvs
<1>5. \A j \in Busy(r) : j \in Slots
  BY DEF Busy
<1>. HIDE DEF d
<1>6. \A j \in Busy(r)' :
        IF j < T THEN j < nrreqs'[r] /\ reqs'[r][j].peer \in Posted(r)'
                 ELSE j - T < nsreqs'[r] /\ reqs'[r][j].peer \in SentTo(r)'
  <2>1. ASSUME NEW j \in Busy(r), j # k
        PROVE  IF j < T THEN j < nrreqs'[r] /\ reqs'[r][j].peer \in Posted(r)'
                        ELSE j - T < nsreqs'[r] /\ reqs'[r][j].peer \in SentTo(r)'
    <3>1. j \in Int
      BY <1>5, WindowBounds DEF TypeOK
    <3>2. IF j < T THEN j < nrreqs[r] /\ reqs[r][j].peer \in Posted(r)
                   ELSE j - T < nsreqs[r] /\ reqs[r][j].peer \in SentTo(r)
      BY DEF SlotsOK
    <3>3. reqs'[r][j] = reqs[r][j]
      BY <1>2, <1>5, <2>1
    <3>. QED BY <1>0, <1>1, <1>2, <3>1, <3>2, <3>3
  <2>2. k - T < nsreqs'[r] /\ reqs'[r][k].peer \in SentTo(r)'
    BY <1>0, <1>1, <1>2
  <2>. QED BY <1>0, <1>2, <2>1, <2>2
<1>7. \A i, j \in Busy(r)' : i # j /\ (i < T <=> j < T)
                             => reqs'[r][i].peer # reqs'[r][j].peer
  <2>1. ASSUME NEW j \in Busy(r), j # k, ~(j < T) PROVE reqs'[r][j].peer # d
    BY <1>2, <1>5, <2>1 DEF SlotsOK
  <2>2. ASSUME NEW i \in Busy(r), NEW j \in Busy(r), i # k, j # k, i # j, i < T <=> j < T
        PROVE  reqs'[r][i].peer # reqs'[r][j].peer
    BY <1>2, <1>5, <2>2 DEF SlotsOK
  <2>. QED BY <1>0, <1>2, <2>1, <2>2
<1>8. MoreRecvs(r)' => \A j \in 0 .. T - 1 : j < nrreqs'[r] => j \in Busy(r)'
  BY <1>1, <1>2, <1>4 DEF SlotsOK
<1>9. SlotsOK(r)'
  BY <1>0, <1>1, <1>3, <1>6, <1>7, <1>8 DEF SlotsOK
<1>10. ASSUME CountsOK(r) PROVE CountsOK(r)'
  <2>1. ASSUME MoreSends(r)', NEW j \in 0 .. T - 1, j < nsreqs'[r]
        PROVE  T + j \in Busy(r)'
    <3>1. CASE j < nsreqs[r]
      BY <1>2, <1>4, <1>10, <2>1, <3>1 DEF CountsOK
    <3>2. CASE j = nsreqs[r]
      BY <1>0, <1>1, <1>2, <3>2
    <3>. QED BY <1>0, <1>1, <2>1, <3>1, <3>2
  <2>. QED BY <1>0, <1>3, <1>10, <2>1 DEF CountsOK
<1>. QED BY <1>9, <1>10

\* Slot k is vacated by a step that counts its completion, or takes the request
\* of a send that fails.
LEMMA VacateSlots ==
  ASSUME TypeOK, TypeOK', NEW r \in Ranks, NEW k \in Slots, window' = window,
         SlotsOK(r), k \in Busy(r), reqs[r][k].done,
         reqs' = [reqs EXCEPT ![r][k] = Null]
  PROVE  /\ Busy(r)' = Busy(r) \ {k}
         /\ Cardinality(Busy(r)') = Cardinality(Busy(r)) - 1
         /\ Cardinality(Busy(r)) \in Nat
         /\ Pending(r)' = Pending(r) /\ Sending(r)' = Sending(r)
         /\ \A j \in Busy(r)' : reqs'[r][j] = reqs[r][j]
<1>0. T' = T /\ Slots' = Slots
  BY DEF T, Slots
<1>1. /\ reqs'[r][k] = Null
      /\ \A j \in Slots \ {k} : reqs'[r][j] = reqs[r][j]
  BY DEF TypeOK
<1>2. Busy(r)' = Busy(r) \ {k}
  BY <1>0, <1>1 DEF Busy
<1>3. IsFiniteSet(Busy(r)) /\ Cardinality(Busy(r)) \in Nat
  BY BusyFinite
<1>4. Cardinality(Busy(r) \ {k}) = Cardinality(Busy(r)) - 1
  BY <1>3, FS_RemoveElement
<1>5. \A p \in Ranks, j \in Slots : Outstanding(reqs'[r][j], p) <=> Outstanding(reqs[r][j], p)
  BY <1>1, RequestType DEF Outstanding
<1>6. \A j : j \in 0 .. T - 1 \/ j \in T .. 2 * T - 1 => j \in Slots
  BY WindowBounds DEF TypeOK
<1>7. Pending(r)' = Pending(r)
  <2>1. Pending(r)' = {p \in Ranks : \E j \in 0 .. T - 1 : Outstanding(reqs'[r][j], p)}
    BY <1>0 DEF Pending, Outstanding
  <2>. QED BY <1>5, <1>6, <2>1 DEF Pending
<1>8. Sending(r)' = Sending(r)
  <2>1. Sending(r)' = {p \in Ranks : \E j \in T .. 2 * T - 1 : Outstanding(reqs'[r][j], p)}
    BY <1>0 DEF Sending, Outstanding
  <2>. QED BY <1>5, <1>6, <2>1 DEF Sending
<1>9. Cardinality(Busy(r)') = Cardinality(Busy(r)) - 1
  BY <1>2, <1>4, Zenon
<1>10. \A j \in Busy(r)' : reqs'[r][j] = reqs[r][j]
  BY <1>1, <1>2 DEF Busy
<1>. QED BY <1>2, <1>3, <1>7, <1>8, <1>9, <1>10

-----------------------------------------------------------------------------
(* The invariant from one rank's part of it.                               *)

LEMMA CountsAreIntegers ==
  ASSUME TypeOK, NEW s \in Ranks, NEW d \in Ranks
  PROVE  /\ call[s] \in Int /\ Sent(s, d) \in Int /\ Received(s, d) \in Int
         /\ Sent(s, d) <= call[s] /\ Sent(s, d) >= call[s] - 1
         /\ Received(s, d) <= call[s] /\ Received(s, d) >= call[s] - 1
<1>1. call[s] \in Int
  BY DEF TypeOK
<1>. QED BY <1>1 DEF Sent, Received

\* Messages that stay where they are.
LEMMA SameWire ==
  ASSUME TypeOK, TypeOK', NEW s \in Ranks, NEW d \in Ranks,
         wire'[s][d] = wire[s][d],
         Received(d, s)' = Received(d, s),
         Sent(s, d)' >= Sent(s, d),
         d \in Sending(s) => d \in Sending(s)'
  PROVE  /\ WireOK(s, d) => WireOK(s, d)'
         /\ Sent(s, d)' = Sent(s, d) /\ InOrder(s, d) => InOrder(s, d)'
<1>1. /\ Sent(s, d) \in Int /\ Received(d, s) \in Int
      /\ Sent(s, d)' \in Int /\ Received(d, s)' \in Int
  <2>1. Sent(s, d) \in Int /\ Received(d, s) \in Int
    BY CountsAreIntegers
  <2>2. call'[s] \in Int
    BY DEF TypeOK
  <2>3. Sent(s, d)' \in Int
    BY <2>2 DEF Sent
  <2>. QED BY <2>1, <2>3
<1>2. Len(wire[s][d]) \in Nat
  <2>1. PICK S : wire \in [Ranks -> [Ranks -> Seq(S)]]
    BY DEF TypeOK
  <2>. QED BY <2>1
<1>3. ASSUME WireOK(s, d) PROVE WireOK(s, d)'
  BY <1>1, <1>2, <1>3 DEF WireOK
<1>4. ASSUME Sent(s, d)' = Sent(s, d), InOrder(s, d) PROVE InOrder(s, d)'
  BY <1>4 DEF InOrder, Block
<1>. QED BY <1>3, <1>4

\* The ranks other than r have their variables to themselves.
OthersSame(r) == \A q \in Ranks \ {r} :
  /\ reqs'[q] = reqs[q] /\ rbuf'[q] = rbuf[q] /\ pc'[q] = pc[q] /\ call'[q] = call[q]
  /\ nrreqs'[q] = nrreqs[q] /\ nsreqs'[q] = nsreqs[q] /\ ncreqs'[q] = ncreqs[q]

\* What a step of r has to keep for the invariant to hold after it.
RankKept(r) ==
  /\ SlotsOK(r)' /\ StageOK(r)'
  /\ ~lost' => CountsOK(r)' /\ ReceivedInPlace(r)'
  /\ \A p \in Ranks \ {r} : Received(r, p)' = Received(r, p)

LEMMA RanksInv ==
  ASSUME IInv, TypeOK', NEW r \in Ranks, window' = window, OthersSame(r), RankKept(r),
         lost => lost'
  PROVE  /\ \A q \in Ranks : SlotsOK(q)' /\ StageOK(q)'
         /\ ~lost' => \A q \in Ranks : CountsOK(q)' /\ ReceivedInPlace(q)'
         /\ \A q, p \in Ranks : q # p => Received(q, p)' = Received(q, p)
         /\ \A q \in Ranks \ {r}, p \in Ranks : /\ Sent(q, p)' = Sent(q, p)
                                               /\ Sending(q)' = Sending(q)
<1>1. ASSUME NEW q \in Ranks \ {r}
      PROVE  /\ SlotsOK(q)' /\ StageOK(q)'
             /\ ~lost' => CountsOK(q)' /\ ReceivedInPlace(q)'
             /\ Sending(q)' = Sending(q)
             /\ \A p : Sent(q, p)' = Sent(q, p) /\ Received(q, p)' = Received(q, p)
  <2>1. /\ reqs'[q] = reqs[q] /\ rbuf'[q] = rbuf[q] /\ pc'[q] = pc[q] /\ call'[q] = call[q]
        /\ nrreqs'[q] = nrreqs[q] /\ nsreqs'[q] = nsreqs[q] /\ ncreqs'[q] = ncreqs[q]
    BY DEF OthersSame
  <2>2. /\ SlotsOK(q) => SlotsOK(q)'
        /\ CountsOK(q) => CountsOK(q)'
        /\ StageOK(q) => StageOK(q)'
        /\ ReceivedInPlace(q) => ReceivedInPlace(q)'
        /\ Sending(q)' = Sending(q)
        /\ \A p : Sent(q, p)' = Sent(q, p) /\ Received(q, p)' = Received(q, p)
    BY <2>1, RankFrame
  <2>3. /\ SlotsOK(q) /\ StageOK(q)
        /\ ~lost => CountsOK(q) /\ ReceivedInPlace(q)
    BY DEF IInv
  <2>. QED BY <2>2, <2>3
<1>2. /\ SlotsOK(r)' /\ StageOK(r)'
      /\ ~lost' => CountsOK(r)' /\ ReceivedInPlace(r)'
      /\ \A p \in Ranks \ {r} : Received(r, p)' = Received(r, p)
  BY DEF RankKept
<1>3. \A q, p \in Ranks : q # p => Received(q, p)' = Received(q, p)
  BY <1>1, <1>2
<1>. QED BY <1>1, <1>2, <1>3

\* A step of one rank that sends no message.
LEMMA QuietInv ==
  ASSUME IInv, TypeOK', NEW r \in Ranks, window' = window, wire' = wire,
         OthersSame(r), RankKept(r), lost => lost',
         \A p \in Ranks \ {r} : /\ Sent(r, p)' >= Sent(r, p)
                                /\ ~lost' => Sent(r, p)' = Sent(r, p)
                                /\ p \in Sending(r) => p \in Sending(r)'
  PROVE  IInv'
<1>0. TypeOK
  BY DEF IInv
<1>1. /\ \A q \in Ranks : SlotsOK(q)' /\ StageOK(q)'
      /\ ~lost' => \A q \in Ranks : CountsOK(q)' /\ ReceivedInPlace(q)'
      /\ \A q, p \in Ranks : q # p => Received(q, p)' = Received(q, p)
      /\ \A q \in Ranks \ {r}, p \in Ranks : /\ Sent(q, p)' = Sent(q, p)
                                            /\ Sending(q)' = Sending(q)
  BY RanksInv
<1>2. ASSUME NEW s \in Ranks, NEW d \in Ranks, s # d
      PROVE  WireOK(s, d)' /\ (~lost' => InOrder(s, d)')
  <2>1. /\ Sent(s, d)' >= Sent(s, d)
        /\ ~lost' => Sent(s, d)' = Sent(s, d)
        /\ d \in Sending(s) => d \in Sending(s)'
    <3>1. Sent(s, d) \in Int
      BY <1>0, CountsAreIntegers
    <3>2. CASE s = r
      BY <1>2, <3>2
    <3>3. CASE s # r
      BY <1>1, <3>1, <3>3
    <3>. QED BY <3>2, <3>3
  <2>2. Received(d, s)' = Received(d, s) /\ wire'[s][d] = wire[s][d]
    BY <1>1, <1>2
  <2>3. /\ WireOK(s, d) => WireOK(s, d)'
        /\ Sent(s, d)' = Sent(s, d) /\ InOrder(s, d) => InOrder(s, d)'
    BY <1>0, <2>1, <2>2, SameWire
  <2>4. WireOK(s, d) /\ (~lost => InOrder(s, d))
    BY <1>2 DEF IInv
  <2>. QED BY <2>1, <2>3, <2>4
<1>3. \A q \in Ranks : wire'[q][q] = <<>>
  BY DEF IInv
<1>. QED BY <1>1, <1>2, <1>3 DEF IInv

-----------------------------------------------------------------------------
(* The initial states, and the steps of a rank.                            *)

\* A rank that has posted all its receives, or all its sends, has met all ranks.
LEMMA AllPeers ==
  ASSUME NEW r \in Ranks
  PROVE  /\ nrreqs[r] = N - 1 => Posted(r) = Ranks \ {r}
         /\ nsreqs[r] = N - 1 => SentTo(r) = Ranks \ {r}
<1>1. (N - 1) - 1 = N - 2
  BY NAssumption
<1>2. ASSUME nrreqs[r] = N - 1 PROVE Posted(r) = Ranks \ {r}
  BY <1>1, <1>2, EveryPeer, PeersAreOthers DEF Posted
<1>3. ASSUME nsreqs[r] = N - 1 PROVE SentTo(r) = Ranks \ {r}
  BY <1>1, <1>3, EveryPeer, PeersAreOthers DEF SentTo
<1>. QED BY <1>2, <1>3

\* A rank without requests.
LEMMA NothingBusy ==
  ASSUME window \in Windows, NEW r \in Ranks
  PROVE  /\ reqs[r] = NoRequests => Busy(r) = {}
         /\ Busy(r) = {} => Pending(r) = {} /\ Sending(r) = {} /\ Cardinality(Busy(r)) = 0
<1>1. reqs[r] = NoRequests => Busy(r) = {}
  BY DEF Busy, NoRequests
<1>2. ASSUME Busy(r) = {} PROVE Pending(r) = {} /\ Sending(r) = {}
  <2>1. \A k \in Slots : reqs[r][k] = Null
    BY <1>2 DEF Busy
  <2>. QED BY <2>1, WindowBounds, RequestType DEF Pending, Sending
<1>3. ASSUME Busy(r) = {} PROVE Cardinality(Busy(r)) = 0
  BY <1>3, FS_EmptySet
<1>. QED BY <1>1, <1>2, <1>3

LEMMA NothingBusyNext ==
  ASSUME window \in Windows, window' = window, NEW r \in Ranks, reqs'[r] = NoRequests
  PROVE  /\ Busy(r)' = {} /\ Pending(r)' = {} /\ Sending(r)' = {}
         /\ Cardinality(Busy(r)') = 0
<1>0. T' = T /\ Slots' = Slots
  BY DEF T, Slots
<1>1. \A k \in Slots : reqs'[r][k] = Null
  BY DEF NoRequests
<1>2. Busy(r)' = {}
  BY <1>0, <1>1 DEF Busy
<1>3. Pending(r)' = {}
  <2>1. Pending(r)' = {p \in Ranks : \E k \in 0 .. T - 1 : Outstanding(reqs'[r][k], p)}
    BY <1>0 DEF Pending, Outstanding
  <2>. QED BY <1>1, <2>1, WindowBounds, RequestType
<1>4. Sending(r)' = {}
  <2>1. Sending(r)' = {p \in Ranks : \E k \in T .. 2 * T - 1 : Outstanding(reqs'[r][k], p)}
    BY <1>0 DEF Sending, Outstanding
  <2>. QED BY <1>1, <2>1, WindowBounds, RequestType
<1>5. Cardinality({}) = 0
  BY FS_EmptySet
<1>6. Cardinality(Busy(r)') = 0
  BY <1>2, <1>5, Zenon
<1>. QED BY <1>2, <1>3, <1>4, <1>6

LEMMA InitInv == ASSUME Init, TypeOK PROVE IInv
<1>1. ASSUME NEW r \in Ranks
      PROVE  /\ Busy(r) = {} /\ Cardinality(Busy(r)) = 0
             /\ nrreqs[r] = N - 1 /\ nsreqs[r] = N - 1 /\ ncreqs[r] = 2 * (N - 1)
             /\ Pending(r) = {} /\ call[r] = 0 /\ pc[r] = "out"
  BY NothingBusy DEF Init
<1>2. T \in 0 .. N - 1
  BY WindowBounds DEF TypeOK
<1>3. ASSUME NEW r \in Ranks
      PROVE  SlotsOK(r) /\ StageOK(r) /\ CountsOK(r) /\ ReceivedInPlace(r)
  <2>1. ~MoreRecvs(r) /\ ~MoreSends(r) /\ Left(r) = 0
    BY <1>1, NAssumption DEF MoreRecvs, MoreSends, Left
  <2>2. SlotsOK(r)
    <3>1. ~(nrreqs[r] < T) /\ ~(nsreqs[r] < T)
      BY <1>1, <1>2, NAssumption
    <3>. QED BY <1>1, <2>1, <3>1 DEF SlotsOK
  <2>. QED BY <1>1, <2>1, <2>2 DEF StageOK, CountsOK, ReceivedInPlace
<1>4. ASSUME NEW s \in Ranks, NEW d \in Ranks, s # d
      PROVE  WireOK(s, d) /\ InOrder(s, d)
  <2>1. Sent(s, d) = 0 /\ Received(d, s) = 0
    BY <1>1, <1>4, AllPeers DEF Sent, Received, ReceivedFrom
  <2>2. wire[s][d] = <<>> /\ Len(wire[s][d]) = 0
    BY DEF Init
  <2>. QED BY <2>1, <2>2 DEF WireOK, InOrder
<1>5. \A r \in Ranks : wire[r][r] = <<>>
  BY DEF Init
<1>. QED BY <1>3, <1>4, <1>5 DEF IInv

LEMMA EnterInv == ASSUME IInv, TypeOK', NEW r \in Ranks, Enter(r) PROVE IInv'
<1>0. TypeOK /\ SlotsOK(r) /\ StageOK(r) /\ (~lost => CountsOK(r)) /\ window \in Windows
  BY DEF IInv, TypeOK
<1>1. /\ pc[r] = "out" /\ window' = window /\ wire' = wire /\ rbuf' = rbuf /\ lost' = lost
      /\ call' = [call EXCEPT ![r] = @ + 1] /\ pc' = [pc EXCEPT ![r] = "copy"]
      /\ reqs' = [reqs EXCEPT ![r] = NoRequests] /\ nrreqs' = [nrreqs EXCEPT ![r] = 0]
      /\ nsreqs' = [nsreqs EXCEPT ![r] = 0] /\ ncreqs' = [ncreqs EXCEPT ![r] = 0]
  BY DEF Enter
<1>2. OthersSame(r)
  BY <1>0, <1>1 DEF OthersSame, TypeOK
<1>3. /\ call'[r] = call[r] + 1 /\ pc'[r] = "copy" /\ reqs'[r] = NoRequests
      /\ nrreqs'[r] = 0 /\ nsreqs'[r] = 0 /\ ncreqs'[r] = 0
      /\ call[r] \in Nat
  BY <1>0, <1>1 DEF TypeOK
<1>4. /\ Busy(r)' = {} /\ Pending(r)' = {} /\ Sending(r)' = {}
      /\ Cardinality(Busy(r)') = 0
  BY <1>0, <1>1, <1>3, NothingBusyNext
<1>5. Posted(r)' = {} /\ SentTo(r)' = {} /\ ReceivedFrom(r)' = {}
  BY <1>3 DEF Posted, SentTo, ReceivedFrom
<1>6. Busy(r) = {} /\ nrreqs[r] = N - 1 /\ Pending(r) = {} /\ Sending(r) = {}
  BY <1>0, <1>1, NothingBusy DEF StageOK
<1>7. \A p \in Ranks \ {r} : Received(r, p)' = Received(r, p)
  <2>1. \A p \in Ranks \ {r} : p \in ReceivedFrom(r)
    BY <1>6, AllPeers DEF ReceivedFrom
  <2>. QED BY <1>3, <1>5, <2>1 DEF Received
<1>8. \A p \in Ranks \ {r} : /\ Sent(r, p)' >= Sent(r, p)
                             /\ ~lost' => Sent(r, p)' = Sent(r, p)
  <2>1. \A p \in Ranks \ {r} : Sent(r, p)' = call[r]
    BY <1>3, <1>5 DEF Sent
  <2>2. \A p \in Ranks \ {r} : Sent(r, p) <= call[r]
    BY <1>3 DEF Sent
  <2>3. ~lost => \A p \in Ranks \ {r} : Sent(r, p) = call[r]
    BY <1>0, <1>1, AllPeers DEF CountsOK, Sent
  <2>. QED BY <1>0, <1>1, <2>1, <2>2, <2>3, CountsAreIntegers
<1>9. RankKept(r)
  <2>1. SlotsOK(r)'
    BY <1>3, <1>4 DEF SlotsOK
  <2>2. StageOK(r)'
    BY <1>3, <1>4 DEF StageOK
  <2>3. CountsOK(r)'
    BY <1>3, <1>4 DEF CountsOK, Left
  <2>4. ReceivedInPlace(r)'
    BY <1>5 DEF ReceivedInPlace
  <2>. QED BY <1>7, <2>1, <2>2, <2>3, <2>4 DEF RankKept
<1>. QED BY <1>1, <1>2, <1>6, <1>8, <1>9, QuietInv

LEMMA LocalCopyInv == ASSUME IInv, TypeOK', NEW r \in Ranks, LocalCopy(r) PROVE IInv'
<1>0. /\ TypeOK /\ SlotsOK(r) /\ StageOK(r)
      /\ ~lost => CountsOK(r)
  BY DEF IInv
<1>1. /\ pc[r] = "copy" /\ rbuf' = [rbuf EXCEPT ![r][r] = Block(r, r, call[r])]
      /\ pc' = [pc EXCEPT ![r] = "in"] /\ window' = window /\ call' = call /\ reqs' = reqs
      /\ nrreqs' = nrreqs /\ nsreqs' = nsreqs /\ ncreqs' = ncreqs /\ wire' = wire
      /\ lost' = lost
  BY DEF LocalCopy, counters
<1>2. OthersSame(r)
  BY <1>0, <1>1 DEF OthersSame, TypeOK
<1>3. Busy(r) = {} /\ nrreqs[r] = 0 /\ call[r] > 0
  BY <1>0, <1>1 DEF StageOK
<1>4. Busy(r)' = Busy(r) /\ Pending(r)' = Pending(r) /\ Sending(r)' = Sending(r)
  BY <1>1, SameReqs
<1>5. /\ SlotsOK(r)'
      /\ Posted(r)' = Posted(r) /\ SentTo(r)' = SentTo(r)
  BY <1>0, <1>1, <1>4, SameSlots
<1>6. \A p : Received(r, p)' = Received(r, p) /\ Sent(r, p)' = Sent(r, p)
  BY <1>1, <1>4, <1>5 DEF Received, Sent, ReceivedFrom
<1>7. pc'[r] = "in" /\ rbuf'[r][r] = Block(r, r, call'[r])
  BY <1>0, <1>1 DEF TypeOK
<1>8. StageOK(r)'
  BY <1>1, <1>3, <1>7 DEF StageOK, Block
<1>9. ~lost' => CountsOK(r)'
  <2>1. T' = T /\ Left(r)' = Left(r) /\ (MoreSends(r)' <=> MoreSends(r))
    BY <1>1 DEF T, Left, MoreSends
  <2>. QED BY <1>0, <1>1, <1>4, <1>7, <2>1 DEF CountsOK
<1>10. ReceivedInPlace(r)'
  BY <1>1, <1>3, <1>5 DEF ReceivedInPlace, ReceivedFrom, Posted
<1>11. RankKept(r)
  BY <1>5, <1>6, <1>8, <1>9, <1>10 DEF RankKept
<1>12. \A p \in Ranks \ {r} : Sent(r, p)' >= Sent(r, p)
  BY <1>0, <1>6, CountsAreIntegers
<1>. QED BY <1>1, <1>2, <1>4, <1>6, <1>11, <1>12, QuietInv

\* The two actions that post a receive.
LEMMA RecvInv ==
  ASSUME IInv, TypeOK', NEW r \in Ranks, NEW k \in 0 .. T - 1, window' = window,
         MoreRecvs(r), Irecv(r, k), CanTake(r, k), pc[r] = "in",
         \/ k = nrreqs[r] /\ ncreqs'[r] = 0
         \/ nrreqs[r] >= T /\ nsreqs[r] >= T,
         \A q \in Ranks \ {r} : ncreqs'[q] = ncreqs[q],
         pc' = pc, call' = call, rbuf' = rbuf, lost' = lost
  PROVE  IInv'
<1>0. /\ TypeOK /\ SlotsOK(r) /\ StageOK(r)
      /\ ~lost => CountsOK(r) /\ ReceivedInPlace(r)
  BY DEF IInv
<1>1. /\ reqs' = [reqs EXCEPT ![r][k] = Request(RecvPeer(r, nrreqs[r]), FALSE)]
      /\ nrreqs' = [nrreqs EXCEPT ![r] = @ + 1] /\ nsreqs' = nsreqs /\ wire' = wire
  BY DEF Irecv
<1>2. OthersSame(r)
  BY <1>0, <1>1 DEF OthersSame, TypeOK
<1>3. pc'[r] = "in"
  OBVIOUS
<1>4. /\ SlotsOK(r)' /\ (CountsOK(r) => CountsOK(r)')
      /\ Sending(r)' = Sending(r) /\ SentTo(r)' = SentTo(r)
      /\ ReceivedFrom(r)' = ReceivedFrom(r)
  BY <1>0, <1>3, IrecvInv
<1>5. \A p : Received(r, p)' = Received(r, p) /\ Sent(r, p)' = Sent(r, p)
  BY <1>4 DEF Received, Sent
<1>6. StageOK(r)'
  BY <1>0, <1>3 DEF StageOK, Block
<1>7. ~lost' => ReceivedInPlace(r)'
  BY <1>0, <1>4 DEF ReceivedInPlace, Block
<1>8. RankKept(r)
  BY <1>0, <1>4, <1>5, <1>6, <1>7 DEF RankKept
<1>9. \A p \in Ranks \ {r} : Sent(r, p)' >= Sent(r, p)
  BY <1>0, <1>5, CountsAreIntegers
<1>. QED BY <1>1, <1>2, <1>4, <1>5, <1>8, <1>9, QuietInv

\* The two actions that send a block.
LEMMA SendInv ==
  ASSUME IInv, TypeOK', NEW r \in Ranks, NEW k \in T .. 2 * T - 1, window' = window,
         MoreSends(r), Isend(r, k), CanTake(r, k), pc[r] = "in",
         \/ k = T + nsreqs[r] /\ ncreqs'[r] = 0
         \/ nrreqs[r] >= T /\ nsreqs[r] >= T,
         \A q \in Ranks \ {r} : ncreqs'[q] = ncreqs[q],
         pc' = pc, call' = call, rbuf' = rbuf, lost' = lost
  PROVE  IInv'
<1>0. /\ TypeOK /\ SlotsOK(r) /\ StageOK(r)
      /\ ~lost => CountsOK(r) /\ ReceivedInPlace(r)
  BY DEF IInv
<1>d. PICK d \in Ranks \ {r} : d = SendPeer(r, nsreqs[r])
  BY <1>0, IsendSlots
<1>1. /\ ReceivedFrom(r)' = ReceivedFrom(r)
      /\ SentTo(r)' = SentTo(r) \union {d}
      /\ Sending(r) \subseteq Sending(r)'
      /\ \A q \in Ranks \ {r} : reqs'[q] = reqs[q]
      /\ d \in Ranks \ {r} /\ d \notin SentTo(r)
  BY <1>0, <1>d, IsendSlots
<1>2. PICK p \in Protocols :
        /\ wire' = [wire EXCEPT ![r][d] =
                      Append(@, [block |-> Block(r, d, call[r]), protocol |-> p])]
        /\ p # "eager" => d \in Sending(r)'
  BY <1>0, <1>d, IsendSlots
<1>3. nsreqs' = [nsreqs EXCEPT ![r] = @ + 1] /\ nrreqs' = nrreqs
  BY DEF Isend
<1>4. OthersSame(r)
  BY <1>0, <1>1, <1>3 DEF OthersSame, TypeOK
<1>5. pc'[r] = "in"
  OBVIOUS
<1>6. SlotsOK(r)' /\ (CountsOK(r) => CountsOK(r)')
  BY <1>0, <1>5, IsendInv
<1>7. \A q : Received(r, q)' = Received(r, q)
  BY <1>1 DEF Received
<1>8. StageOK(r)'
  BY <1>0, <1>5 DEF StageOK, Block
<1>9. ~lost' => ReceivedInPlace(r)'
  BY <1>0, <1>1 DEF ReceivedInPlace, Block
<1>10. RankKept(r)
  BY <1>0, <1>6, <1>7, <1>8, <1>9 DEF RankKept
<1>11. /\ \A q \in Ranks : SlotsOK(q)' /\ StageOK(q)'
       /\ ~lost' => \A q \in Ranks : CountsOK(q)' /\ ReceivedInPlace(q)'
       /\ \A q, b \in Ranks : q # b => Received(q, b)' = Received(q, b)
       /\ \A q \in Ranks \ {r}, b \in Ranks : /\ Sent(q, b)' = Sent(q, b)
                                             /\ Sending(q)' = Sending(q)
  BY <1>4, <1>10, RanksInv
<1>12. Sent(r, d) = call[r] - 1 /\ Sent(r, d)' = call[r]
  BY <1>1 DEF Sent
<1>13. \A b : b # d => Sent(r, b)' = Sent(r, b)
  BY <1>1 DEF Sent
<1>14. ASSUME NEW s \in Ranks, NEW b \in Ranks, s # b, ~(s = r /\ b = d)
       PROVE  WireOK(s, b)' /\ (~lost' => InOrder(s, b)')
  <2>1. wire'[s][b] = wire[s][b]
    BY <1>0, <1>2, <1>14 DEF TypeOK
  <2>2. Received(b, s)' = Received(b, s) /\ Sent(s, b)' = Sent(s, b)
        /\ (b \in Sending(s) => b \in Sending(s)')
    BY <1>1, <1>11, <1>13, <1>14
  <2>3. Sent(s, b)' >= Sent(s, b)
    BY <1>0, <2>2, CountsAreIntegers
  <2>4. /\ WireOK(s, b) => WireOK(s, b)'
        /\ InOrder(s, b) => InOrder(s, b)'
    BY <1>0, <2>1, <2>2, <2>3, SameWire
  <2>5. WireOK(s, b) /\ (~lost => InOrder(s, b))
    BY <1>14 DEF IInv
  <2>. QED BY <2>4, <2>5
<1>15. WireOK(r, d)' /\ (~lost' => InOrder(r, d)')
  <2>. DEFINE w == wire[r][d]
              m == [block |-> Block(r, d, call[r]), protocol |-> p]
  <2>1. w \in Seq(Messages) /\ m \in Messages
    <3>1. Block(r, d, call[r]) \in Blocks
      BY <1>0 DEF TypeOK, Blocks, Block
    <3>2. m \in Messages
      BY <1>2, <3>1 DEF Messages
    <3>3. w \in Seq(Messages)
      BY <1>0 DEF TypeOK
    <3>. QED BY <3>2, <3>3
  <2>2. wire'[r][d] = Append(w, m)
    BY <1>0, <1>1, <1>2 DEF TypeOK
  <2>3. m.block = Block(r, d, call[r]) /\ m.protocol = p
    OBVIOUS
  <2>. HIDE DEF w, m
  <2>4. /\ Len(wire'[r][d]) = Len(w) + 1 /\ Len(w) \in Nat
        /\ wire'[r][d][Len(w) + 1] = m
        /\ \A n \in 1 .. Len(w) : wire'[r][d][n] = w[n]
    BY <2>1, <2>2
  <2>5. /\ Received(d, r)' = Received(d, r) /\ Received(d, r) \in Int /\ call[r] \in Int
    BY <1>0, <1>1, <1>11, CountsAreIntegers
  <2>6. /\ Len(w) <= call[r] - 1 - Received(d, r)
        /\ \A n \in 1 .. Len(w) : w[n].protocol # "rndv"
    <3>1. WireOK(r, d)
      BY <1>1 DEF IInv
    <3>2. d \notin Sending(r)
      BY <1>0, <1>1, BusyPeers
    <3>. QED BY <1>12, <3>1, <3>2 DEF WireOK, w
  <2>7. ASSUME NEW n \in 1 .. Len(wire'[r][d]), wire'[r][d][n].protocol = "rndv"
        PROVE  n = Len(wire'[r][d]) /\ d \in Sending(r)'
    <3>1. n = Len(w) + 1
      BY <2>4, <2>6, <2>7
    <3>2. p = "rndv"
      BY <2>3, <2>4, <2>7, <3>1
    <3>. QED BY <1>2, <2>4, <3>1, <3>2
  <2>8. WireOK(r, d)'
    BY <1>12, <2>4, <2>5, <2>6, <2>7 DEF WireOK
  <2>9. ASSUME ~lost PROVE InOrder(r, d)'
    <3>1. /\ Len(w) = call[r] - 1 - Received(d, r)
          /\ \A n \in 1 .. Len(w) : w[n].block = Block(r, d, Received(d, r) + n)
      BY <1>1, <1>12, <2>9 DEF IInv, InOrder, w
    <3>2. Len(wire'[r][d]) = Sent(r, d)' - Received(d, r)'
      BY <1>12, <2>4, <2>5, <3>1
    <3>3. ASSUME NEW n \in 1 .. Len(wire'[r][d])
          PROVE  wire'[r][d][n].block = Block(r, d, Received(d, r)' + n)
      <4>1. CASE n \in 1 .. Len(w)
        BY <2>4, <2>5, <3>1, <4>1
      <4>2. CASE n = Len(w) + 1
        <5>1. Received(d, r)' + n = call[r]
          BY <2>4, <2>5, <3>1, <4>2
        <5>. QED BY <2>3, <2>4, <4>2, <5>1
      <4>. QED BY <2>4, <4>1, <4>2
    <3>. QED BY <3>2, <3>3 DEF InOrder, Block
  <2>. QED BY <2>8, <2>9
<1>16. \A q \in Ranks : wire'[q][q] = <<>>
  <2>1. \A q \in Ranks : wire'[q][q] = wire[q][q]
    BY <1>0, <1>2 DEF TypeOK
  <2>. QED BY <2>1 DEF IInv
<1>. QED BY <1>11, <1>14, <1>15, <1>16 DEF IInv

LEMMA PostRecvInv == ASSUME IInv, TypeOK', NEW r \in Ranks, PostRecv(r) PROVE IInv'
<1>0. TypeOK /\ SlotsOK(r)
  BY DEF IInv
<1>1. /\ pc[r] = "in" /\ nrreqs[r] < T /\ Irecv(r, nrreqs[r]) /\ window' = window
      /\ pc' = pc /\ call' = call /\ ncreqs' = ncreqs /\ rbuf' = rbuf /\ lost' = lost
  BY DEF PostRecv
<1>2. nrreqs[r] \in 0 .. T - 1 /\ MoreRecvs(r)
  BY <1>0, <1>1, WindowBounds, NAssumption DEF TypeOK, MoreRecvs
<1>3. ncreqs[r] = 0
  BY <1>0, <1>1 DEF SlotsOK
<1>4. nrreqs[r] \notin Busy(r)
  <2>1. nrreqs[r] \in Busy(r) => nrreqs[r] < nrreqs[r]
    BY <1>0, <1>1 DEF SlotsOK
  <2>. QED BY <1>2, <2>1
<1>5. CanTake(r, nrreqs[r])
  BY <1>1, <1>3, <1>4 DEF CanTake
<1>. QED BY <1>1, <1>2, <1>3, <1>5, RecvInv

LEMMA PostSendInv == ASSUME IInv, TypeOK', NEW r \in Ranks, PostSend(r) PROVE IInv'
<1>0. TypeOK /\ SlotsOK(r)
  BY DEF IInv
<1>1. /\ pc[r] = "in" /\ nsreqs[r] < T /\ Isend(r, T + nsreqs[r]) /\ window' = window
      /\ pc' = pc /\ call' = call /\ ncreqs' = ncreqs /\ rbuf' = rbuf /\ lost' = lost
  BY DEF PostSend
<1>. DEFINE k == T + nsreqs[r]
<1>2. k \in T .. 2 * T - 1 /\ ~(k < T) /\ k - T = nsreqs[r] /\ nsreqs[r] \in Nat
      /\ MoreSends(r)
  BY <1>0, <1>1, WindowBounds, NAssumption DEF TypeOK, MoreSends
<1>. HIDE DEF k
<1>3. ncreqs[r] = 0
  BY <1>0, <1>1 DEF SlotsOK
<1>4. k \notin Busy(r)
  <2>1. k \in Busy(r) => k - T < nsreqs[r]
    BY <1>0, <1>2 DEF SlotsOK
  <2>. QED BY <1>2, <2>1
<1>5. CanTake(r, k)
  BY <1>1, <1>3, <1>4 DEF CanTake
<1>6. Isend(r, k) /\ k = T + nsreqs[r]
  BY <1>1 DEF k
<1>. QED BY <1>1, <1>2, <1>3, <1>5, <1>6, SendInv

\* A slot that wait_any returns can be taken.
LEMMA CompletedCanTake ==
  ASSUME TypeOK, NEW r \in Ranks, SlotsOK(r), NEW k \in Slots, Completed(r, k), Count(r)
  PROVE  /\ CanTake(r, k) /\ k \in Busy(r) /\ reqs[r][k].done
         /\ ncreqs'[r] = ncreqs[r] + 1
         /\ \A q \in Ranks \ {r} : ncreqs'[q] = ncreqs[q]
<1>1. k \in Busy(r) /\ reqs[r][k].done
  BY BusyPeers DEF Completed
<1>2. ncreqs'[r] = ncreqs[r] + 1 /\ \A q \in Ranks \ {r} : ncreqs'[q] = ncreqs[q]
  BY DEF Count, TypeOK
<1>. QED BY <1>1, <1>2 DEF CanTake

LEMMA ReplaceRecvInv == ASSUME IInv, TypeOK', NEW r \in Ranks, ReplaceRecv(r) PROVE IInv'
<1>0. TypeOK /\ SlotsOK(r)
  BY DEF IInv
<1>1. /\ pc[r] = "in" /\ nrreqs[r] >= T /\ nsreqs[r] >= T /\ MoreRecvs(r) /\ Count(r)
      /\ window' = window /\ pc' = pc /\ call' = call /\ rbuf' = rbuf /\ lost' = lost
  BY DEF ReplaceRecv, InLoop, Waiting
<1>2. PICK k \in 0 .. T - 1 : Completed(r, k) /\ Irecv(r, k)
  BY DEF ReplaceRecv
<1>3. k \in Slots
  BY <1>0, WindowBounds DEF TypeOK
<1>4. CanTake(r, k) /\ \A q \in Ranks \ {r} : ncreqs'[q] = ncreqs[q]
  BY <1>0, <1>1, <1>2, <1>3, CompletedCanTake
<1>. QED BY <1>1, <1>2, <1>4, RecvInv

LEMMA ReplaceSendInv == ASSUME IInv, TypeOK', NEW r \in Ranks, ReplaceSend(r) PROVE IInv'
<1>0. TypeOK /\ SlotsOK(r)
  BY DEF IInv
<1>1. /\ pc[r] = "in" /\ nrreqs[r] >= T /\ nsreqs[r] >= T /\ MoreSends(r) /\ Count(r)
      /\ window' = window /\ pc' = pc /\ call' = call /\ rbuf' = rbuf /\ lost' = lost
  BY DEF ReplaceSend, InLoop, Waiting
<1>2. PICK k \in T .. 2 * T - 1 : Completed(r, k) /\ Isend(r, k)
  BY DEF ReplaceSend
<1>3. k \in Slots
  BY <1>0, WindowBounds DEF TypeOK
<1>4. CanTake(r, k) /\ \A q \in Ranks \ {r} : ncreqs'[q] = ncreqs[q]
  BY <1>0, <1>1, <1>2, <1>3, CompletedCanTake
<1>. QED BY <1>1, <1>2, <1>4, SendInv

LEMMA RetireInv == ASSUME IInv, TypeOK', NEW r \in Ranks, Retire(r) PROVE IInv'
<1>0. /\ TypeOK /\ SlotsOK(r) /\ StageOK(r)
      /\ ~lost => CountsOK(r) /\ ReceivedInPlace(r)
  BY DEF IInv
<1>1. /\ pc[r] = "in" /\ nrreqs[r] >= T /\ nsreqs[r] >= T /\ Count(r) /\ T < N - 1
      /\ window' = window /\ pc' = pc /\ call' = call /\ rbuf' = rbuf /\ lost' = lost
      /\ nrreqs' = nrreqs /\ nsreqs' = nsreqs /\ wire' = wire
  BY DEF Retire, InLoop, Waiting
<1>2. PICK k \in Slots : /\ Completed(r, k)
                         /\ IF k < T THEN ~MoreRecvs(r) ELSE ~MoreSends(r)
                         /\ reqs' = [reqs EXCEPT ![r][k] = Null]
  BY DEF Retire
<1>3. /\ k \in Busy(r) /\ reqs[r][k].done
      /\ ncreqs'[r] = ncreqs[r] + 1
      /\ \A q \in Ranks \ {r} : ncreqs'[q] = ncreqs[q]
  BY <1>0, <1>1, <1>2, CompletedCanTake
<1>v. /\ reqs' = [reqs EXCEPT ![r][k] = Null]
      /\ window' = window /\ pc' = pc /\ call' = call /\ rbuf' = rbuf
      /\ nrreqs' = nrreqs /\ nsreqs' = nsreqs
  BY <1>1, <1>2
<1>4. OthersSame(r)
  <2>1. \A q \in Ranks \ {r} : reqs'[q] = reqs[q]
    BY <1>0, <1>v DEF TypeOK
  <2>. QED BY <1>3, <1>v, <2>1 DEF OthersSame
<1>5. /\ Busy(r)' = Busy(r) \ {k}
      /\ Cardinality(Busy(r)') = Cardinality(Busy(r)) - 1
      /\ Cardinality(Busy(r)) \in Nat
      /\ Pending(r)' = Pending(r) /\ Sending(r)' = Sending(r)
      /\ \A j \in Busy(r)' : reqs'[r][j] = reqs[r][j]
  BY <1>0, <1>3, <1>v, VacateSlots
<1>6. /\ T' = T /\ Posted(r)' = Posted(r) /\ SentTo(r)' = SentTo(r)
      /\ (MoreRecvs(r)' <=> MoreRecvs(r)) /\ (MoreSends(r)' <=> MoreSends(r))
  BY <1>1 DEF T, Posted, SentTo, MoreRecvs, MoreSends
<1>7. Left(r)' = Left(r) - 1 /\ Left(r) \in Int
  <2>1. nrreqs[r] \in Int /\ nsreqs[r] \in Int /\ ncreqs[r] \in Int
    BY <1>0 DEF TypeOK
  <2>. QED BY <1>3, <1>v, <2>1 DEF Left
<1>8. T \in Nat /\ k \in Int
  BY <1>0, WindowBounds DEF TypeOK
<1>9. SlotsOK(r)'
  <2>1. Cardinality(Busy(r)') <= Left(r)'
    <3>1. Busy(r) = {} \/ Cardinality(Busy(r)) <= Left(r)
      BY <1>0 DEF SlotsOK
    <3>2. Busy(r) # {}
      BY <1>3
    <3>. QED BY <1>5, <1>7, <3>1, <3>2
  <2>2. MoreRecvs(r)' => \A j \in 0 .. T - 1 : j < nrreqs'[r] => j \in Busy(r)'
    <3>. SUFFICES ASSUME MoreRecvs(r), NEW j \in 0 .. T - 1, j < nrreqs[r]
                  PROVE  j \in Busy(r)'
      BY <1>1, <1>6
    <3>1. j \in Busy(r)
      BY <1>0 DEF SlotsOK
    <3>2. j # k
      BY <1>2, <1>8
    <3>. QED BY <1>5, <3>1, <3>2
  <2>3. ~(nrreqs'[r] < T) /\ ~(nsreqs'[r] < T)
    BY <1>0, <1>1, <1>8 DEF TypeOK
  <2>4. \A j \in Busy(r)' :
          IF j < T THEN j < nrreqs'[r] /\ reqs'[r][j].peer \in Posted(r)'
                   ELSE j - T < nsreqs'[r] /\ reqs'[r][j].peer \in SentTo(r)'
    BY <1>0, <1>1, <1>5, <1>6 DEF SlotsOK
  <2>5. \A i, j \in Busy(r)' : i # j /\ (i < T <=> j < T)
                               => reqs'[r][i].peer # reqs'[r][j].peer
    BY <1>0, <1>5 DEF SlotsOK
  <2>. QED BY <1>6, <2>1, <2>2, <2>3, <2>4, <2>5 DEF SlotsOK
<1>10. ~lost' => CountsOK(r)'
  <2>. SUFFICES ASSUME ~lost PROVE CountsOK(r)'
    BY <1>1
  <2>1. Cardinality(Busy(r)') = Left(r)'
    BY <1>0, <1>1, <1>5, <1>7 DEF CountsOK
  <2>2. ASSUME MoreSends(r), NEW j \in 0 .. T - 1, j < nsreqs[r]
        PROVE  T + j \in Busy(r)'
    <3>1. T + j \in Busy(r)
      BY <1>0, <2>2 DEF CountsOK
    <3>2. T + j # k
      BY <1>2, <1>8, <2>2
    <3>. QED BY <1>5, <3>1, <3>2
  <2>. QED BY <1>1, <1>6, <2>1, <2>2 DEF CountsOK
<1>11. \A p : Received(r, p)' = Received(r, p) /\ Sent(r, p)' = Sent(r, p)
  BY <1>1, <1>5, <1>6 DEF Received, Sent, ReceivedFrom
<1>12. StageOK(r)'
  BY <1>0, <1>1 DEF StageOK, Block
<1>13. ~lost' => ReceivedInPlace(r)'
  BY <1>0, <1>1, <1>5, <1>6 DEF ReceivedInPlace, ReceivedFrom, Block
<1>14. RankKept(r)
  BY <1>9, <1>10, <1>11, <1>12, <1>13 DEF RankKept
<1>15. \A p \in Ranks \ {r} : Sent(r, p)' >= Sent(r, p)
  BY <1>0, <1>11, CountsAreIntegers
<1>. QED BY <1>1, <1>4, <1>5, <1>11, <1>14, <1>15, QuietInv

LEMMA WaitAllInv == ASSUME IInv, TypeOK', NEW r \in Ranks, WaitAll(r) PROVE IInv'
<1>0. /\ TypeOK /\ SlotsOK(r) /\ StageOK(r) /\ window \in Windows
      /\ ~lost => ReceivedInPlace(r)
  BY DEF IInv, TypeOK
<1>1. /\ pc[r] = "in" /\ nrreqs[r] >= T /\ nsreqs[r] >= T /\ T = N - 1
      /\ \A k \in Slots : reqs[r][k].done
      /\ reqs' = [reqs EXCEPT ![r] = NoRequests] /\ pc' = [pc EXCEPT ![r] = "out"]
      /\ window' = window /\ call' = call /\ rbuf' = rbuf /\ lost' = lost
      /\ nrreqs' = nrreqs /\ nsreqs' = nsreqs /\ ncreqs' = ncreqs /\ wire' = wire
  BY DEF WaitAll, Waiting, counters
<1>2. OthersSame(r)
  BY <1>0, <1>1 DEF OthersSame, TypeOK
<1>3. reqs'[r] = NoRequests /\ pc'[r] = "out"
  BY <1>0, <1>1 DEF TypeOK
<1>4. nrreqs[r] = N - 1 /\ nsreqs[r] = N - 1
  BY <1>0, <1>1, NAssumption DEF TypeOK
<1>5. Busy(r)' = {} /\ Pending(r)' = {}
  BY <1>0, <1>1, <1>3, NothingBusyNext
<1>6. Pending(r) = {} /\ Sending(r) = {}
  BY <1>0, <1>1, WindowBounds DEF Pending, Sending, Outstanding
<1>7. T' = T /\ Posted(r)' = Posted(r) /\ SentTo(r)' = SentTo(r)
  BY <1>1 DEF T, Posted, SentTo
<1>8. ~MoreRecvs(r)' /\ ~MoreSends(r)'
  BY <1>1, <1>4, NAssumption DEF MoreRecvs, MoreSends
<1>9. \A p : Received(r, p)' = Received(r, p) /\ Sent(r, p)' = Sent(r, p)
  BY <1>1, <1>5, <1>6, <1>7 DEF Received, Sent, ReceivedFrom
<1>10. SlotsOK(r)'
  <2>1. ~(nrreqs'[r] < T) /\ ~(nsreqs'[r] < T)
    BY <1>1, <1>4, NAssumption
  <2>. QED BY <1>5, <1>7, <1>8, <2>1 DEF SlotsOK
<1>11. StageOK(r)'
  BY <1>0, <1>1, <1>3, <1>4, <1>5 DEF StageOK, Block
<1>12. CountsOK(r)'
  <2>1. ~(T < N - 1)
    BY <1>1, NAssumption
  <2>. QED BY <1>1, <1>4, <1>7, <1>8, <2>1 DEF CountsOK
<1>13. ~lost' => ReceivedInPlace(r)'
  BY <1>0, <1>1, <1>5, <1>6, <1>7 DEF ReceivedInPlace, ReceivedFrom, Block
<1>14. RankKept(r)
  BY <1>9, <1>10, <1>11, <1>12, <1>13 DEF RankKept
<1>15. \A p \in Ranks \ {r} : Sent(r, p)' >= Sent(r, p)
  BY <1>0, <1>9, CountsAreIntegers
<1>. QED BY <1>1, <1>2, <1>6, <1>9, <1>14, <1>15, QuietInv

\* The loop does not end before the last completion of each request, of those
\* for the receives at least.
LEMMA AtReturn ==
  ASSUME IInv, NEW r \in Ranks, Return(r)
  PROVE  /\ Busy(r) = {} /\ nrreqs[r] = N - 1
         /\ ~lost => nsreqs[r] = N - 1
<1>0. /\ TypeOK /\ SlotsOK(r) /\ window \in Windows
      /\ ~lost => CountsOK(r)
  BY DEF IInv, TypeOK
<1>1. nrreqs[r] >= T /\ nsreqs[r] >= T /\ T < N - 1 /\ ncreqs[r] = 2 * (N - 1)
  BY DEF Return, Waiting
<1>2. T \in Nat /\ T >= 1
  BY <1>0, <1>1, WindowBounds
<1>3. /\ nrreqs[r] \in Nat /\ nrreqs[r] <= N - 1
      /\ nsreqs[r] \in Nat /\ nsreqs[r] <= N - 1 /\ N \in Nat
  BY <1>0, NAssumption DEF TypeOK
<1>4. Cardinality(Busy(r)) \in Nat /\ (Cardinality(Busy(r)) = 0 <=> Busy(r) = {})
  BY <1>0, BusyFinite
<1>5. Left(r) = nrreqs[r] + nsreqs[r] - 2 * (N - 1)
  BY <1>1 DEF Left
<1>6. Busy(r) = {}
  <2>1. Busy(r) = {} \/ Cardinality(Busy(r)) <= Left(r)
    BY <1>0 DEF SlotsOK
  <2>. QED BY <1>3, <1>4, <1>5, <2>1
<1>7. nrreqs[r] = N - 1
  <2>1. MoreRecvs(r) => 0 \in Busy(r)
    BY <1>0, <1>1, <1>2, <1>3 DEF SlotsOK
  <2>2. ~MoreRecvs(r)
    BY <1>6, <2>1
  <2>. QED BY <1>3, <2>2 DEF MoreRecvs
<1>8. ~lost => nsreqs[r] = N - 1
  <2>1. ~lost => Left(r) = 0
    BY <1>0, <1>1, <1>4, <1>6 DEF CountsOK
  <2>. QED BY <1>3, <1>5, <1>7, <2>1
<1>. QED BY <1>6, <1>7, <1>8

\* A step that moves a rank along and leaves its requests.
LEMMA StageInv ==
  ASSUME IInv, TypeOK', NEW r \in Ranks, NEW stage,
         pc' = [pc EXCEPT ![r] = stage], pc[r] = "in", stage \in {"out", "failed", "crashed"},
         stage = "out" => /\ Busy(r) = {} /\ nrreqs[r] = N - 1
                          /\ ~lost => nsreqs[r] = N - 1,
         window' = window, call' = call, reqs' = reqs, nrreqs' = nrreqs, nsreqs' = nsreqs,
         ncreqs' = ncreqs, rbuf' = rbuf, wire' = wire, lost' = lost
  PROVE  IInv'
<1>0. /\ TypeOK /\ SlotsOK(r) /\ StageOK(r)
      /\ ~lost => CountsOK(r) /\ ReceivedInPlace(r)
  BY DEF IInv
<1>1. OthersSame(r)
  BY <1>0 DEF OthersSame, TypeOK
<1>2. Busy(r)' = Busy(r) /\ Pending(r)' = Pending(r) /\ Sending(r)' = Sending(r)
  BY SameReqs
<1>3. SlotsOK(r)' /\ Posted(r)' = Posted(r) /\ SentTo(r)' = SentTo(r)
  BY <1>0, <1>2, SameSlots
<1>4. \A p : Received(r, p)' = Received(r, p) /\ Sent(r, p)' = Sent(r, p)
  BY <1>2, <1>3 DEF Received, Sent, ReceivedFrom
<1>5. pc'[r] = stage
  BY <1>0 DEF TypeOK
<1>6. StageOK(r)'
  BY <1>0, <1>2, <1>5 DEF StageOK, Block
<1>7. ~lost' => CountsOK(r)'
  <2>1. T' = T /\ Left(r)' = Left(r) /\ (MoreSends(r)' <=> MoreSends(r))
    BY DEF T, Left, MoreSends
  <2>. QED BY <1>0, <1>2, <1>5, <2>1 DEF CountsOK
<1>8. ~lost' => ReceivedInPlace(r)'
  BY <1>0, <1>2, <1>3 DEF ReceivedInPlace, ReceivedFrom, Block
<1>9. RankKept(r)
  BY <1>3, <1>4, <1>6, <1>7, <1>8 DEF RankKept
<1>10. \A p \in Ranks \ {r} : Sent(r, p)' >= Sent(r, p)
  BY <1>0, <1>4, CountsAreIntegers
<1>. QED BY <1>1, <1>2, <1>4, <1>9, <1>10, QuietInv

LEMMA ReturnInv == ASSUME IInv, TypeOK', NEW r \in Ranks, Return(r) PROVE IInv'
<1>1. /\ Busy(r) = {} /\ nrreqs[r] = N - 1
      /\ ~lost => nsreqs[r] = N - 1
  BY AtReturn
<1>2. /\ pc' = [pc EXCEPT ![r] = "out"] /\ pc[r] = "in"
      /\ window' = window /\ call' = call /\ reqs' = reqs /\ nrreqs' = nrreqs
      /\ nsreqs' = nsreqs /\ ncreqs' = ncreqs /\ rbuf' = rbuf /\ wire' = wire
      /\ lost' = lost
  BY DEF Return, Waiting, counters
<1>. QED BY <1>1, <1>2, StageInv

LEMMA FailInv == ASSUME IInv, TypeOK', NEW r \in Ranks, Fail(r) PROVE IInv'
<1>1. /\ pc' = [pc EXCEPT ![r] = "failed"] /\ pc[r] = "in"
      /\ window' = window /\ call' = call /\ reqs' = reqs /\ nrreqs' = nrreqs
      /\ nsreqs' = nsreqs /\ ncreqs' = ncreqs /\ rbuf' = rbuf /\ wire' = wire
      /\ lost' = lost
  BY DEF Fail, counters
<1>. QED BY <1>1, StageInv

\* The slot of a send that is complete takes the request of one that failed.
LEMMA LoseSlots ==
  ASSUME TypeOK, TypeOK', NEW r \in Ranks, NEW k \in T .. 2 * T - 1, window' = window,
         SlotsOK(r), k \in Busy(r), reqs[r][k].done, MoreSends(r), NEW q,
         q \in {Null, Request(SendPeer(r, nsreqs[r]), FALSE)},
         reqs' = [reqs EXCEPT ![r][k] = q]
  PROVE  /\ Busy(r)' \subseteq Busy(r)
         /\ \A j \in 0 .. T - 1 : j \in Busy(r) => j \in Busy(r)'
         /\ Cardinality(Busy(r)') <= Cardinality(Busy(r))
         /\ Cardinality(Busy(r)) \in Nat
         /\ Pending(r)' = Pending(r) /\ Sending(r) \subseteq Sending(r)'
         /\ k \in Busy(r)' => reqs'[r][k].peer = SendPeer(r, nsreqs[r])
         /\ \A j \in Busy(r)' : j # k => reqs'[r][j] = reqs[r][j]
         /\ SendPeer(r, nsreqs[r]) \notin SentTo(r)
<1>. DEFINE d == SendPeer(r, nsreqs[r])
<1>0. T' = T /\ Slots' = Slots /\ k \in Slots /\ ~(k < T)
  BY WindowBounds DEF T, Slots, TypeOK
<1>1. nsreqs[r] \in 0 .. N - 2
  BY NAssumption DEF TypeOK, MoreSends
<1>2. d \in Ranks
  BY <1>1, PeersAreOthers
<1>3. d \notin SentTo(r)
  <2>1. \A n \in 0 .. nsreqs[r] - 1 : n \in 0 .. N - 2 /\ n # nsreqs[r]
    BY <1>1, NAssumption
  <2>. QED BY <1>1, <2>1, PeersDiffer DEF SentTo
<1>4. /\ reqs'[r][k] = q
      /\ \A j \in Slots \ {k} : reqs'[r][j] = reqs[r][j]
  BY <1>0 DEF TypeOK
<1>5. q = Null \/ q.peer = d
  BY <1>2, RequestType
<1>. HIDE DEF d
<1>6. /\ Busy(r)' \subseteq Busy(r)
      /\ \A j \in Busy(r) : j # k => j \in Busy(r)'
      /\ \A j \in Busy(r)' : j # k => reqs'[r][j] = reqs[r][j]
  BY <1>0, <1>4 DEF Busy
<1>7. k \in Busy(r)' => reqs'[r][k].peer = d
  BY <1>4, <1>5 DEF Busy
<1>8. Cardinality(Busy(r)') <= Cardinality(Busy(r)) /\ Cardinality(Busy(r)) \in Nat
  <2>1. IsFiniteSet(Busy(r)) /\ Cardinality(Busy(r)) \in Nat
    BY BusyFinite
  <2>2. \A S \in SUBSET Busy(r) : Cardinality(S) <= Cardinality(Busy(r))
    BY <2>1, FS_Subset
  <2>. QED BY <1>6, <2>1, <2>2
<1>9. \A j : j \in 0 .. T - 1 \/ j \in T .. 2 * T - 1 => j \in Slots
  BY WindowBounds DEF TypeOK
<1>10. \A j \in 0 .. T - 1 : j # k
  BY <1>0, WindowBounds DEF TypeOK
<1>11. Pending(r)' = Pending(r)
  <2>1. Pending(r)' = {p \in Ranks : \E j \in 0 .. T - 1 : Outstanding(reqs'[r][j], p)}
    BY <1>0 DEF Pending, Outstanding
  <2>. QED BY <1>4, <1>9, <1>10, <2>1 DEF Pending
<1>12. Sending(r) \subseteq Sending(r)'
  <2>1. Sending(r)' = {p \in Ranks : \E j \in T .. 2 * T - 1 : Outstanding(reqs'[r][j], p)}
    BY <1>0 DEF Sending, Outstanding
  <2>2. \A p : ~Outstanding(reqs[r][k], p)
    BY DEF Outstanding
  <2>. QED BY <1>4, <1>9, <2>1, <2>2 DEF Sending
<1>. QED BY <1>3, <1>6, <1>7, <1>8, <1>10, <1>11, <1>12 DEF d

LEMMA LoseSendInv == ASSUME IInv, TypeOK', NEW r \in Ranks, LoseSend(r) PROVE IInv'
<1>0. TypeOK /\ SlotsOK(r) /\ StageOK(r)
  BY DEF IInv
<1>1. /\ pc[r] = "in" /\ nrreqs[r] >= T /\ nsreqs[r] >= T /\ Count(r) /\ MoreSends(r)
      /\ window' = window /\ pc' = pc /\ call' = call /\ rbuf' = rbuf /\ lost' = TRUE
      /\ nrreqs' = nrreqs /\ nsreqs' = [nsreqs EXCEPT ![r] = @ + 1] /\ wire' = wire
  BY DEF LoseSend, InLoop, Waiting
<1>2. PICK k \in T .. 2 * T - 1, q \in {Null, Request(SendPeer(r, nsreqs[r]), FALSE)} :
        Completed(r, k) /\ reqs' = [reqs EXCEPT ![r][k] = q]
  BY DEF LoseSend
<1>d. PICK d : d = SendPeer(r, nsreqs[r])
  OBVIOUS
<1>3. T \in Nat /\ k \in Slots /\ k \in Nat /\ ~(k < T) /\ k - T < T
  BY <1>0, WindowBounds DEF TypeOK
<1>4. /\ k \in Busy(r) /\ reqs[r][k].done
      /\ ncreqs'[r] = ncreqs[r] + 1
      /\ \A p \in Ranks \ {r} : ncreqs'[p] = ncreqs[p]
  BY <1>0, <1>1, <1>2, <1>3, CompletedCanTake
<1>5. /\ Busy(r)' \subseteq Busy(r)
      /\ \A j \in 0 .. T - 1 : j \in Busy(r) => j \in Busy(r)'
      /\ Cardinality(Busy(r)') <= Cardinality(Busy(r))
      /\ Cardinality(Busy(r)) \in Nat
      /\ Pending(r)' = Pending(r) /\ Sending(r) \subseteq Sending(r)'
      /\ k \in Busy(r)' => reqs'[r][k].peer = d
      /\ \A j \in Busy(r)' : j # k => reqs'[r][j] = reqs[r][j]
      /\ d \notin SentTo(r)
  BY <1>0, <1>1, <1>2, <1>4, <1>d, LoseSlots
<1>6. OthersSame(r)
  <2>1. \A p \in Ranks \ {r} : reqs'[p] = reqs[p] /\ nsreqs'[p] = nsreqs[p]
    BY <1>0, <1>1, <1>2 DEF TypeOK
  <2>. QED BY <1>1, <1>4, <2>1 DEF OthersSame
<1>7. /\ nsreqs'[r] = nsreqs[r] + 1 /\ nsreqs[r] \in Nat /\ nrreqs[r] \in Nat
      /\ ncreqs[r] \in Nat
  BY <1>0, <1>1 DEF TypeOK
<1>8. /\ T' = T /\ Posted(r)' = Posted(r)
      /\ (MoreRecvs(r)' <=> MoreRecvs(r))
  BY <1>1 DEF T, Posted, MoreRecvs
<1>9. SentTo(r)' = SentTo(r) \union {d}
  <2>1. 0 .. nsreqs'[r] - 1 = (0 .. nsreqs[r] - 1) \union {nsreqs[r]}
    BY <1>7
  <2>. QED BY <1>d, <2>1 DEF SentTo
<1>10. Left(r)' = Left(r)
  BY <1>1, <1>4, <1>7 DEF Left
<1>11. \A p : Received(r, p)' = Received(r, p)
  BY <1>1, <1>5, <1>8 DEF Received, ReceivedFrom
<1>12. \A p \in Ranks \ {r} : Sent(r, p)' >= Sent(r, p)
  <2>1. call[r] \in Int
    BY <1>0 DEF TypeOK
  <2>. QED BY <1>1, <1>9, <2>1 DEF Sent
<1>13. SlotsOK(r)'
  <2>1. Cardinality(Busy(r)') <= Left(r)'
    <3>1. Busy(r) = {} \/ Cardinality(Busy(r)) <= Left(r)
      BY <1>0 DEF SlotsOK
    <3>2. Busy(r) # {}
      BY <1>4
    <3>3. Left(r) \in Int
      BY <1>7 DEF Left
    <3>4. Cardinality(Busy(r)') \in Nat
      <4>1. IsFiniteSet(Busy(r))
        BY <1>0, BusyFinite
      <4>2. \A S \in SUBSET Busy(r) : IsFiniteSet(S)
        BY <4>1, FS_Subset
      <4>3. IsFiniteSet(Busy(r)')
        BY <1>5, <4>2
      <4>. QED BY <4>3, FS_CardinalityType
    <3>. QED BY <1>5, <1>10, <3>1, <3>2, <3>3, <3>4
  <2>2. MoreRecvs(r)' => \A j \in 0 .. T - 1 : j < nrreqs'[r] => j \in Busy(r)'
    BY <1>0, <1>1, <1>5, <1>8 DEF SlotsOK
  <2>3. ~(nrreqs'[r] < T) /\ ~(nsreqs'[r] < T)
    BY <1>1, <1>3, <1>7
  <2>4. \A j \in Busy(r)' :
          IF j < T THEN j < nrreqs'[r] /\ reqs'[r][j].peer \in Posted(r)'
                   ELSE j - T < nsreqs'[r] /\ reqs'[r][j].peer \in SentTo(r)'
    <3>. SUFFICES ASSUME NEW j \in Busy(r)'
                  PROVE  IF j < T THEN j < nrreqs'[r] /\ reqs'[r][j].peer \in Posted(r)'
                                  ELSE j - T < nsreqs'[r] /\ reqs'[r][j].peer \in SentTo(r)'
      OBVIOUS
    <3>1. CASE j = k
      BY <1>1, <1>3, <1>5, <1>7, <1>9, <3>1
    <3>2. CASE j # k
      <4>1. j \in Busy(r) /\ reqs'[r][j] = reqs[r][j]
        BY <1>5, <3>2
      <4>2. IF j < T THEN j < nrreqs[r] /\ reqs[r][j].peer \in Posted(r)
                     ELSE j - T < nsreqs[r] /\ reqs[r][j].peer \in SentTo(r)
        BY <1>0, <4>1 DEF SlotsOK
      <4>3. j \in Int
        BY <1>0, <4>1, WindowBounds DEF TypeOK, Busy
      <4>. QED BY <1>1, <1>3, <1>7, <1>8, <1>9, <4>1, <4>2, <4>3
    <3>. QED BY <3>1, <3>2
  <2>5. \A i, j \in Busy(r)' : i # j /\ (i < T <=> j < T)
                               => reqs'[r][i].peer # reqs'[r][j].peer
    <3>1. ASSUME NEW j \in Busy(r), j # k, ~(j < T), j \in Busy(r)'
          PROVE  reqs'[r][j].peer # d
      BY <1>0, <1>5, <3>1 DEF SlotsOK
    <3>2. ASSUME NEW i \in Busy(r)', NEW j \in Busy(r)', i # k, j # k, i # j,
                 i < T <=> j < T
          PROVE  reqs'[r][i].peer # reqs'[r][j].peer
      BY <1>0, <1>5, <3>2 DEF SlotsOK
    <3>. QED BY <1>3, <1>5, <3>1, <3>2
  <2>. QED BY <1>8, <2>1, <2>2, <2>3, <2>4, <2>5 DEF SlotsOK
<1>14. StageOK(r)'
  BY <1>0, <1>1 DEF StageOK, Block
<1>15. RankKept(r)
  BY <1>1, <1>11, <1>13, <1>14 DEF RankKept
<1>. QED BY <1>1, <1>5, <1>6, <1>12, <1>15, QuietInv

\* As long as every error is looked at, the loop has a request to wait for.
LEMMA LoopHasRequests ==
  ASSUME IInv, ~lost, NEW r \in Ranks, InLoop(r) PROVE Busy(r) # {}
<1>0. TypeOK /\ SlotsOK(r) /\ CountsOK(r)
  BY DEF IInv
<1>1. nrreqs[r] >= T /\ nsreqs[r] >= T /\ T < N - 1 /\ ncreqs[r] < 2 * (N - 1)
  BY DEF InLoop, Waiting
<1>2. T \in Nat /\ T >= 1
  BY <1>0, <1>1, WindowBounds DEF TypeOK
<1>3. /\ nrreqs[r] \in Nat /\ nrreqs[r] <= N - 1 /\ nsreqs[r] \in Nat
      /\ nsreqs[r] <= N - 1 /\ N \in Nat /\ ncreqs[r] \in Nat
  BY <1>0, NAssumption DEF TypeOK
<1>4. CASE MoreRecvs(r)
  <2>1. 0 \in Busy(r)
    BY <1>0, <1>1, <1>2, <1>3, <1>4 DEF SlotsOK
  <2>. QED BY <2>1
<1>5. CASE MoreSends(r)
  <2>1. T + 0 \in Busy(r)
    BY <1>0, <1>1, <1>2, <1>3, <1>5 DEF CountsOK
  <2>. QED BY <2>1
<1>6. CASE ~MoreRecvs(r) /\ ~MoreSends(r)
  <2>1. Cardinality(Busy(r)) = Left(r)
    BY <1>0, <1>1 DEF CountsOK
  <2>2. Left(r) > 0
    BY <1>1, <1>3, <1>6 DEF Left, MoreRecvs, MoreSends
  <2>3. Cardinality({}) = 0
    BY FS_EmptySet
  <2>4. ASSUME Busy(r) = {} PROVE FALSE
    <3>1. Cardinality(Busy(r)) = 0
      BY <2>3, <2>4, Zenon
    <3>. QED BY <2>1, <2>2, <3>1, <1>3 DEF Left
  <2>. QED BY <2>4
<1>. QED BY <1>4, <1>5, <1>6

LEMMA WaitForNothingInv ==
  ASSUME IInv, TypeOK', NEW r \in Ranks, WaitForNothing(r) PROVE IInv'
<1>0. TypeOK /\ SlotsOK(r) /\ StageOK(r) /\ window \in Windows
  BY DEF IInv, TypeOK
<1>1. /\ pc[r] = "in" /\ nrreqs[r] >= T /\ nsreqs[r] >= T /\ reqs[r] = NoRequests
      /\ window' = window /\ call' = call /\ rbuf' = rbuf /\ lost' = lost
      /\ reqs' = reqs /\ nrreqs' = nrreqs /\ nsreqs' = nsreqs /\ wire' = wire
      /\ InLoop(r)
  BY DEF WaitForNothing, InLoop, Waiting
<1>2. Busy(r) = {}
  BY <1>0, <1>1, NothingBusy
<1>3. lost
  BY <1>1, <1>2, LoopHasRequests
<1>4. CASE pc' = [pc EXCEPT ![r] = "crashed"] /\ ncreqs' = ncreqs
  BY <1>1, <1>4, StageInv
<1>5. CASE Count(r) /\ pc' = pc
  <2>1. OthersSame(r)
    BY <1>0, <1>1, <1>5 DEF OthersSame, Count, TypeOK
  <2>2. Busy(r)' = Busy(r) /\ Pending(r)' = Pending(r) /\ Sending(r)' = Sending(r)
    BY <1>1, SameReqs
  <2>3. /\ T' = T /\ Posted(r)' = Posted(r) /\ SentTo(r)' = SentTo(r)
        /\ (MoreRecvs(r)' <=> MoreRecvs(r))
    BY <1>1 DEF T, Posted, SentTo, MoreRecvs
  <2>4. \A p : Received(r, p)' = Received(r, p) /\ Sent(r, p)' = Sent(r, p)
    BY <1>1, <2>2, <2>3 DEF Received, Sent, ReceivedFrom
  <2>5. SlotsOK(r)'
    <3>1. ~(nrreqs'[r] < T) /\ ~(nsreqs'[r] < T)
      <4>1. T \in Int /\ nrreqs[r] \in Int /\ nsreqs[r] \in Int
        BY <1>0, WindowBounds DEF TypeOK
      <4>. QED BY <1>1, <4>1
    <3>2. ~MoreRecvs(r) \/ \A k \in 0 .. T - 1 : k < nrreqs[r] => k \in Busy(r)
      BY <1>0 DEF SlotsOK
    <3>. QED BY <1>1, <1>2, <2>2, <2>3, <3>1, <3>2 DEF SlotsOK
  <2>6. StageOK(r)'
    BY <1>0, <1>1, <1>5 DEF StageOK, Block
  <2>7. RankKept(r)
    BY <1>1, <1>3, <2>4, <2>5, <2>6 DEF RankKept
  <2>8. \A p \in Ranks \ {r} : Sent(r, p)' >= Sent(r, p)
    BY <1>0, <2>4, CountsAreIntegers
  <2>. QED BY <1>1, <1>3, <2>1, <2>2, <2>7, <2>8, QuietInv
<1>. QED BY <1>4, <1>5 DEF WaitForNothing

-----------------------------------------------------------------------------
(* The point-to-point layer.                                               *)

\* A match completes the receive for the sender, and the send if it waits.
LEMMA MatchSlots ==
  ASSUME IInv, TypeOK', NEW s \in Ranks, NEW d \in Ranks, Match(s, d)
  PROVE  /\ s # d /\ s \in Pending(d)
         /\ \A q \in Ranks : /\ Busy(q)' = Busy(q)
                             /\ \A j \in Busy(q) : reqs'[q][j].peer = reqs[q][j].peer
         /\ Pending(d)' = Pending(d) \ {s}
         /\ \A q \in Ranks \ {d} : Pending(q)' = Pending(q)
         /\ \A q \in Ranks \ {s} : Sending(q)' = Sending(q)
         /\ Sending(s) \ {d} \subseteq Sending(s)'
         /\ Head(wire[s][d]).protocol # "rndv" => Sending(s)' = Sending(s)
<1>0. TypeOK /\ SlotsOK(s) /\ SlotsOK(d) /\ window' = window
  BY DEF IInv, Match
<1>1. T' = T /\ Slots' = Slots
  BY <1>0 DEF T, Slots
<1>. DEFINE Rndv == Head(wire[s][d]).protocol = "rndv"
<1>2. PICK k \in 0 .. T - 1 :
        /\ Outstanding(reqs[d][k], s)
        /\ reqs' = [r \in Ranks |-> [j \in Slots |->
             IF \/ r = d /\ j = k
                \/ r = s /\ j >= T /\ Outstanding(reqs[s][j], d) /\ Rndv
             THEN Request(reqs[r][j].peer, TRUE) ELSE reqs[r][j]]]
  BY DEF Match
<1>. HIDE DEF Rndv
<1>3. /\ T \in Nat /\ k \in Slots /\ k < T
      /\ \A j \in 0 .. T - 1 : j \in Slots /\ j < T
      /\ \A j \in T .. 2 * T - 1 : j \in Slots /\ ~(j < T) /\ j >= T
      /\ \A j \in Slots : j \in Int
  <2>1. /\ T \in Nat
        /\ \A j \in 0 .. T - 1 : j \in Slots /\ j < T
        /\ \A j \in T .. 2 * T - 1 : j \in Slots /\ ~(j < T)
        /\ \A j \in Slots : j \in Int
    <3>1. window \in Windows
      BY <1>0 DEF TypeOK
    <3>2. T \in Nat
      BY <3>1, WindowBounds
    <3>. QED BY <3>1, <3>2, WindowBounds
  <2>2. \A j \in T .. 2 * T - 1 : j >= T
    BY <2>1
  <2>. QED BY <2>1, <2>2
<1>4. k \in Busy(d) /\ reqs[d][k].peer = s
  BY <1>0, <1>2, <1>3, BusyPeers DEF Outstanding
<1>5. s # d
  BY <1>0, <1>4, BusyPeers
<1>6. s \in Pending(d)
  BY <1>2 DEF Pending
<1>7. /\ reqs'[d][k] = Request(s, TRUE)
      /\ \A j \in Slots \ {k} : reqs'[d][j] = reqs[d][j]
  BY <1>2, <1>3, <1>4, <1>5
<1>8. \A j \in Slots : reqs'[s][j] = IF j >= T /\ Outstanding(reqs[s][j], d) /\ Rndv
                                    THEN Request(d, TRUE) ELSE reqs[s][j]
  BY <1>2, <1>5 DEF Outstanding
<1>9. \A q \in Ranks \ {s, d} : \A j \in Slots : reqs'[q][j] = reqs[q][j]
  BY <1>2
<1>10. ASSUME NEW q \in Ranks
       PROVE  /\ Busy(q)' = Busy(q)
              /\ \A j \in Busy(q) : reqs'[q][j].peer = reqs[q][j].peer
  <2>1. CASE q = d
    <3>1. reqs'[d][k] # Null /\ reqs'[d][k].peer = s
      BY <1>7, RequestType
    <3>. QED BY <1>1, <1>4, <1>7, <2>1, <3>1 DEF Busy
  <2>2. CASE q = s
    <3>1. \A j \in Slots : Outstanding(reqs[s][j], d) => j \in Busy(s) /\ reqs[s][j].peer = d
      BY <1>0, BusyPeers DEF Outstanding
    <3>2. Request(d, TRUE) # Null /\ Request(d, TRUE).peer = d
      BY RequestType
    <3>. QED BY <1>1, <1>8, <2>2, <3>1, <3>2 DEF Busy
  <2>3. CASE q \notin {s, d}
    BY <1>1, <1>9, <2>3 DEF Busy
  <2>. QED BY <2>1, <2>2, <2>3
<1>11. \A q \in Ranks :
         /\ Pending(q)' = {p \in Ranks : \E j \in 0 .. T - 1 : Outstanding(reqs'[q][j], p)}
         /\ Sending(q)' = {p \in Ranks : \E j \in T .. 2 * T - 1 : Outstanding(reqs'[q][j], p)}
  BY <1>1 DEF Pending, Sending, Outstanding
<1>12. Pending(d)' = Pending(d) \ {s}
  <2>1. \A p : ~Outstanding(reqs'[d][k], p)
    BY <1>7, RequestType DEF Outstanding
  <2>2. ASSUME NEW j \in 0 .. T - 1, j # k, Outstanding(reqs[d][j], s) PROVE FALSE
    <3>1. j \in Busy(d) /\ reqs[d][j].peer = s
      BY <1>0, <1>3, <2>2, BusyPeers DEF Outstanding
    <3>. QED BY <1>0, <1>3, <1>4, <2>2, <3>1 DEF SlotsOK
  <2>3. \A p : Outstanding(reqs[d][k], p) => p = s
    BY <1>4 DEF Outstanding
  <2>4. ASSUME NEW p \in Ranks
        PROVE  (\E j \in 0 .. T - 1 : Outstanding(reqs'[d][j], p))
                 <=> (\E j \in 0 .. T - 1 : Outstanding(reqs[d][j], p)) /\ p # s
    BY <1>3, <1>7, <2>1, <2>2, <2>3
  <2>. QED BY <1>11, <2>4 DEF Pending
<1>13. \A q \in Ranks \ {d} : Pending(q)' = Pending(q)
  <2>. SUFFICES ASSUME NEW q \in Ranks \ {d} PROVE Pending(q)' = Pending(q)
    OBVIOUS
  <2>1. \A j \in 0 .. T - 1 : reqs'[q][j] = reqs[q][j]
    <3>1. \A j \in 0 .. T - 1 : j \in Slots /\ ~(j >= T)
      BY <1>3
    <3>. QED BY <1>8, <1>9, <3>1
  <2>. QED BY <1>11, <2>1 DEF Pending
<1>14. \A q \in Ranks \ {s} : Sending(q)' = Sending(q)
  <2>. SUFFICES ASSUME NEW q \in Ranks \ {s} PROVE Sending(q)' = Sending(q)
    OBVIOUS
  <2>1. \A j \in T .. 2 * T - 1 : reqs'[q][j] = reqs[q][j]
    <3>1. \A j \in T .. 2 * T - 1 : j \in Slots \ {k}
      BY <1>3
    <3>. QED BY <1>7, <1>9, <3>1
  <2>. QED BY <1>11, <2>1 DEF Sending
<1>15. Sending(s) \ {d} \subseteq Sending(s)'
  <2>. SUFFICES ASSUME NEW p \in Sending(s), p # d PROVE p \in Sending(s)'
    OBVIOUS
  <2>1. PICK j \in T .. 2 * T - 1 : Outstanding(reqs[s][j], p)
    BY DEF Sending
  <2>2. ~Outstanding(reqs[s][j], d)
    BY <2>1 DEF Outstanding
  <2>3. reqs'[s][j] = reqs[s][j]
    BY <1>3, <1>8, <2>2
  <2>4. p \in Ranks
    BY DEF Sending
  <2>. QED BY <1>11, <2>1, <2>3, <2>4
<1>16. ~Rndv => Sending(s)' = Sending(s)
  <2>1. ~Rndv => \A j \in T .. 2 * T - 1 : reqs'[s][j] = reqs[s][j]
    BY <1>3, <1>8
  <2>. QED BY <1>11, <2>1 DEF Sending
<1>. QED BY <1>5, <1>6, <1>10, <1>12, <1>13, <1>14, <1>15, <1>16 DEF Rndv

\* The oldest message is for the call its receiver is in, as long as no error
\* has gone unnoticed.
LEMMA HeadIsForThisCall ==
  ASSUME IInv, TypeOK', NEW s \in Ranks, NEW d \in Ranks, Match(s, d)
  PROVE  /\ s # d /\ s \notin ReceivedFrom(d) /\ Received(d, s) = call[d] - 1
         /\ s \in Posted(d)
         /\ wire[s][d] \in Seq(Messages) /\ wire[s][d] # <<>>
         /\ Head(wire[s][d]) = wire[s][d][1] /\ Len(wire[s][d]) \in Nat \ {0}
         /\ ~lost => Head(wire[s][d]).block = Block(s, d, call[d])
         /\ call[s] >= call[d]
         /\ pc[d] \notin {"out", "copy"}
<1>0. TypeOK /\ SlotsOK(d) /\ StageOK(d) /\ window \in Windows
  BY DEF IInv, TypeOK
<1>1. s # d /\ s \in Pending(d)
  BY MatchSlots
<1>2. s \notin ReceivedFrom(d) /\ Received(d, s) = call[d] - 1
  BY <1>1 DEF ReceivedFrom, Received
<1>3. s \in Posted(d)
  BY <1>0, <1>1, BusyPeers
<1>4. wire[s][d] \in Seq(Messages) /\ wire[s][d] # <<>>
  BY <1>0 DEF Match, TypeOK
<1>5. Head(wire[s][d]) = wire[s][d][1] /\ Len(wire[s][d]) \in Nat \ {0}
  BY <1>4
<1>6. WireOK(s, d) /\ (~lost => InOrder(s, d))
  BY <1>1 DEF IInv
<1>7. call[d] \in Int /\ call[s] \in Int /\ Sent(s, d) \in Int /\ Sent(s, d) <= call[s]
  BY <1>0, CountsAreIntegers
<1>8. ~lost => Head(wire[s][d]).block = Block(s, d, call[d])
  <2>1. ~lost => wire[s][d][1].block = Block(s, d, Received(d, s) + 1)
    BY <1>5, <1>6 DEF InOrder
  <2>2. Received(d, s) + 1 = call[d]
    BY <1>2, <1>7
  <2>. QED BY <1>5, <2>1, <2>2
<1>9. call[s] >= call[d]
  BY <1>2, <1>5, <1>6, <1>7 DEF WireOK
<1>10. pc[d] \notin {"out", "copy"}
  BY <1>0, <1>1, NothingBusy DEF StageOK
<1>. QED BY <1>1, <1>2, <1>3, <1>4, <1>5, <1>8, <1>9, <1>10

LEMMA MatchInv ==
  ASSUME IInv, TypeOK', NEW s \in Ranks, NEW d \in Ranks, Match(s, d) PROVE IInv'
<1>0. TypeOK
  BY DEF IInv
<1>1. /\ window' = window /\ pc' = pc /\ call' = call /\ lost' = lost
      /\ nrreqs' = nrreqs /\ nsreqs' = nsreqs /\ ncreqs' = ncreqs
      /\ rbuf' = [rbuf EXCEPT ![d][s] = Head(wire[s][d]).block]
      /\ wire' = [wire EXCEPT ![s][d] = Tail(@)]
  BY DEF Match, counters
<1>2. /\ s # d /\ s \in Pending(d)
      /\ \A q \in Ranks : /\ Busy(q)' = Busy(q)
                          /\ \A j \in Busy(q) : reqs'[q][j].peer = reqs[q][j].peer
      /\ Pending(d)' = Pending(d) \ {s}
      /\ \A q \in Ranks \ {d} : Pending(q)' = Pending(q)
      /\ \A q \in Ranks \ {s} : Sending(q)' = Sending(q)
      /\ Sending(s) \ {d} \subseteq Sending(s)'
      /\ Head(wire[s][d]).protocol # "rndv" => Sending(s)' = Sending(s)
  BY MatchSlots
<1>3. /\ s \notin ReceivedFrom(d) /\ Received(d, s) = call[d] - 1
      /\ s \in Posted(d)
      /\ wire[s][d] \in Seq(Messages) /\ wire[s][d] # <<>>
      /\ Head(wire[s][d]) = wire[s][d][1] /\ Len(wire[s][d]) \in Nat \ {0}
      /\ ~lost => Head(wire[s][d]).block = Block(s, d, call[d])
  BY HeadIsForThisCall
<1>4. ASSUME NEW q \in Ranks
      PROVE  /\ SlotsOK(q)' /\ (~lost => CountsOK(q)')
             /\ Posted(q)' = Posted(q) /\ SentTo(q)' = SentTo(q)
  <2>1. SlotsOK(q) /\ (~lost => CountsOK(q))
    BY DEF IInv
  <2>. QED BY <1>1, <1>2, <2>1, SameSlots
<1>5. /\ ReceivedFrom(d)' = ReceivedFrom(d) \union {s}
      /\ \A q \in Ranks \ {d} : ReceivedFrom(q)' = ReceivedFrom(q)
  BY <1>2, <1>3, <1>4 DEF ReceivedFrom
<1>6. \A q, p \in Ranks : Sent(q, p)' = Sent(q, p)
  BY <1>1, <1>4 DEF Sent
<1>7. /\ Received(d, s)' = call[d]
      /\ \A q, p \in Ranks : ~(q = d /\ p = s) => Received(q, p)' = Received(q, p)
  BY <1>1, <1>5 DEF Received
<1>8. ASSUME NEW q \in Ranks PROVE StageOK(q)'
  <2>1. StageOK(q)
    BY DEF IInv
  <2>2. rbuf'[q][q] = rbuf[q][q]
    BY <1>0, <1>1, <1>2 DEF TypeOK
  <2>. QED BY <1>1, <1>2, <2>1, <2>2 DEF StageOK, Block
<1>9. ASSUME NEW q \in Ranks, ~lost PROVE ReceivedInPlace(q)'
  <2>. SUFFICES ASSUME call[q] > 0, NEW p \in ReceivedFrom(q)'
                PROVE  rbuf'[q][p] = Block(p, q, call[q])
    BY <1>1 DEF ReceivedInPlace, Block
  <2>1. CASE q = d /\ p = s
    BY <1>0, <1>1, <1>3, <1>9, <2>1 DEF TypeOK
  <2>2. CASE ~(q = d /\ p = s)
    <3>1. p \in ReceivedFrom(q)
      BY <1>5, <2>2
    <3>2. rbuf'[q][p] = rbuf[q][p]
      BY <1>0, <1>1, <2>2 DEF TypeOK
    <3>. QED BY <1>9, <3>1, <3>2 DEF IInv, ReceivedInPlace
  <2>. QED BY <2>1, <2>2
<1>10. ASSUME NEW a \in Ranks, NEW b \in Ranks, a # b, ~(a = s /\ b = d)
       PROVE  WireOK(a, b)' /\ (~lost => InOrder(a, b)')
  <2>1. WireOK(a, b) /\ (~lost => InOrder(a, b))
    BY <1>10 DEF IInv
  <2>2. wire'[a][b] = wire[a][b] /\ Sent(a, b)' = Sent(a, b)
        /\ Received(b, a)' = Received(b, a)
    <3>1. wire'[a][b] = wire[a][b]
      BY <1>0, <1>1, <1>10 DEF TypeOK
    <3>. QED BY <1>6, <1>7, <1>10, <3>1
  <2>3. b \in Sending(a) => b \in Sending(a)'
    BY <1>2, <1>10
  <2>4. Sent(a, b)' >= Sent(a, b)
    BY <1>0, <2>2, CountsAreIntegers
  <2>5. /\ WireOK(a, b) => WireOK(a, b)'
        /\ InOrder(a, b) => InOrder(a, b)'
    BY <1>0, <2>2, <2>3, <2>4, SameWire
  <2>. QED BY <2>1, <2>5
<1>11. WireOK(s, d)' /\ (~lost => InOrder(s, d)')
  <2>. DEFINE w == wire[s][d]
  <2>1. wire'[s][d] = Tail(w)
    BY <1>0, <1>1 DEF TypeOK
  <2>2. /\ w \in Seq(Messages) /\ w # <<>> /\ Head(w) = w[1] /\ Len(w) \in Nat \ {0}
        /\ Head(w).protocol # "rndv" => Sending(s)' = Sending(s)
    BY <1>2, <1>3
  <2>0. /\ Len(w) <= Sent(s, d) - Received(d, s)
        /\ \A n \in 1 .. Len(w) : w[n].protocol = "rndv" => n = Len(w) /\ d \in Sending(s)
        /\ ~lost => /\ Len(w) = Sent(s, d) - Received(d, s)
                    /\ \A n \in 1 .. Len(w) :
                         w[n].block = Block(s, d, Received(d, s) + n)
    BY <1>2 DEF IInv, WireOK, InOrder
  <2>. HIDE DEF w
  <2>3. /\ Len(wire'[s][d]) = Len(w) - 1
        /\ \A n \in 1 .. Len(w) - 1 : wire'[s][d][n] = w[n + 1]
    BY <2>1, <2>2
  <2>4. /\ Received(d, s)' = Received(d, s) + 1 /\ Received(d, s) \in Int
        /\ Sent(s, d)' = Sent(s, d) /\ Sent(s, d) \in Int
    <3>1. Received(d, s) \in Int /\ Sent(s, d) \in Int /\ call[d] \in Int
      BY <1>0, CountsAreIntegers
    <3>. QED BY <1>3, <1>6, <1>7, <3>1
  <2>5. ASSUME NEW n \in 1 .. Len(wire'[s][d]), wire'[s][d][n].protocol = "rndv"
        PROVE  n = Len(wire'[s][d]) /\ d \in Sending(s)'
    <3>1. n + 1 \in 1 .. Len(w) /\ n + 1 # 1 /\ wire'[s][d][n] = w[n + 1]
      BY <2>2, <2>3
    <3>2. n + 1 = Len(w) /\ d \in Sending(s)
      BY <2>0, <2>5, <3>1
    <3>3. Head(w).protocol # "rndv"
      <4>1. 1 \in 1 .. Len(w) /\ 1 # Len(w)
        BY <2>2, <3>1, <3>2
      <4>. QED BY <2>0, <2>2, <4>1
    <3>. QED BY <2>2, <2>3, <3>2, <3>3
  <2>6. WireOK(s, d)'
    <3>1. Len(wire'[s][d]) <= Sent(s, d)' - Received(d, s)'
      BY <2>0, <2>2, <2>3, <2>4
    <3>. QED BY <2>5, <3>1 DEF WireOK
  <2>7. ASSUME ~lost PROVE InOrder(s, d)'
    <3>1. Len(wire'[s][d]) = Sent(s, d)' - Received(d, s)'
      BY <2>0, <2>2, <2>3, <2>4, <2>7
    <3>2. ASSUME NEW n \in 1 .. Len(wire'[s][d])
          PROVE  wire'[s][d][n].block = Block(s, d, Received(d, s)' + n)
      <4>1. n + 1 \in 1 .. Len(w) /\ wire'[s][d][n] = w[n + 1]
        BY <2>2, <2>3
      <4>2. Received(d, s) + (n + 1) = Received(d, s)' + n
        BY <2>4
      <4>. QED BY <2>0, <2>7, <4>1, <4>2
    <3>. QED BY <3>1, <3>2 DEF InOrder, Block
  <2>. QED BY <2>6, <2>7
<1>12. \A q \in Ranks : wire'[q][q] = <<>>
  <2>1. \A q \in Ranks : wire'[q][q] = wire[q][q]
    BY <1>0, <1>1, <1>2 DEF TypeOK
  <2>. QED BY <2>1 DEF IInv
<1>. QED BY <1>1, <1>4, <1>8, <1>9, <1>10, <1>11, <1>12 DEF IInv

-----------------------------------------------------------------------------
(* The theorems.                                                           *)

\* IInv holds of every behaviour, however many calls of irecv and isend fail.
THEOREM Invariance == Spec => []IInv
<1>1. Init /\ TypeOK => IInv
  BY InitInv
<1>2. IInv /\ TypeOK' /\ [Next]_vars => IInv'
  <2>. SUFFICES ASSUME IInv, TypeOK', [Next]_vars PROVE IInv'
    OBVIOUS
  <2>1. ASSUME UNCHANGED vars PROVE IInv'
    <3>1. \A r \in Ranks :
            /\ window' = window /\ reqs'[r] = reqs[r] /\ nrreqs'[r] = nrreqs[r]
            /\ nsreqs'[r] = nsreqs[r] /\ ncreqs'[r] = ncreqs[r] /\ pc'[r] = pc[r]
            /\ call'[r] = call[r] /\ rbuf'[r] = rbuf[r]
      BY <2>1 DEF vars, counters
    <3>2. \A r \in Ranks : /\ SlotsOK(r) => SlotsOK(r)'
                           /\ CountsOK(r) => CountsOK(r)'
                           /\ StageOK(r) => StageOK(r)'
                           /\ ReceivedInPlace(r) => ReceivedInPlace(r)'
                           /\ Sending(r)' = Sending(r)
                           /\ \A p : /\ Sent(r, p)' = Sent(r, p)
                                     /\ Received(r, p)' = Received(r, p)
      BY <3>1, RankFrame
    <3>3. ASSUME NEW s \in Ranks, NEW d \in Ranks
          PROVE  /\ WireOK(s, d) => WireOK(s, d)'
                 /\ InOrder(s, d) => InOrder(s, d)'
      <4>1. TypeOK /\ wire'[s][d] = wire[s][d]
        BY <2>1 DEF vars, IInv
      <4>2. Sent(s, d)' >= Sent(s, d)
        BY <3>2, <4>1, CountsAreIntegers
      <4>. QED BY <3>2, <4>1, <4>2, SameWire
    <3>4. lost' = lost /\ wire' = wire
      BY <2>1 DEF vars
    <3>. QED BY <3>2, <3>3, <3>4 DEF IInv
  <2>2. CASE Finished
    BY <2>1, <2>2 DEF Finished
  <2>3. ASSUME NEW r \in Ranks, RankStep(r) PROVE IInv'
    BY <2>3, EnterInv, LocalCopyInv, PostRecvInv, PostSendInv, WaitAllInv,
       ReplaceRecvInv, ReplaceSendInv, RetireInv, ReturnInv DEF RankStep
  <2>4. ASSUME NEW r \in Ranks, Fault(r) PROVE IInv'
    BY <2>4, FailInv, LoseSendInv, WaitForNothingInv DEF Fault
  <2>5. ASSUME NEW s \in Ranks, NEW d \in Ranks, Match(s, d) PROVE IInv'
    BY <2>5, MatchInv
  <2>. QED BY <2>1, <2>2, <2>3, <2>4, <2>5 DEF Next
<1>. QED BY <1>1, <1>2, TypeCorrect, PTL DEF Spec

\* wait_any is never called with nothing to wait for, whatever the window and
\* the order of the completions, unless the error of an isend went unnoticed.
THEOREM LoopMakesSense == Spec => []WaitsForSomething
<1>1. IInv => WaitsForSomething
  <2>. SUFFICES ASSUME IInv, ~lost, NEW r \in Ranks, InLoop(r), reqs[r] = NoRequests
                PROVE  FALSE
    BY DEF WaitsForSomething
  <2>1. Busy(r) = {}
    BY NothingBusy DEF IInv, TypeOK
  <2>. QED BY <2>1, LoopHasRequests
<1>. QED BY <1>1, Invariance, PTL

\* A call that returned has met every rank in this call.
LEMMA AllReceived ==
  ASSUME IInv, NEW r \in Ranks, pc[r] = "out", NEW s \in Ranks \ {r}
  PROVE  s \in ReceivedFrom(r) /\ Received(r, s) = call[r]
<1>1. Busy(r) = {} /\ nrreqs[r] = N - 1 /\ window \in Windows
  BY DEF IInv, StageOK, TypeOK
<1>2. Posted(r) = Ranks \ {r} /\ Pending(r) = {}
  BY <1>1, AllPeers, NothingBusy
<1>. QED BY <1>2 DEF ReceivedFrom, Received

\* A call that returns MPI_SUCCESS has every block of its own call in place,
\* unless the error of an isend went unnoticed.
THEOREM Completeness == Spec => []CompleteIfReported
<1>1. IInv => CompleteIfReported
  <2>. SUFFICES ASSUME IInv, ~lost, NEW r \in Ranks, pc[r] = "out", call[r] > 0,
                       NEW s \in Ranks
                PROVE  rbuf[r][s] = Block(s, r, call[r])
    BY DEF CompleteIfReported, Complete
  <2>1. CASE s = r
    BY <2>1 DEF IInv, StageOK
  <2>2. CASE s # r
    BY <2>2, AllReceived DEF IInv, ReceivedInPlace
  <2>. QED BY <2>1, <2>2
<1>. QED BY <1>1, Invariance, PTL

\* No rank returns before every rank has entered the call, whatever fails: even
\* the loop that waits for nothing does so after its last receive.
THEOREM Synchronises == Spec => []NoneLeavesEarly
<1>1. IInv => NoneLeavesEarly
  <2>. SUFFICES ASSUME IInv, NEW r \in Ranks, NEW s \in Ranks, pc[r] = "out"
                PROVE  call[s] >= call[r]
    BY DEF NoneLeavesEarly
  <2>0. TypeOK /\ call[s] \in Int /\ call[r] \in Int
    BY DEF IInv, TypeOK
  <2>1. CASE r = s
    BY <2>0, <2>1
  <2>2. CASE r # s
    <3>1. Received(r, s) = call[r]
      BY <2>2, AllReceived
    <3>2. Len(wire[s][r]) <= Sent(s, r) - Received(r, s)
      BY <2>2 DEF IInv, WireOK
    <3>3. Len(wire[s][r]) \in Nat
      BY <2>0 DEF TypeOK
    <3>4. Sent(s, r) <= call[s] /\ Sent(s, r) \in Int
      BY <2>0, CountsAreIntegers
    <3>. QED BY <2>0, <3>1, <3>2, <3>3, <3>4
  <2>. QED BY <2>1, <2>2
<1>. QED BY <1>1, Invariance, PTL

\* A call that returned MPI_SUCCESS left no request behind, whatever failed.
THEOREM ReleasesBuffers == Spec => []BuffersReleased
<1>1. IInv => BuffersReleased
  <2>. SUFFICES ASSUME IInv, NEW r \in Ranks, pc[r] = "out"
                PROVE  /\ reqs[r] = NoRequests
                       /\ \A d \in Ranks : \A i \in 1 .. Len(wire[r][d]) :
                            wire[r][d][i].protocol # "rndv"
    BY DEF BuffersReleased
  <2>1. Busy(r) = {} /\ Sending(r) = {}
    BY NothingBusy DEF IInv, StageOK, TypeOK
  <2>2. reqs[r] = NoRequests
    <3>1. \A k \in Slots : reqs[r][k] = Null
      BY <2>1 DEF Busy
    <3>2. reqs[r] \in [Slots -> Requests]
      BY DEF IInv, TypeOK, Requests
    <3>. QED BY <3>1, <3>2 DEF NoRequests
  <2>3. \A d \in Ranks \ {r} : \A i \in 1 .. Len(wire[r][d]) :
          wire[r][d][i].protocol # "rndv"
    BY <2>1 DEF IInv, WireOK
  <2>4. wire[r][r] = <<>> /\ Len(<<>>) = 0
    BY DEF IInv
  <2>. QED BY <2>2, <2>3, <2>4
<1>. QED BY <1>1, Invariance, PTL

\* The algorithm implements the contract of MPI_Alltoall, step by step, until
\* the error of an isend goes unnoticed.
THEOREM Refinement == Spec => ImplementsContract
<1>. USE DEF Contract!Ranks
<1>1. Init => Contract!Init
  BY DEF Init, Contract!Init, NoBlock, Contract!NoBlock, Ranks
<1>2. IInv /\ [Next]_vars => [~lost' => Contract!Next \/ UNCHANGED Contract!vars]_vars
  <2>. SUFFICES ASSUME IInv, Next, ~lost'
                PROVE  Contract!Next \/ UNCHANGED Contract!vars
    OBVIOUS
  <2>. DEFINE stage == [r \in Ranks |-> CASE pc[r] = "out" -> "out"
                                          [] pc[r] \in {"copy", "in"} -> "in"
                                          [] OTHER -> "failed"]
  <2>0. TypeOK
    BY DEF IInv
  <2>a. \A r \in Ranks : /\ pc[r] = "out" => stage[r] = "out"
                         /\ pc[r] \in {"copy", "in"} => stage[r] = "in"
                         /\ pc[r] \in {"failed", "crashed"} => stage[r] = "failed"
    OBVIOUS
  <2>b. ASSUME NEW r \in Ranks, NEW p \in {"copy", "in", "out", "failed"},
               pc' = [pc EXCEPT ![r] = p]
        PROVE  stage' = [stage EXCEPT ![r] = IF p = "out" THEN "out" ELSE
                                             IF p = "failed" THEN "failed" ELSE "in"]
    BY <2>0, <2>b DEF TypeOK
  <2>c. pc' = pc => stage' = stage
    OBVIOUS
  <2>d. Contract!vars = <<stage, call, rbuf>>
    BY DEF Contract!vars
  <2>e. stage' = stage /\ call' = call /\ rbuf' = rbuf => UNCHANGED Contract!vars
    BY DEF Contract!vars
  <2>f. stage \in [Ranks -> {"out", "in", "failed"}]
    OBVIOUS
  <2>1. ASSUME NEW r \in Ranks, Enter(r) PROVE Contract!Enter(r)
    <3>1. /\ stage[r] = "out" /\ call[r] < Calls /\ call' = [call EXCEPT ![r] = @ + 1]
          /\ stage' = [stage EXCEPT ![r] = "in"] /\ rbuf' = rbuf
      BY <2>1, <2>a, <2>b DEF Enter
    <3>. HIDE DEF stage
    <3>. QED BY <3>1 DEF Contract!Enter, stage
  <2>2. ASSUME NEW r \in Ranks, LocalCopy(r) PROVE Contract!Deliver(r, r)
    <3>1. pc[r] = "copy" /\ pc' = [pc EXCEPT ![r] = "in"] /\ call' = call
          /\ rbuf' = [rbuf EXCEPT ![r][r] = Block(r, r, call[r])]
      BY <2>2 DEF LocalCopy
    <3>2. stage[r] = "in" /\ stage' = [stage EXCEPT ![r] = "in"]
      BY <2>a, <2>b, <3>1
    <3>3. call[r] \in Int
      BY <2>0 DEF TypeOK
    <3>. HIDE DEF stage
    <3>4. stage' = stage
      BY <2>f, <3>2
    <3>. QED BY <3>1, <3>2, <3>3, <3>4 DEF Contract!Deliver, Contract!Block, Block, stage
  <2>3. ASSUME NEW r \in Ranks, PostRecv(r) \/ PostSend(r) \/ ReplaceRecv(r)
                                  \/ ReplaceSend(r) \/ Retire(r)
        PROVE  UNCHANGED Contract!vars
    BY <2>3, <2>c, <2>e DEF PostRecv, PostSend, ReplaceRecv, ReplaceSend, Retire
  <2>4. ASSUME NEW r \in Ranks, pc[r] = "in", pc' = [pc EXCEPT ![r] = "out"],
               call' = call, rbuf' = rbuf, ReceivedInPlace(r),
               \A s \in Ranks \ {r} : s \in ReceivedFrom(r)
        PROVE  Contract!Return(r)
    <3>1. call[r] > 0 /\ rbuf[r][r] = Block(r, r, call[r])
      BY <2>4 DEF IInv, StageOK
    <3>2. \A s \in Ranks : rbuf[r][s] = Block(s, r, call[r])
      BY <2>4, <3>1 DEF ReceivedInPlace
    <3>3. Contract!Filled(r)
      BY <3>2 DEF Contract!Filled, Contract!Block, Block, Ranks
    <3>4. stage[r] = "in" /\ stage' = [stage EXCEPT ![r] = "out"]
      BY <2>4, <2>a, <2>b
    <3>. HIDE DEF stage
    <3>. QED BY <2>4, <3>3, <3>4 DEF Contract!Return, stage
  <2>5. ASSUME NEW r \in Ranks, WaitAll(r) PROVE Contract!Return(r)
    <3>1. /\ pc[r] = "in" /\ nrreqs[r] >= T /\ T = N - 1
          /\ \A k \in Slots : reqs[r][k].done /\ lost' = lost
          /\ pc' = [pc EXCEPT ![r] = "out"] /\ call' = call /\ rbuf' = rbuf
      BY <2>5 DEF WaitAll, Waiting
    <3>2. nrreqs[r] = N - 1
      BY <2>0, <3>1, NAssumption DEF TypeOK
    <3>3. Pending(r) = {}
      BY <2>0, <3>1, WindowBounds DEF TypeOK, Pending, Outstanding
    <3>4. \A s \in Ranks \ {r} : s \in ReceivedFrom(r)
      BY <3>2, <3>3, AllPeers DEF ReceivedFrom
    <3>5. ReceivedInPlace(r)
      BY <2>5 DEF IInv, WaitAll
    <3>. QED BY <2>4, <3>1, <3>4, <3>5
  <2>6. ASSUME NEW r \in Ranks, Return(r) PROVE Contract!Return(r)
    <3>1. Busy(r) = {} /\ nrreqs[r] = N - 1
      BY <2>6, AtReturn
    <3>2. Pending(r) = {}
      BY <2>0, <3>1, NothingBusy DEF TypeOK
    <3>3. \A s \in Ranks \ {r} : s \in ReceivedFrom(r)
      BY <3>1, <3>2, AllPeers DEF ReceivedFrom
    <3>4. ReceivedInPlace(r)
      BY <2>6 DEF IInv, Return
    <3>. QED BY <2>4, <2>6, <3>3, <3>4 DEF Return, Waiting
  <2>7. ASSUME NEW r \in Ranks, Fail(r) PROVE Contract!Fail(r)
    <3>1. /\ stage[r] = "in" /\ stage' = [stage EXCEPT ![r] = "failed"]
          /\ call' = call /\ rbuf' = rbuf
      BY <2>7, <2>a, <2>b DEF Fail
    <3>. HIDE DEF stage
    <3>. QED BY <3>1 DEF Contract!Fail, stage
  <2>8. ASSUME NEW r \in Ranks, LoseSend(r) PROVE FALSE
    BY <2>8 DEF LoseSend
  <2>9. ASSUME NEW r \in Ranks, WaitForNothing(r) PROVE FALSE
    <3>1. InLoop(r) /\ reqs[r] = NoRequests /\ ~lost
      BY <2>9 DEF WaitForNothing
    <3>2. Busy(r) = {}
      BY <2>0, <3>1, NothingBusy DEF TypeOK
    <3>. QED BY <3>1, <3>2, LoopHasRequests
  <2>10. ASSUME NEW s \in Ranks, NEW d \in Ranks, Match(s, d)
         PROVE  Contract!Deliver(d, s)
    <3>1. TypeOK'
      BY <2>0, <2>10, MatchType DEF Match, counters, TypeOK, Requests, Slots, T
    <3>2. /\ Head(wire[s][d]).block = Block(s, d, call[d])
          /\ call[s] >= call[d]
          /\ pc[d] \notin {"out", "copy"}
      BY <2>10, <3>1, HeadIsForThisCall DEF Match
    <3>3. /\ rbuf' = [rbuf EXCEPT ![d][s] = Head(wire[s][d]).block]
          /\ call' = call /\ pc' = pc
      BY <2>10 DEF Match
    <3>4. stage[d] # "out" /\ stage' = stage
      BY <2>0, <2>a, <2>c, <3>2, <3>3 DEF TypeOK
    <3>. HIDE DEF stage
    <3>. QED BY <3>2, <3>3, <3>4 DEF Contract!Deliver, Contract!Block, Block, stage
  <2>11. CASE Finished
    BY <2>c, <2>e, <2>11 DEF Finished, vars
  <2>12. ASSUME NEW r \in Ranks, RankStep(r)
         PROVE  Contract!Next \/ UNCHANGED Contract!vars
    BY <2>12, <2>1, <2>2, <2>3, <2>5, <2>6 DEF RankStep, Contract!Next, Ranks
  <2>13. ASSUME NEW r \in Ranks, Fault(r)
         PROVE  Contract!Next \/ UNCHANGED Contract!vars
    BY <2>13, <2>7, <2>8, <2>9 DEF Fault, Contract!Next, Ranks
  <2>14. ASSUME NEW s \in Ranks, NEW d \in Ranks, Match(s, d)
         PROVE  Contract!Next \/ UNCHANGED Contract!vars
    BY <2>14, <2>10 DEF Contract!Next, Ranks
  <2>. QED BY <2>11, <2>12, <2>13, <2>14 DEF Next
<1>. QED BY <1>1, <1>2, Invariance, PTL DEF Spec, ImplementsContract
===========================================================================
