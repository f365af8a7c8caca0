----------------------------- MODULE Rendezvous -----------------------------
(***************************************************************************)
(* How PML ob1 moves one message that does not go eagerly: the protocol    *)
(* between the send request of the process "s" and the receive request of  *)
(* the process "r", with the threads of both processes that run its        *)
(* callbacks.                                                              *)
(*                                                                         *)
(* RNDV carries the first bytes.  The receiver answers with an ACK that    *)
(* names the offset from which the sender goes on by FRAG messages, with   *)
(* PUT messages that each ask for an RDMA write of the bytes before it,    *)
(* which the sender confirms by a FIN, or with both.                       *)
(*                                                                         *)
(* A thread runs a callback as a list of steps, todo[t], each one access   *)
(* to what the threads share; a step may put others in front of the list.  *)
(* A BTL calls back with the descriptor of a message before it takes the   *)
(* descriptor back, which may be before the send returns.  Messages may    *)
(* overtake each other since they may take different BTLs.                 *)
(***************************************************************************)
EXTENDS Integers, Sequences, FiniteSets

CONSTANTS Job,        \* the transfers: records with these fields
          MaxThreads  \* bound: how many threads a process has at most

(***************************************************************************)
(*   length       the number of bytes of the message                       *)
(*   first        how many go with RNDV                                    *)
(*   split        req_send_offset: the bytes before go by RDMA             *)
(*   frag, put    how many bytes a FRAG or a PUT is for at most            *)
(*   pipeline     the pipeline depths of the sender and the receiver       *)
(*   threads      how many threads each process has                        *)
(*   descriptors  how many descriptors each process's BTL has              *)
(*   others       how many of them other messages use at first             *)
(*   errors       bound: how many times a BTL returns an error             *)
(***************************************************************************)
Sides == {"s", "r"}

ASSUME JobAssumption ==
  \A j \in Job : /\ j.length \in Nat /\ j.first \in 0 .. j.length
                 /\ j.split \in j.first .. j.length
                 /\ j.frag \in Nat \ {0} /\ j.put \in Nat \ {0}
                 /\ j.errors \in Nat
                 /\ \A p \in Sides : /\ j.pipeline[p] \in Nat \ {0}
                                     /\ j.threads[p] \in 1 .. MaxThreads
                                     /\ j.descriptors[p] \in Nat
                                     /\ j.others[p] \in 0 .. j.descriptors[p]

VARIABLES
  job,        \* the transfer, one of Job
  \* the send request
  state,      \* req_state: how many events it waits for before it may complete
  throttle,   \* req_throttle_sends
  ranges,     \* req_send_ranges: what is to be sent by FRAGs, as <<offset, length>>
  writes,     \* rdma_pending: the RDMA writes to be tried again
  \* the receive request
  matched,    \* req_match_received
  ackSent,    \* req_ack_sent
  offset,     \* req_rdma_offset: the RDMA is asked for up to here
  got,        \* how often each byte of the buffer was written
  \* both requests
  lock,       \* req_lock
  depth,      \* req_pipeline_depth
  bytes,      \* req_bytes_delivered, req_bytes_received
  parked,     \* what waits on send_pending or recv_pending: "none", "start" or "schedule"
  completed,  \* how often it was completed
  \* the processes
  packets,    \* pckt_pending: the ACK or the FINs to be sent again
  net,        \* the messages under way
  busy,       \* the descriptors whose callback is to come, as their messages
  free,       \* the number of descriptors left
  todo,       \* the steps a thread has before it
  errors      \* how many errors there have been

sendVars == <<state, throttle, ranges, writes>>
recvVars == <<matched, ackSent, offset, got>>
requestVars == <<lock, depth, bytes, parked, completed>>
btlVars == <<net, busy, free, errors>>
vars == <<job, sendVars, recvVars, requestVars, packets, btlVars, todo>>

Threads == UNION {{p} \X (1 .. job.threads[p]) : p \in Sides}
Side(t) == t[1]

Bytes == 0 .. job.length - 1

\* A message, with the bytes it is about.  The flag of an ACK is NORDMA, that of
\* a PUT says that it is an ACK too, that of a FIN that the write was made.
Message(type, at, len, flag) == [type |-> type, at |-> at, len |-> len, flag |-> flag]

AddressedTo(m) == IF m.type \in {"rndv", "frag", "fin"} THEN "r" ELSE "s"

Init == /\ job \in Job
        /\ state = 0
        /\ throttle \in BOOLEAN    \* what the request's last use left there
        /\ ranges = <<>>
        /\ writes = <<>>
        /\ matched = FALSE
        /\ ackSent = FALSE
        /\ offset = 0
        /\ got = [b \in Bytes |-> 0]
        /\ lock = [p \in Sides |-> 0]
        /\ depth = [p \in Sides |-> 0]
        /\ bytes = [p \in Sides |-> 0]
        /\ parked = [p \in Sides |-> "none"]
        /\ completed = [p \in Sides |-> 0]
        /\ packets = [p \in Sides |-> <<>>]
        /\ net = {}
        /\ busy = [p \in Sides |-> {Message("other", n, 0, FALSE) : n \in 1 .. job.others[p]}]
        /\ free = [p \in Sides |-> job.descriptors[p] - job.others[p]]
        /\ todo = [t \in Threads |-> IF t = <<"s", 1>> THEN <<<<"start">>>> ELSE <<>>]
        /\ errors = 0

-----------------------------------------------------------------------------
(* Callbacks, as steps.                                                    *)

\* When a request cannot be completed yet, more may have to be scheduled.
CheckOr(otherwise) == <<"check", otherwise>>

\* A message has arrived.
Handler(m) ==
  CASE m.type = "rndv" -> <<<<"match">>>>
    [] m.type = "ack" -> << <<"throttle", m.flag>>, <<"range", m.at, job.length - m.at>>,
                            <<"acked">>, CheckOr(<<<<"lock">>>>) >>
    [] m.type = "frag" -> << <<"unpack", m.at, m.len>>, <<"bytes", m.len>>,
                             CheckOr(<<<<"more">>>>) >>
    [] m.type = "put" -> (IF m.flag THEN <<<<"state">>>> ELSE <<>>) \o <<<<"write", m.at, m.len, 0>>>>
    [] m.type = "fin" -> << <<"depth">>, <<"bytes", IF m.flag THEN m.len ELSE 0>>,
                            CheckOr(<<<<"more">>>>), <<"progress">> >>

\* The descriptor of a message, or of an RDMA write, is done with.
Callback(m) ==
  CASE m.type = "rndv" -> << <<"bytes", m.len>>, <<"state">>, CheckOr(<<>>), <<"progress">> >>
    [] m.type = "frag" -> << <<"depth">>, <<"bytes", m.len>>, CheckOr(<<<<"lock">>>>), <<"progress">> >>
    [] m.type = "write" -> << <<"fin", m.at, m.len, TRUE>>, <<"bytes", m.len>>,
                              CheckOr(<<>>), <<"progress">> >>
    [] OTHER -> <<<<"progress">>>>

Idle(t) == todo[t] = <<>>
At(t, step) == ~Idle(t) /\ Head(todo[t])[1] = step
Argument(t, n) == Head(todo[t])[n + 1]

\* The step is done, and these come next.
Goto(t, steps) == todo' = [todo EXCEPT ![t] = steps \o Tail(@)]

-----------------------------------------------------------------------------
(* The BTL.                                                                *)

\* The descriptor of m is given to the BTL.  If the message leaves at once, the
\* send of a RNDV or a FIN returns 1, without the descriptor, and the BTL calls
\* back for the others.  RDMA writes take their time.
Post(t, m, next) == LET p == Side(t) IN
  /\ free[p] > 0
  /\ \/ /\ busy' = [busy EXCEPT ![p] = @ \union {m}]
        /\ free' = [free EXCEPT ![p] = @ - 1]
        /\ Goto(t, next)
     \/ /\ m.type \in {"rndv", "fin"}
        /\ Goto(t, Callback(m) \o next)
        /\ UNCHANGED <<busy, free>>
     \/ /\ m.type \in {"ack", "frag", "put"}
        /\ busy' = busy
        /\ free' = [free EXCEPT ![p] = @ - 1]
        /\ Goto(t, Callback(m) \o <<<<"return">>>> \o next)
  /\ errors' = errors

Send(t, m, next) == Post(t, m, next) /\ net' = net \union {m}

\* There is no descriptor.
Exhausted(t, next) == /\ free[Side(t)] = 0
                      /\ Goto(t, next)
                      /\ UNCHANGED btlVars

\* mca_bml_base_send returns an error, and the descriptor is given back: the BTL
\* lacks some other resource, which descriptors in use will set free.
Refused(t, next) == /\ errors < job.errors
                    /\ free[Side(t)] > 0
                    /\ Cardinality(busy[Side(t)]) >= 2
                    /\ errors' = errors + 1
                    /\ Goto(t, next)
                    /\ UNCHANGED <<net, busy, free>>

Fails(t, next) == Exhausted(t, next) \/ Refused(t, next)

\* A callback has returned.
ReturnDescriptor(t) == /\ At(t, "return")
                       /\ free' = [free EXCEPT ![Side(t)] = @ + 1]
                       /\ Goto(t, <<>>)
                       /\ UNCHANGED <<job, sendVars, recvVars, requestVars, packets, net, busy, errors>>

\* A thread in opal_progress finds a message or a descriptor; an RDMA write is
\* in the receiver's memory by then.
Receive(t, m) == /\ Idle(t) /\ AddressedTo(m) = Side(t)
                 /\ net' = net \ {m}
                 /\ todo' = [todo EXCEPT ![t] = Handler(m)]
                 /\ UNCHANGED <<job, sendVars, recvVars, requestVars, packets, busy, free, errors>>

Written(at, len) == [b \in Bytes |-> IF b \in at .. at + len - 1 THEN got[b] + 1 ELSE got[b]]

Finish(t, m) == /\ Idle(t)
                /\ busy' = [busy EXCEPT ![Side(t)] = @ \ {m}]
                /\ got' = IF m.type = "write" THEN Written(m.at, m.len) ELSE got
                /\ todo' = [todo EXCEPT ![t] = Callback(m) \o <<<<"return">>>>]
                /\ UNCHANGED <<job, sendVars, matched, ackSent, offset, requestVars, packets,
                               net, free, errors>>

-----------------------------------------------------------------------------
(* Both requests: completion and scheduling.                               *)

\* Before a completion, and before a round of the pipeline.
AddBytes(t) == /\ At(t, "bytes")
               /\ bytes' = [bytes EXCEPT ![Side(t)] = @ + Argument(t, 1)]
               /\ Goto(t, <<>>)
               /\ UNCHANGED <<job, sendVars, recvVars, lock, depth, parked, completed, packets, btlVars>>

DepthDown(t) == /\ At(t, "depth")
                /\ depth' = [depth EXCEPT ![Side(t)] = @ - 1]
                /\ Goto(t, <<>>)
                /\ UNCHANGED <<job, sendVars, recvVars, lock, bytes, parked, completed, packets, btlVars>>

\* As if the bytes alone told that a request is done.
ReadyByBytes(p) == bytes[p] >= job.length

\* No more events are expected, and all the bytes have come.
Ready(p) == /\ IF p = "s" THEN state = 0 ELSE matched
            /\ bytes[p] >= job.length

Check(t) == /\ At(t, "check")
            /\ Goto(t, IF Ready(Side(t)) THEN <<<<"claim", Argument(t, 1)>>>> ELSE Argument(t, 1))
            /\ UNCHANGED <<job, sendVars, recvVars, requestVars, packets, btlVars>>

\* lock_send_request, lock_recv_request: whoever finds the lock free completes
\* the request, and keeps it.
Claim(t) == LET p == Side(t) IN
  /\ At(t, "claim")
  /\ lock' = [lock EXCEPT ![p] = @ + 1]
  /\ Goto(t, IF lock[p] = 0 THEN <<<<"complete">>>> ELSE Argument(t, 1))
  /\ UNCHANGED <<job, sendVars, recvVars, depth, bytes, parked, completed, packets, btlVars>>

Complete(t) == /\ At(t, "complete")
               /\ completed' = [completed EXCEPT ![Side(t)] = @ + 1]
               /\ Goto(t, <<>>)
               /\ UNCHANGED <<job, sendVars, recvVars, lock, depth, bytes, parked, packets, btlVars>>

\* As if nobody looked whether the lock is free.
LockAnyway(t) == /\ At(t, "lock")
                 /\ lock' = [lock EXCEPT ![Side(t)] = @ + 1]
                 /\ Goto(t, <<<<"once">>>>)
                 /\ UNCHANGED <<job, sendVars, recvVars, depth, bytes, parked, completed, packets, btlVars>>

\* Whoever finds the lock free schedules, the others leave that to it.
Lock(t) == LET p == Side(t) IN
  /\ At(t, "lock")
  /\ lock' = [lock EXCEPT ![p] = @ + 1]
  /\ Goto(t, IF lock[p] = 0 THEN <<<<"once">>>> ELSE <<>>)
  /\ UNCHANGED <<job, sendVars, recvVars, depth, bytes, parked, completed, packets, btlVars>>

\* As if the lock were only set free.
UnlockOnce(t) == /\ At(t, "unlock")
                 /\ lock' = [lock EXCEPT ![Side(t)] = 0]
                 /\ Goto(t, <<CheckOr(<<>>)>>)
                 /\ UNCHANGED <<job, sendVars, recvVars, depth, bytes, parked, completed, packets, btlVars>>

\* Once more for everybody who found the lock taken in the meantime.
Unlock(t) == LET p == Side(t) IN
  /\ At(t, "unlock")
  /\ lock' = [lock EXCEPT ![p] = @ - 1]
  /\ Goto(t, IF lock[p] = 1 THEN <<CheckOr(<<>>)>> ELSE <<<<"once">>>>)
  /\ UNCHANGED <<job, sendVars, recvVars, depth, bytes, parked, completed, packets, btlVars>>

\* The BTL is out of resources: the request waits, still locked.
Park(t) == /\ At(t, "park")
           /\ parked' = [parked EXCEPT ![Side(t)] = Argument(t, 1)]
           /\ Goto(t, <<>>)
           /\ UNCHANGED <<job, sendVars, recvVars, lock, depth, bytes, completed, packets, btlVars>>

\* The depth is a size_t.
AtLeast(d, max) == d < 0 \/ d >= max

Smaller(a, b) == IF a < b THEN a ELSE b

-----------------------------------------------------------------------------
(* The send request.                                                       *)

Start(t) == /\ At(t, "start")
            /\ \/ /\ state' = 2
                  /\ \/ Send(t, Message("rndv", 0, job.first, FALSE), <<>>)
                     \/ Refused(t, <<<<"park", "start">>>>)
               \/ Exhausted(t, <<<<"park", "start">>>>) /\ state' = state
            /\ UNCHANGED <<job, throttle, ranges, writes, recvVars, requestVars, packets>>

StateDown(t) == /\ \/ At(t, "state")
                   \/ At(t, "acked") /\ state # 0
                /\ state' = state - 1
                /\ Goto(t, <<>>)
                /\ UNCHANGED <<job, throttle, ranges, writes, recvVars, requestVars, packets, btlVars>>

StateKept(t) == /\ At(t, "acked") /\ state = 0
                /\ Goto(t, <<>>)
                /\ UNCHANGED <<job, sendVars, recvVars, requestVars, packets, btlVars>>

Throttle(t) == /\ At(t, "throttle")
               /\ throttle' = (throttle \/ Argument(t, 1))
               /\ Goto(t, <<>>)
               /\ UNCHANGED <<job, state, ranges, writes, recvVars, requestVars, packets, btlVars>>

\* mca_pml_ob1_send_request_copy_in_out
AddRange(t) ==
  /\ At(t, "range")
  /\ ranges' = IF Argument(t, 2) = 0 THEN ranges
               ELSE Append(ranges, <<Argument(t, 1), Argument(t, 2)>>)
  /\ Goto(t, <<>>)
  /\ UNCHANGED <<job, state, throttle, writes, recvVars, requestVars, packets, btlVars>>

Full(p) == AtLeast(depth[p], job.pipeline[p])

\* mca_pml_ob1_send_request_schedule_once: a FRAG of the first range, unless
\* there are enough of them on their way.
SendOnce(t) ==
  /\ At(t, "once") /\ Side(t) = "s"
  /\ IF ranges = <<>> \/ (throttle /\ Full("s"))
     THEN Goto(t, <<<<"unlock">>>>) /\ UNCHANGED btlVars
     ELSE LET range == Head(ranges)
              n == Smaller(range[2], job.frag)
          IN \/ Send(t, Message("frag", range[1], n, FALSE), <<<<"sent", n>>>>)
             \/ Fails(t, <<<<"park", "schedule">>>>)
  /\ UNCHANGED <<job, sendVars, recvVars, requestVars, packets>>

FragSent(t) ==
  LET n == Argument(t, 1)
      range == Head(ranges)
      left == (IF range[2] = n THEN <<>> ELSE <<<<range[1] + n, range[2] - n>>>>) \o Tail(ranges)
  IN /\ At(t, "sent") /\ Side(t) = "s"
     /\ ranges' = left
     /\ depth' = [depth EXCEPT !["s"] = @ + 1]
     /\ Goto(t, IF left = <<>> THEN <<<<"unlock">>>> ELSE <<<<"once">>>>)
     /\ UNCHANGED <<job, state, throttle, writes, recvVars, lock, bytes, parked, completed,
                    packets, btlVars>>

\* mca_pml_ob1_send_request_put_frag: the RDMA write is made, or it is tried again
\* later, or replaced by FRAGs if it has been tried too often without a
\* descriptor; the writes that come next wait too.
Write(t) ==
  LET at == Argument(t, 1)
      len == Argument(t, 2)
  IN /\ At(t, "write")
     /\ \/ /\ Post(t, Message("write", at, len, FALSE), <<<<"writes", Argument(t, 3)>>>>)
           /\ net' = net
        \/ Fails(t, <<<<"postpone", at, len>>>>)
        \/ Exhausted(t, << <<"fin", at, len, FALSE>>, <<"range", at, len>>, <<"lock">> >>)
     /\ UNCHANGED <<job, sendVars, recvVars, requestVars, packets>>

Postpone(t) == /\ At(t, "postpone")
               /\ writes' = Append(writes, <<Argument(t, 1), Argument(t, 2)>>)
               /\ Goto(t, <<>>)
               /\ UNCHANGED <<job, state, throttle, ranges, recvVars, requestVars, packets, btlVars>>

\* mca_pml_ob1_send_fin
SendFin(t) == LET m == Message("fin", Argument(t, 1), Argument(t, 2), Argument(t, 3)) IN
  /\ At(t, "fin")
  /\ \/ Send(t, m, <<>>)
     \/ Fails(t, <<<<"queue", m>>>>)
  /\ UNCHANGED <<job, sendVars, recvVars, requestVars, packets>>

-----------------------------------------------------------------------------
(* The receive request.                                                    *)

\* mca_pml_ob1_recv_request_progress_rndv.  Nobody waits for an ACK that has
\* nothing to tell the sender but what a PUT tells it.
Match(t) == LET acks == job.split < job.length \/ job.first = job.length IN
  /\ At(t, "match")
  /\ matched' = TRUE
  /\ offset' = job.first
  /\ ackSent' = acks
  /\ Goto(t, (IF acks THEN <<<<"ack">>>> ELSE <<>>)
             \o << <<"unpack", 0, job.first>>, <<"bytes", job.first>>, CheckOr(<<<<"more">>>>) >>)
  /\ UNCHANGED <<job, sendVars, got, requestVars, packets, btlVars>>

\* mca_pml_ob1_recv_request_ack_send.  The flags of an ACK that is sent later
\* are whatever the memory of the pending packet held.
SendAck(t) ==
  /\ At(t, "ack")
  /\ \/ Send(t, Message("ack", job.split, 0, job.split = job.first), <<>>)
     \/ \E flag \in BOOLEAN : Fails(t, <<<<"queue", Message("ack", job.split, 0, flag)>>>>)
  /\ UNCHANGED <<job, sendVars, recvVars, requestVars, packets>>

Unpack(t) == /\ At(t, "unpack")
             /\ got' = Written(Argument(t, 1), Argument(t, 2))
             /\ Goto(t, <<>>)
             /\ UNCHANGED <<job, sendVars, matched, ackSent, offset, requestVars, packets, btlVars>>

More(t) == /\ At(t, "more")
           /\ Goto(t, IF offset < job.split THEN <<<<"lock">>>> ELSE <<>>)
           /\ UNCHANGED <<job, sendVars, recvVars, requestVars, packets, btlVars>>

\* mca_pml_ob1_recv_request_schedule_once: a PUT for the next bytes.  The first
\* one is an ACK too if there was none.
RecvOnce(t) ==
  /\ At(t, "once") /\ Side(t) = "r"
  /\ LET n == Smaller(job.split - offset, job.put) IN
     IF n = 0 \/ Full("r")
     THEN Goto(t, <<<<"unlock">>>>) /\ UNCHANGED <<btlVars, ackSent>>
     ELSE \/ /\ Send(t, Message("put", offset, n, ~ackSent), <<<<"sent", n>>>>)
             /\ ackSent' = TRUE
          \/ Refused(t, <<<<"park", "schedule">>>>) /\ ackSent' = TRUE
          \/ Exhausted(t, <<<<"park", "schedule">>>>) /\ ackSent' = ackSent
  /\ UNCHANGED <<job, sendVars, matched, offset, got, requestVars, packets>>

PutSent(t) == /\ At(t, "sent") /\ Side(t) = "r"
              /\ offset' = offset + Argument(t, 1)
              /\ depth' = [depth EXCEPT !["r"] = @ + 1]
              /\ Goto(t, <<<<"once">>>>)
              /\ UNCHANGED <<job, sendVars, matched, ackSent, got, lock, bytes, parked, completed,
                             packets, btlVars>>

-----------------------------------------------------------------------------
(* What waits for resources.                                               *)

\* MCA_PML_OB1_PROGRESS_PENDING: packets, requests and RDMA writes, in turn.
Progress(t) ==
  /\ At(t, "progress")
  /\ Goto(t, (IF packets[Side(t)] = <<>> THEN <<>> ELSE <<<<"packets", Len(packets[Side(t)])>>>>)
             \o (IF parked[Side(t)] = "none" THEN <<>> ELSE <<<<"unpark">>>>)
             \o (IF Side(t) = "r" \/ writes = <<>> THEN <<>> ELSE <<<<"writes", Len(writes)>>>>))
  /\ UNCHANGED <<job, sendVars, recvVars, requestVars, packets, btlVars>>

\* mca_pml_ob1_process_pending_packets: as many as there were at first, until
\* one fails, which goes back to the end of the list.
Packets(t) ==
  LET p == Side(t)
      left == Argument(t, 1)
  IN /\ At(t, "packets")
     /\ IF left = 0 \/ packets[p] = <<>>
        THEN Goto(t, <<>>) /\ UNCHANGED <<btlVars, packets>>
        ELSE /\ \/ Send(t, Head(packets[p]), <<<<"packets", left - 1>>>>)
                \/ Fails(t, <<<<"queue", Head(packets[p])>>>>)
             /\ packets' = [packets EXCEPT ![p] = Tail(@)]
     /\ UNCHANGED <<job, sendVars, recvVars, requestVars>>

Queue(t) == /\ At(t, "queue")
            /\ packets' = [packets EXCEPT ![Side(t)] = Append(@, Argument(t, 1))]
            /\ Goto(t, <<>>)
            /\ UNCHANGED <<job, sendVars, recvVars, requestVars, btlVars>>

\* A request that waits to be scheduled is locked already.
Unpark(t) == LET p == Side(t) IN
  /\ At(t, "unpark")
  /\ parked' = [parked EXCEPT ![p] = "none"]
  /\ Goto(t, CASE parked[p] = "none" -> <<>>
               [] parked[p] = "start" -> <<<<"start">>>>
               [] parked[p] = "schedule" -> <<<<"once">>>>)
  /\ UNCHANGED <<job, sendVars, recvVars, lock, depth, bytes, completed, packets, btlVars>>

\* mca_pml_ob1_process_pending_rdma, as many as there are at first.
Writes(t) ==
  /\ At(t, "writes")
  /\ IF Argument(t, 1) = 0 \/ writes = <<>>
     THEN Goto(t, <<>>) /\ writes' = writes
     ELSE /\ Goto(t, <<<<"write", Head(writes)[1], Head(writes)[2], Argument(t, 1) - 1>>>>)
          /\ writes' = Tail(writes)
  /\ UNCHANGED <<job, state, throttle, ranges, recvVars, requestVars, packets, btlVars>>

\* mca_pml_ob1_progress looks at the send requests that wait, and only at those.
Poll(t) == /\ Idle(t) /\ Side(t) = "s"
           /\ parked["s"] # "none"
           /\ todo' = [todo EXCEPT ![t] = <<<<"unpark">>>>]
           /\ UNCHANGED <<job, sendVars, recvVars, requestVars, packets, btlVars>>

-----------------------------------------------------------------------------

Step(t) == \/ ReturnDescriptor(t) \/ AddBytes(t) \/ DepthDown(t)
           \/ Check(t) \/ Claim(t) \/ Complete(t) \/ Lock(t) \/ Unlock(t) \/ Park(t)
           \/ Start(t) \/ StateDown(t) \/ StateKept(t) \/ Throttle(t) \/ AddRange(t)
           \/ SendOnce(t) \/ FragSent(t) \/ Write(t) \/ Postpone(t) \/ SendFin(t)
           \/ Match(t) \/ SendAck(t) \/ Unpack(t) \/ More(t) \/ RecvOnce(t) \/ PutSent(t)
           \/ Progress(t) \/ Packets(t) \/ Queue(t) \/ Unpark(t) \/ Writes(t)
           \/ Poll(t)

Finished == /\ \A p \in Sides : completed[p] > 0 /\ busy[p] = {}
            /\ net = {}
            /\ \A t \in Threads : Idle(t)
            /\ UNCHANGED vars

Next == \/ \E t \in Threads : Step(t)
        \/ \E t \in Threads : \E m \in net : Receive(t, m)
        \/ \E t \in Threads : \E m \in busy[Side(t)] : Finish(t, m)
        \/ Finished

\* Every thread that is in a callback goes on.  The others call opal_progress
\* again and again, which asks all the BTLs each time.
Fairness == /\ \A t \in Sides \X (1 .. MaxThreads) : WF_vars(t \in Threads /\ Step(t))
            /\ SF_vars(\E t \in Threads : \E m \in net : Receive(t, m))
            /\ SF_vars(\E t \in Threads : \E m \in busy[Side(t)] : Finish(t, m))

Spec == Init /\ [][Next]_vars /\ Fairness

-----------------------------------------------------------------------------
(* Properties.                                                             *)

Messages(types) == [type : types, at : Int, len : Int, flag : BOOLEAN]
OnTheNet == Messages({"rndv", "ack", "frag", "put", "fin"})
InUse == Messages({"rndv", "ack", "frag", "put", "fin", "write", "other"})
Pending == Messages({"ack", "fin"})

\* What the steps of a callback look like.
Steps ==
  {<<name>> : name \in {"return", "depth", "acked", "state", "lock", "more", "once", "unlock",
                        "complete", "start", "match", "ack", "progress", "unpark"}}
  \union {"bytes", "sent", "packets", "writes"} \X Int
  \union {"check", "claim"} \X {<<>>, <<<<"lock">>>>, <<<<"more">>>>}
  \union {"throttle"} \X BOOLEAN
  \union {"park"} \X {"start", "schedule"}
  \union {"queue"} \X Pending
  \union {"unpack", "range", "postpone"} \X Int \X Int
  \union {"write"} \X Int \X Int \X Int
  \union {"fin"} \X Int \X Int \X BOOLEAN

TypeOK == /\ job \in Job
          /\ state \in Int
          /\ throttle \in BOOLEAN
          /\ ranges \in Seq(Int \X Int)
          /\ writes \in Seq(Int \X Int)
          /\ matched \in BOOLEAN /\ ackSent \in BOOLEAN
          /\ offset \in Int
          /\ got \in [Bytes -> Nat]
          /\ lock \in [Sides -> Nat]
          /\ depth \in [Sides -> Int]
          /\ bytes \in [Sides -> Int]
          /\ parked \in [Sides -> {"none", "start", "schedule"}] /\ parked["r"] # "start"
          /\ completed \in [Sides -> Nat]
          /\ packets \in [Sides -> Seq(Pending)]
          /\ net \subseteq OnTheNet
          /\ busy \in [Sides -> SUBSET InUse]
          /\ free \in [Sides -> Nat]
          /\ todo \in [Threads -> Seq(Steps)]
          /\ errors \in 0 .. job.errors

\* A thread with such a step before it is the one that schedules or completes a
\* request, or that starts the send request.
Owns(step) == step[1] \in {"start", "once", "sent", "unlock", "complete", "park"}
Starts(step) == step \in {<<"start">>, <<"park", "start">>}

OwnsNothing(steps) == \A i \in DOMAIN steps : ~Owns(steps[i])
OwnsOnce(steps) == \E i \in DOMAIN steps :
                     Owns(steps[i]) /\ \A j \in DOMAIN steps : Owns(steps[j]) => j = i

NoThreadOwns(p) == \A t \in Threads : Side(t) = p => OwnsNothing(todo[t])
OneThreadOwns(p) == \E t \in Threads :
  /\ Side(t) = p /\ OwnsOnce(todo[t])
  /\ \A u \in Threads : Side(u) = p /\ u # t => OwnsNothing(todo[u])

\* The send request has not been started.
Starting == \/ parked["s"] = "start"
            \/ \E t \in Threads : \E i \in DOMAIN todo[t] : Starts(todo[t][i])

\* Until then the threads find nothing but what other messages leave behind.
Quiet == /\ net = {} /\ writes = <<>>
         /\ \A p \in Sides : /\ packets[p] = <<>> /\ completed[p] = 0
                             /\ \A m \in busy[p] : m.type = "other"
         /\ parked["r"] = "none"
         /\ \A t \in Threads : \A i \in DOMAIN todo[t] :
              \/ todo[t][i][1] \in {"return", "progress"}
              \/ Side(t) = "s" /\ (Starts(todo[t][i]) \/ todo[t][i][1] = "unpark")

\* "Only one thread can be inside this function": at any time one at most owns a
\* request, or it waits for resources, or it has been completed; and, once the
\* send is started, the lock of a request is taken then, and only then.
OneHolder == \A p \in Sides :
  /\ completed[p] \in {0, 1}
  /\ \/ NoThreadOwns(p) /\ (completed[p] = 0 \/ parked[p] = "none")
     \/ OneThreadOwns(p) /\ completed[p] = 0 /\ parked[p] = "none"
  /\ lock[p] > 0 <=> /\ ~Starting
                     /\ OneThreadOwns(p) \/ parked[p] # "none" \/ completed[p] = 1

\* The bytes that were sent last are still in the first range.
RangeInHand == \A t \in Threads : \A i \in DOMAIN todo[t] :
  Side(t) = "s" /\ todo[t][i][1] = "sent" => ranges # <<>>

\* The invariant behind OneHolder.
IInv == TypeOK /\ (Starting => Quiet) /\ OneHolder /\ RangeInHand

\* What the counters count stays within the request, and the thread that schedules
\* never finds the depth below zero, where a size_t is large, although a send may
\* be over before it is counted.
CountsOK == /\ state \in 0 .. 2
            /\ offset \in 0 .. job.split
            /\ \A p \in Sides : /\ bytes[p] \in 0 .. job.length
                                /\ free[p] <= job.descriptors[p]
            /\ \A t \in Threads : At(t, "once") => depth[Side(t)] >= 0

\* A request is completed once: the receive when each byte has come, once; the
\* send when it has been matched and nothing reads the buffer any more, nor
\* does an answer of the receiver come to the request afterwards.
CompletedWhole ==
  /\ CountsOK
  /\ \A b \in Bytes : got[b] <= 1
  /\ completed["r"] = 1 => \A b \in Bytes : got[b] = 1
  /\ completed["s"] = 1 =>
       /\ matched
       /\ ranges = <<>> /\ writes = <<>>
       /\ \A m \in net : AddressedTo(m) # "s"
       /\ \A m \in busy["s"] : m.type \in {"fin", "other"}

\* Both requests are completed, whatever the BTLs lack at times.
Termination == <>[](\A p \in Sides : completed[p] = 1)

\* The steps that read or write the request, on either side.
Touches(step) == step[1] \in {"bytes", "depth", "check", "claim", "lock", "more", "unpack",
                              "state", "acked", "throttle", "range", "once"}

\* "Request structure cannot be accessed after calling this function any more."
NothingTouched == \A t \in Threads : ~Idle(t) /\ Touches(Head(todo[t])) => completed[Side(t)] = 0
=============================================================================
