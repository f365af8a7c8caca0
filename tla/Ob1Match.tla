------------------------------ MODULE Ob1Match ------------------------------
(***************************************************************************)
(* The matching layer of pml/ob1 at one receiver, for one communicator:    *)
(* messages come in over several devices, in any order, and are brought    *)
(* back into the order they were sent in by a number in their headers;     *)
(* then they meet the posted receives, or wait for one in the queue of     *)
(* unexpected messages.  Several threads may be in the layer; what a       *)
(* thread does under the matching lock is one action.                      *)
(***************************************************************************)
EXTENDS Integers, FiniteSets

CONSTANTS
  Senders,      \* the ranks that send, 0 .. n - 1
  MessageTags,  \* the tags of messages; negative ones are internal
  ReceiveTags,  \* the tags receives ask for
  Threads,      \* the threads of the receiver
  Configs,      \* the settings below
  SeqNumbers    \* the numbers in the headers: 2^16

(***************************************************************************)
(*   threads   the threads that are in the layer                           *)
(*   created   whether the communicator exists when the first message      *)
(*             comes in                                                    *)
(*   window    bound: how many numbers a sender may be ahead of the        *)
(*             receiver                                                    *)
(*   fails     bound: how many sends fail after they have taken a number   *)
(*   cancels   bound: how many receives are cancelled                      *)
(*   probes    whether the application probes                              *)
(*   sends     bound: sends of each sender                                 *)
(*   posts     bound: receives and probes posted                           *)
(***************************************************************************)
ASSUME SendersAssumption == /\ IsFiniteSet(Senders)
                            /\ Senders = 0 .. Cardinality(Senders) - 1
ASSUME TagsAssumption == MessageTags \subseteq Int /\ ReceiveTags \subseteq Int
ASSUME SeqNumbersAssumption == SeqNumbers \in Nat \ {0}

\* A sender is never so far ahead that two of its messages on their way have the same
\* number, and a communicator is created while one thread is in the layer.
ASSUME ConfigsAssumption ==
  \A c \in Configs :
    /\ c.threads \subseteq Threads
    /\ c.created \in BOOLEAN /\ c.probes \in BOOLEAN
    /\ c.window \in 1 .. SeqNumbers
    /\ c.sends \in [Senders -> Nat]
    /\ ~c.created => \A t, u \in c.threads : t = u

AnySource == -1   \* OMPI_ANY_SOURCE
AnyTag == -1      \* OMPI_ANY_TAG

VARIABLES
  config,       \* one of Configs
  created,      \* the communicator exists
  pending,      \* non_existing_communicator_pending, in any order as messages come
  net,          \* net[s]: the messages of s on their way
  sends,        \* send_sequence of s, not wrapped
  accepted,     \* accepted[s]: how many messages of s were let in, in order
  cant,         \* frags_cant_match, in any order
  unexpected,   \* unexpected_frags: each with its place in the order they were let in
  specific,     \* specific_receives, in the order of their numbers
  wild,         \* wild_receives, in the order of their numbers
  posts,        \* recv_sequence
  last_probed,
  took,         \* which receive took which message of which sender
  marked,       \* the receives with req_match_received
  cancelled,    \* the receives with req_status._cancelled
  pc,           \* where a thread is
  fails         \* how many sends have failed

messages == <<pending, net, sends, accepted, cant, unexpected>>
receives == <<specific, wild, posts, last_probed, took, marked, cancelled>>
vars == <<config, created, messages, receives, pc, fails>>

hdr_seq(m) == m.k % SeqNumbers
expected_sequence(s) == (accepted[s] + 1) % SeqNumbers

Idle == [at |-> "idle"]
Free(t) == t \in config.threads /\ pc[t] = Idle
Goto(t, place) == pc' = [pc EXCEPT ![t] = place]

Accepts(r, s, m) == /\ r.src \in {s, AnySource}
                    /\ r.tag = m.tag \/ (r.tag = AnyTag /\ m.tag >= 0)

Init == /\ config \in Configs
        /\ created = config.created
        /\ pending = {}
        /\ net = [s \in Senders |-> {}]
        /\ sends = [s \in Senders |-> 0]
        /\ accepted = [s \in Senders |-> 0]
        /\ cant = [s \in Senders |-> {}]
        /\ unexpected = [s \in Senders |-> {}]
        /\ specific = [s \in Senders |-> {}]
        /\ wild = {}
        /\ posts = 0
        /\ last_probed = 0
        /\ took = {}
        /\ marked = {}
        /\ cancelled = {}
        /\ pc = [t \in Threads |-> Idle]
        /\ fails = 0

-----------------------------------------------------------------------------
(* The senders.  The number is taken first; a message that goes out inline *)
(* may overtake one that waits for a device.                               *)

Send(s) == /\ sends[s] < config.sends[s]
           /\ sends[s] - accepted[s] < config.window
           /\ sends' = [sends EXCEPT ![s] = @ + 1]
           /\ \/ /\ \E tag \in MessageTags :
                      net' = [net EXCEPT ![s] = @ \union {[s |-> s, tag |-> tag, k |-> sends'[s]]}]
                 /\ fails' = fails
              \/ /\ fails < config.fails
                 /\ fails' = fails + 1
                 /\ UNCHANGED net
           /\ UNCHANGED <<config, created, pending, accepted, cant, unexpected, receives, pc>>

-----------------------------------------------------------------------------
(* Matching, under the lock of the communicator.                           *)

\* Bug: receives from a given source go first.
EarliestSpecific(R) ==
  LET given == {r \in R : r.src # AnySource}
  IN {r \in R : /\ given # {} => r \in given
               /\ \A q \in IF given # {} THEN given ELSE R : r.seq <= q.seq}

\* match_incomming goes through both queues in the order of the posting.
Earliest(R) == {r \in R : \A q \in R : r.seq <= q.seq}

\* The receive that gets message m of s, after the probes posted before it.
Able(s, m) == {r \in specific[s] \union wild : Accepts(r, s, m)}
Taker(s, m) == Earliest({r \in Able(s, m) : ~r.probe})
Probes(s, m) == {r \in Able(s, m) : r.probe /\ \A q \in Taker(s, m) : r.seq < q.seq}

\* A message gets the next place in the order of its sender.
LetIn(s) == accepted' = [accepted EXCEPT ![s] = @ + 1]
Keep(s, m) == unexpected' = [unexpected EXCEPT ![s] = @ \union {[n |-> accepted'[s], m |-> m]}]

\* The receives that match_one takes off the queues for message m.
match_one(s, m) ==
  /\ specific' = [specific EXCEPT ![s] = @ \ (Taker(s, m) \union Probes(s, m))]
  /\ wild' = wild \ (Taker(s, m) \union Probes(s, m))
  /\ took' = took \union {[seq |-> r.seq, s |-> s, k |-> m.k] : r \in Taker(s, m)}
  /\ LetIn(s)
  /\ IF Taker(s, m) = {} THEN Keep(s, m) ELSE UNCHANGED unexpected
  /\ UNCHANGED <<posts, last_probed, cancelled>>

\* The receives match_one finds.
Matched == took' \ took

\* Outside the lock the thread writes to the request it has found.
Progress(t, s, matched, next) ==
  Goto(t, [at |-> "progress", s |-> s, matched |-> {x.seq : x \in matched}, next |-> next])

-----------------------------------------------------------------------------
(* A message comes in.                                                     *)

Arrive(t, s, m) ==
  /\ Free(t)
  /\ net' = [net EXCEPT ![s] = @ \ {m}]
  /\ UNCHANGED <<config, created, pending, sends, fails>>

\* Bug: the fast path does not look at the messages that wait for their turn.
CallbackAlwaysFast(t, s, m) ==
  /\ created
  /\ Arrive(t, s, m)
  /\ \/ /\ hdr_seq(m) = expected_sequence(s)
        /\ match_one(s, m)
        /\ Progress(t, s, Matched, "idle")
        /\ UNCHANGED <<cant, marked>>
     \/ /\ hdr_seq(m) # expected_sequence(s)
        /\ Goto(t, [at |-> "slow", s |-> s, m |-> m])
        /\ UNCHANGED <<accepted, cant, unexpected, receives>>

\* mca_pml_ob1_recv_frag_callback_match: the fast path if the message is the next
\* one and none is waiting, or the slow one.
CallbackMatch(t, s, m) ==
  /\ created
  /\ Arrive(t, s, m)
  /\ \/ /\ hdr_seq(m) = expected_sequence(s) /\ cant[s] = {}
        /\ match_one(s, m)
        /\ Progress(t, s, Matched, "idle")
        /\ UNCHANGED <<cant, marked>>
     \/ /\ hdr_seq(m) # expected_sequence(s) \/ cant[s] # {}
        /\ Goto(t, [at |-> "slow", s |-> s, m |-> m])
        /\ UNCHANGED <<accepted, cant, unexpected, receives>>

\* The messages that start a rendezvous have no fast path.
CallbackRndv(t, s, m) ==
  /\ created
  /\ Arrive(t, s, m)
  /\ Goto(t, [at |-> "slow", s |-> s, m |-> m])
  /\ UNCHANGED <<accepted, cant, unexpected, receives>>

\* The communicator does not exist yet: the message is put aside.
CallbackTooEarly(t, s, m) ==
  /\ ~created
  /\ Free(t)
  /\ net' = [net EXCEPT ![s] = @ \ {m}]
  /\ pending' = pending \union {m}
  /\ UNCHANGED <<config, created, sends, accepted, cant, unexpected, receives, pc, fails>>

\* Bug: a message that is let in does not look for those that waited for it.
RecvFragMatchOnly(t) ==
  /\ pc[t].at = "slow"
  /\ LET s == pc[t].s
         m == pc[t].m
     IN \/ /\ hdr_seq(m) = expected_sequence(s)
           /\ match_one(s, m)
           /\ Progress(t, s, Matched, "idle")
           /\ UNCHANGED <<cant, marked>>
        \/ /\ hdr_seq(m) # expected_sequence(s)
           /\ cant' = [cant EXCEPT ![s] = @ \union {m}]
           /\ Goto(t, Idle)
           /\ UNCHANGED <<accepted, unexpected, receives>>
  /\ UNCHANGED <<config, created, pending, net, sends, fails>>

\* mca_pml_ob1_recv_frag_match
RecvFragMatch(t) ==
  /\ pc[t].at = "slow"
  /\ LET s == pc[t].s
         m == pc[t].m
     IN \/ /\ hdr_seq(m) = expected_sequence(s)
           /\ match_one(s, m)
           /\ Progress(t, s, Matched, "check")
           /\ UNCHANGED <<cant, marked>>
        \/ /\ hdr_seq(m) # expected_sequence(s)
           /\ cant' = [cant EXCEPT ![s] = @ \union {m}]
           /\ Goto(t, Idle)
           /\ UNCHANGED <<accepted, unexpected, receives>>
  /\ UNCHANGED <<config, created, pending, net, sends, fails>>

\* MCA_PML_OB1_RECV_REQUEST_MATCHED
Mark(t) == /\ pc[t].at = "progress"
           /\ marked' = marked \union pc[t].matched
           /\ Goto(t, IF pc[t].next = "idle" THEN Idle ELSE [at |-> pc[t].next, s |-> pc[t].s])
           /\ UNCHANGED <<config, created, messages, specific, wild, posts, last_probed, took,
                          cancelled, fails>>

\* The list is looked at without the lock before the lock is taken.
CheckCantMatch(t) == /\ pc[t].at = "check"
                     /\ Goto(t, IF cant[pc[t].s] = {} THEN Idle
                                ELSE [at |-> "search", s |-> pc[t].s])
                     /\ UNCHANGED <<config, created, messages, receives, fails>>

\* check_cantmatch_for_match: the messages waiting in cant[s] whose turn has come.
NextOf(s) == {m \in cant[s] : hdr_seq(m) = expected_sequence(s)}

\* check_cantmatch_for_match, and the match of what it finds.
SearchCantMatch(t) ==
  /\ pc[t].at = "search"
  /\ LET s == pc[t].s
     IN \/ \E m \in NextOf(s) :
           /\ cant' = [cant EXCEPT ![s] = @ \ {m}]
           /\ match_one(s, m)
           /\ Progress(t, s, Matched, "check")
           /\ UNCHANGED marked
        \/ /\ NextOf(s) = {}
           /\ Goto(t, Idle)
           /\ UNCHANGED <<accepted, cant, unexpected, receives>>
  /\ UNCHANGED <<config, created, pending, net, sends, fails>>

-----------------------------------------------------------------------------
(* The communicator is created: mca_pml_ob1_add_comm lets in the messages  *)
(* that were put aside, without matching.                                  *)

AddComm(t) == /\ ~created
              /\ Free(t)
              /\ Goto(t, [at |-> "adding"])
              /\ UNCHANGED <<config, created, messages, receives, fails>>

AddFragment(t) ==
  /\ pc[t].at = "adding"
  /\ \E m \in pending :
     /\ \/ /\ hdr_seq(m) = expected_sequence(m.s)
           /\ LetIn(m.s) /\ Keep(m.s, m)
           /\ Goto(t, [at |-> "adding next", s |-> m.s])
           /\ UNCHANGED cant
        \/ /\ hdr_seq(m) # expected_sequence(m.s)
           /\ cant' = [cant EXCEPT ![m.s] = @ \union {m}]
           /\ UNCHANGED <<accepted, unexpected, pc>>
     /\ pending' = pending \ {m}
  /\ UNCHANGED <<config, created, net, sends, receives, fails>>

\* Bug: the message that is let in stays in the list.
AddNextKept(t) ==
  /\ pc[t].at = "adding next"
  /\ LET s == pc[t].s IN
     \/ \E m \in NextOf(s) : LetIn(s) /\ Keep(s, m) /\ UNCHANGED <<cant, pc>>
     \/ /\ NextOf(s) = {}
        /\ Goto(t, [at |-> "adding"])
        /\ UNCHANGED <<accepted, unexpected, cant>>
  /\ UNCHANGED <<config, created, pending, net, sends, receives, fails>>

AddNext(t) ==
  /\ pc[t].at = "adding next"
  /\ LET s == pc[t].s IN
     \/ \E m \in NextOf(s) : /\ LetIn(s) /\ Keep(s, m)
                             /\ cant' = [cant EXCEPT ![s] = @ \ {m}]
                             /\ UNCHANGED pc
     \/ /\ NextOf(s) = {}
        /\ Goto(t, [at |-> "adding"])
        /\ UNCHANGED <<accepted, unexpected, cant>>
  /\ UNCHANGED <<config, created, pending, net, sends, receives, fails>>

Added(t) == /\ pc[t].at = "adding"
            /\ pending = {}
            /\ created' = TRUE
            /\ Goto(t, Idle)
            /\ UNCHANGED <<config, messages, receives, fails>>

-----------------------------------------------------------------------------
(* The receives of the application.                                        *)

\* recv_req_match_specific_proc: the first message of s the receive may take.
OfSender(r, s) == LET able == {e \in unexpected[s] : Accepts(r, s, e.m)}
                  IN {e \in able : \A d \in able : e.n <= d.n}

Around(i) == (last_probed + i) % Cardinality(Senders)
Having(r, I) == {i \in I : OfSender(r, Around(i)) # {}}
Nearest(r, I) == UNION {OfSender(r, Around(i)) :
                          i \in {j \in Having(r, I) : \A h \in Having(r, I) : j <= h}}

\* Bug: the round ends before the sender found last.
OfAnyOther(r) == Nearest(r, 1 .. Cardinality(Senders) - 1)

\* recv_req_match_wild goes round from the sender found last.
OfAny(r) == Nearest(r, 1 .. Cardinality(Senders))

\* mca_pml_ob1_recv_req_start for an irecv or a probe; a probe that does not wait is
\* not queued.  A matched probe takes its message away, as an irecv does.
Post(t) ==
  /\ created
  /\ Free(t)
  /\ posts < config.posts
  /\ posts' = posts + 1
  /\ \E src \in Senders \union {AnySource}, tag \in ReceiveTags,
        probe \in {FALSE, config.probes} :
       LET r == [seq |-> posts, src |-> src, tag |-> tag, probe |-> probe]
           found == IF src = AnySource THEN OfAny(r) ELSE OfSender(r, src)
       IN \/ /\ found = {}
             /\ IF src = AnySource
                  THEN /\ wild' = wild \union {r}
                       /\ UNCHANGED specific
                  ELSE /\ specific' = [specific EXCEPT ![src] = @ \union {r}]
                       /\ UNCHANGED wild
             /\ UNCHANGED <<unexpected, last_probed, took, marked>>
          \/ /\ found = {} /\ config.probes   \* MCA_PML_REQUEST_IPROBE or _IMPROBE
             /\ UNCHANGED <<unexpected, specific, wild, last_probed, took, marked>>
          \/ \E e \in found :
             /\ last_probed' = IF src = AnySource THEN e.m.s ELSE last_probed
             /\ IF probe
                  THEN UNCHANGED <<unexpected, took, marked>>
                  ELSE /\ unexpected' = [unexpected EXCEPT ![e.m.s] = @ \ {e}]
                       /\ took' = took \union {[seq |-> r.seq, s |-> e.m.s, k |-> e.m.k]}
                       /\ marked' = marked \union {r.seq}
             /\ UNCHANGED <<specific, wild>>
  /\ UNCHANGED <<config, created, pending, net, sends, accepted, cant, cancelled, pc, fails>>

Queued == (UNION {specific[s] : s \in Senders}) \union wild

\* The receives posted and not matched, probes left out.
Posted == {r \in Queued : ~r.probe}

Taken == {x.seq : x \in took}

\* mca_pml_ob1_recv_request_cancel looks at req_match_received before it takes the
\* lock.
CancelCheck(t, n) ==
  /\ Free(t)
  /\ n \notin marked \union cancelled
  /\ Cardinality(cancelled) < config.cancels
  /\ \A u \in Threads : pc[u].at # "cancel"
  /\ Goto(t, [at |-> "cancel", n |-> n])
  /\ UNCHANGED <<config, created, messages, receives, fails>>

\* Bug: a receive from any source stays in the queue.
CancelSpecific(t) ==
  /\ pc[t].at = "cancel"
  /\ LET mine == {r \in Queued : r.seq = pc[t].n}
     IN /\ specific' = [s \in Senders |-> specific[s] \ mine]
        /\ wild' = wild
  /\ cancelled' = cancelled \union {pc[t].n}
  /\ Goto(t, Idle)
  /\ UNCHANGED <<config, created, messages, posts, last_probed, took, marked, fails>>

Cancel(t) ==
  /\ pc[t].at = "cancel"
  /\ LET mine == {r \in Queued : r.seq = pc[t].n}
     IN /\ specific' = [s \in Senders |-> specific[s] \ mine]
        /\ wild' = wild \ mine
  /\ cancelled' = cancelled \union {pc[t].n}
  /\ Goto(t, Idle)
  /\ UNCHANGED <<config, created, messages, posts, last_probed, took, marked, fails>>

-----------------------------------------------------------------------------
Step(t) == \/ RecvFragMatch(t) \/ Mark(t) \/ CheckCantMatch(t) \/ SearchCantMatch(t)
           \/ AddComm(t) \/ AddFragment(t) \/ AddNext(t) \/ Added(t)
           \/ Cancel(t)

Callback(t) == \E s \in Senders : \E m \in net[s] :
                 CallbackMatch(t, s, m) \/ CallbackRndv(t, s, m) \/ CallbackTooEarly(t, s, m)

Next == \/ \E s \in Senders : Send(s)
        \/ \E t \in Threads :
             \/ Step(t)
             \/ Callback(t)
             \/ Post(t)
             \/ \E n \in {r.seq : r \in Posted} \union Taken : CancelCheck(t, n)

\* Every thread that is in the layer goes on, every message gets to the receiver,
\* and a communicator that messages are sent on is created there too.
Fairness == /\ \A t \in Threads : WF_vars(Step(t))
            /\ WF_vars(\E t \in Threads : Callback(t))

Spec == Init /\ [][Next]_vars /\ Fairness

-----------------------------------------------------------------------------
(* Properties.                                                             *)

Message == [s : Senders, tag : MessageTags, k : Nat \ {0}]
Receive == [seq : Nat, src : Senders \union {AnySource}, tag : ReceiveTags, probe : BOOLEAN]

Place == {Idle, [at |-> "adding"]}
         \union [at : {"slow"}, s : Senders, m : Message]
         \union [at : {"progress"}, s : Senders, matched : SUBSET Nat, next : {"idle", "check"}]
         \union [at : {"check", "search", "adding next"}, s : Senders]
         \union [at : {"cancel"}, n : Nat]

TypeOK == /\ config \in Configs /\ created \in BOOLEAN
          /\ pending \subseteq Message
          /\ net \in [Senders -> SUBSET Message] /\ cant \in [Senders -> SUBSET Message]
          /\ unexpected \in [Senders -> SUBSET [n : Nat, m : Message]]
          /\ sends \in [Senders -> Nat] /\ accepted \in [Senders -> Nat]
          /\ specific \in [Senders -> SUBSET Receive] /\ wild \subseteq Receive
          /\ posts \in Nat /\ last_probed \in Nat
          /\ took \subseteq [seq : Nat, s : Senders, k : Nat]
          /\ marked \subseteq Nat /\ cancelled \subseteq Nat
          /\ pc \in [Threads -> Place]

\* The messages that were not let in, each with where it is.
Slow == {t \in Threads : pc[t].at = "slow"}
Copies == {<<m, "net">> : m \in UNION {net[s] : s \in Senders}}
          \union {<<m, "cant">> : m \in UNION {cant[s] : s \in Senders}}
          \union {<<m, "pending">> : m \in pending}
          \union {<<pc[t].m, "slow", t>> : t \in Slow}

\* A message is in one place; those let in are the first of their sender, and were let
\* in in the order they were sent.
MessagesOK ==
  /\ \A c \in Copies : c[1].k \in accepted[c[1].s] + 1 .. sends[c[1].s]
  /\ \A c, d \in Copies : c[1].s = d[1].s /\ c[1].k = d[1].k => c = d
  /\ \A s \in Senders :
       /\ accepted[s] <= sends[s] /\ sends[s] <= accepted[s] + config.window
       /\ \A m \in net[s] \union cant[s] : m.s = s
       /\ \A e \in unexpected[s] : e.m.s = s /\ e.m.k = e.n /\ e.n <= accepted[s]
       /\ \A d, e \in unexpected[s] : d.n = e.n => d = e

\* A receive is in the queue of its source, with a number of its own.
ReceivesOK == /\ \A s \in Senders : \A r \in specific[s] : r.src = s
              /\ \A r \in wild : r.src = AnySource
              /\ \A r \in Queued : r.seq < posts /\ r.seq \notin cancelled
              /\ \A q, r \in Queued : q.seq = r.seq => q = r
              /\ Taken \union cancelled \subseteq 0 .. posts - 1
              /\ marked \subseteq Taken

\* Where thread t may be: nothing is done with a communicator that does not exist.
ThreadOK(t, place) ==
  /\ place # Idle => t \in config.threads
  /\ place.at \in {"adding", "adding next"} => ~created
  /\ place.at \in {"slow", "progress", "check", "search", "cancel"} => created
  /\ place.at = "slow" => place.m.s = place.s
  /\ place.at = "progress" => place.matched \subseteq Taken
  /\ place.at = "cancel" => place.n < posts

ThreadsOK == /\ config.created => created
             /\ ~created => posts = 0 /\ Queued = {}
             /\ \A t \in Threads : ThreadOK(t, pc[t])

\* Thread t will look at the messages of s that wait for their turn.
WillLook(t, s) == /\ pc[t].at \in {"progress", "check", "search", "adding next"}
                  /\ pc[t].s = s
                  /\ pc[t].at = "progress" => pc[t].next = "check"

LookedAfter == \A s \in Senders : NextOf(s) # {} => \E t \in Threads : WillLook(t, s)

\* The messages of s that no receive has taken, wherever they are.
Untaken(s) ==
  net[s] \union cant[s] \union {e.m : e \in unexpected[s]}
  \union {m \in pending \union {pc[t].m : t \in Slow} : m.s = s}

\* Whatever order messages come in, and whichever threads handle them, the matches
\* are those MPI promises: a receive takes the first message of a sender it may
\* take, a message goes to the first receive that may take it, and no message is
\* lost, kept twice or taken twice (match_incomming, recv_req_match_wild).
MPI == INSTANCE Matching WITH
         queue <- [s \in Senders |-> {[tag |-> m.tag, k |-> m.k] : m \in Untaken(s)}],
         posted <- {[seq |-> r.seq, src |-> r.src, tag |-> r.tag] : r \in Posted}

ImplementsMatching == MPI!Spec

\* When no thread is in the layer, no message waits for a turn that has come: the
\* thread that let its predecessor in has found it, though it looks at the list
\* before it takes the lock (mca_pml_ob1_recv_frag_match, mca_pml_ob1_add_comm).
NothingOverlooked == created /\ (\A t \in Threads : pc[t].at \in {"idle", "cancel"})
                       => \A s \in Senders : NextOf(s) = {}

\* A receive or probe that waits and an unexpected message it could take never sit
\* in their queues together: neither side looks again later.
NoMissedMatch == \A r \in Queued, s \in Senders :
                   \A e \in unexpected[s] : ~Accepts(r, s, e.m)

\* What the layer's state is between two steps: every message is in one place, its number
\* tells its turn, the queues of receives and of messages have nothing for each other,
\* and a thread that lets a message in will look for the next one.
IInv == TypeOK /\ MessagesOK /\ ReceivesOK /\ ThreadsOK /\ LookedAfter /\ NoMissedMatch

\* "Either the cancellation succeeds or the communication succeeds, but not both"
\* (MPI_Cancel): a receive that is reported as cancelled takes no message, neither
\* before nor after.
CancelledUntaken == cancelled \intersect Taken = {}

\* Unless a send failed, every message is let in in the end: it is taken, or it is
\* in the queue of unexpected messages.
Delivered == config.fails = 0 =>
               <>[](pending = {} /\ \A s \in Senders : net[s] = {} /\ cant[s] = {})
=============================================================================
