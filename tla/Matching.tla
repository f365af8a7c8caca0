------------------------------ MODULE Matching ------------------------------
(***************************************************************************)
(* What a receiver may rely on when it matches messages with receives, on  *)
(* one communicator: the order MPI promises.  Of the messages of a sender  *)
(* that a receive takes, it gets the first; of the receives that take a    *)
(* message, the first one posted gets it.                                  *)
(***************************************************************************)
EXTENDS Integers

CONSTANTS Senders,      \* the ranks that send
          MessageTags,  \* the tags of messages; negative ones are internal
          ReceiveTags,  \* the tags receives ask for
          AnySource, AnyTag

VARIABLES sends,   \* the number of sends each sender has begun
          queue,   \* queue[s]: the messages of s that no receive has taken
          posts,   \* the number of receives posted
          posted,  \* the receives that have taken nothing yet
          took     \* which receive took which message of which sender

vars == <<sends, queue, posts, posted, took>>

Accepts(r, s, m) == /\ r.src \in {s, AnySource}
                    /\ r.tag = m.tag \/ (r.tag = AnyTag /\ m.tag >= 0)

Init == /\ sends = [s \in Senders |-> 0]
        /\ queue = [s \in Senders |-> {}]
        /\ posts = 0
        /\ posted = {}
        /\ took = {}

Send(s) == /\ sends' = [sends EXCEPT ![s] = @ + 1]
           /\ \E tag \in MessageTags :
                queue' = [queue EXCEPT ![s] = @ \union {[tag |-> tag, k |-> sends'[s]]}]
           /\ UNCHANGED <<posts, posted, took>>

SendFails(s) == /\ sends' = [sends EXCEPT ![s] = @ + 1]
                /\ UNCHANGED <<queue, posts, posted, took>>

\* r, one of the receives R, may take m.
MayTake(R, r, s, m) ==
  /\ Accepts(r, s, m)
  /\ \A other \in queue[s] : other.k < m.k => ~Accepts(r, s, other)
  /\ \A other \in R : other.seq < r.seq => ~Accepts(other, s, m)

Take(r, s, m) == /\ queue' = [queue EXCEPT ![s] = @ \ {m}]
                 /\ took' = took \union {[seq |-> r.seq, s |-> s, k |-> m.k]}

Match(r, s, m) == /\ MayTake(posted, r, s, m)
                  /\ Take(r, s, m)
                  /\ posted' = posted \ {r}
                  /\ UNCHANGED <<sends, posts>>

\* A receive is posted, and takes a message at once if there is one.
Post == /\ posts' = posts + 1
        /\ \E src \in Senders \union {AnySource}, tag \in ReceiveTags :
             LET r == [seq |-> posts, src |-> src, tag |-> tag] IN
             \/ /\ posted' = posted \union {r}
                /\ UNCHANGED <<queue, took>>
             \/ \E s \in Senders : \E m \in queue[s] :
                  /\ MayTake(posted \union {r}, r, s, m)
                  /\ Take(r, s, m)
                  /\ UNCHANGED posted
        /\ UNCHANGED sends

\* A probe uses up a number, and takes nothing.
Probe == posts' = posts + 1 /\ UNCHANGED <<sends, queue, posted, took>>

Cancel(r) == posted' = posted \ {r} /\ UNCHANGED <<sends, queue, posts, took>>

Next == \/ \E s \in Senders : Send(s) \/ SendFails(s)
        \/ \E r \in posted, s \in Senders : \E m \in queue[s] : Match(r, s, m)
        \/ Post
        \/ Probe
        \/ \E r \in posted : Cancel(r)

Spec == Init /\ [][Next]_vars
=============================================================================
