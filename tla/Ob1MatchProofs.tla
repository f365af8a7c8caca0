--------------------------- MODULE Ob1MatchProofs ---------------------------
(***************************************************************************)
(* The matching layer of pml/ob1: for every number of senders, threads,    *)
(* messages and receives, what the layer's state is between two steps, and *)
(* that the matches are those MPI promises.                                *)
(***************************************************************************)
EXTENDS Ob1Match, FiniteSetTheorems, WellFoundedInduction, NaturalsInduction, TLAPS

-----------------------------------------------------------------------------
(* Numbers.                                                                *)

LEMMA DivModOf ==
  ASSUME NEW a \in Nat, NEW b \in Nat \ {0}
  PROVE  /\ a = b * (a \div b) + (a % b)
         /\ a \div b \in Nat /\ a % b \in 0 .. b - 1
<1>0. b \in Nat /\ b > 0
  OBVIOUS
<1>1. a = b * (a \div b) + (a % b)
  BY <1>0, SMTT(30)
<1>2. a % b \in 0 .. b - 1 /\ a \div b \in Nat
  OBVIOUS
<1>. QED BY <1>1, <1>2

LEMMA Remainder ==
  ASSUME NEW b \in Nat \ {0}, NEW q \in Nat, NEW x \in 0 .. b - 1
  PROVE  (b * q + x) % b = x
OBVIOUS

\* Two numbers that are less than b apart have different remainders.
LEMMA SameRemainder ==
  ASSUME NEW a \in Nat, NEW c \in Nat, NEW b \in Nat \ {0},
         a <= c, c < a + b, a % b = c % b
  PROVE  a = c
<1>. DEFINE q == a \div b
            p == c \div b
<1>1. a = b * q + (a % b) /\ c = b * p + (c % b) /\ a % b \in 0 .. b - 1
  BY DivModOf
<1>2. q \in Nat /\ p \in Nat
  BY DivModOf
<1>. HIDE DEF q, p
<1>3. p - q \in Int /\ b * p - b * q = b * (p - q)
  BY <1>2
<1>4. b * (p - q) = c - a
  BY <1>1, <1>2, <1>3
<1>5. p - q >= 0
  <2>. SUFFICES ASSUME p - q <= -1 PROVE FALSE
    BY <1>3
  <2>1. PICK d \in Nat : p - q = -1 - d
    <3>1. -1 - (p - q) \in Nat /\ p - q = -1 - (-1 - (p - q))
      BY <1>3
    <3>. QED BY <3>1
  <2>2. b * (p - q) = -b - b * d /\ b * d \in Nat
    BY <2>1
  <2>. QED BY <1>4, <2>2
<1>6. p - q <= 0
  <2>. SUFFICES ASSUME p - q >= 1 PROVE FALSE
    BY <1>3
  <2>1. PICK d \in Nat : p - q = 1 + d
    <3>1. p - q - 1 \in Nat /\ p - q = 1 + (p - q - 1)
      BY <1>3
    <3>. QED BY <3>1
  <2>2. b * (p - q) = b + b * d /\ b * d \in Nat
    BY <2>1
  <2>. QED BY <1>4, <2>2
<1>7. p = q
  BY <1>2, <1>5, <1>6
<1>. QED BY <1>1, <1>7

LEMMA LeastNumber ==
  ASSUME NEW S \in SUBSET Nat, S # {}
  PROVE  \E x \in S : \A y \in S : x <= y
<1>1. PICK x \in S : \A y \in S : ~(<<y, x>> \in OpToRel(<, Nat))
  BY NatLessThanWellFounded, WFMin
<1>2. \A y \in S : ~(y < x)
  BY <1>1 DEF OpToRel
<1>. QED BY <1>2

\* The round from last_probed comes to every sender.
LEMMA RoundIsComplete ==
  ASSUME NEW p \in Nat, NEW n \in Nat \ {0}, NEW s \in 0 .. n - 1
  PROVE  \E i \in 1 .. n : (p + i) % n = s
<1>. DEFINE x == p % n
            q == p \div n
            i == IF s > x THEN s - x ELSE s - x + n
<1>1. p = n * q + x /\ q \in Nat /\ x \in 0 .. n - 1
  BY DivModOf
<1>. HIDE DEF x, q
<1>2. i \in 1 .. n
  BY <1>1
<1>3. (p + i) % n = s
  <2>1. CASE s > x
    <3>1. p + i = n * q + s
      BY <1>1, <2>1
    <3>. QED BY <1>1, <3>1, Remainder
  <2>2. CASE s <= x
    <3>1. p + i = n * (q + 1) + s
      BY <1>1, <2>2
    <3>. QED BY <1>1, <3>1, Remainder
  <2>. QED BY <1>1, <2>1, <2>2
<1>. QED BY <1>2, <1>3

-----------------------------------------------------------------------------
(* Types.                                                                  *)

LEMMA PlaceFields ==
  ASSUME NEW p \in Place
  PROVE  /\ p.at \in {"idle", "slow", "progress", "check", "search", "adding", "adding next",
                      "cancel"}
         /\ p.at = "idle" => p = Idle
         /\ p.at = "slow" => p.s \in Senders /\ p.m \in Message
         /\ p.at = "progress" => /\ p.s \in Senders /\ p.matched \in SUBSET Nat
                                 /\ p.next \in {"idle", "check"}
         /\ p.at \in {"check", "search", "adding next"} => p.s \in Senders
         /\ p.at = "cancel" => p.n \in Nat
<1>1. CASE p = Idle
  BY <1>1 DEF Idle
<1>6. CASE p = [at |-> "adding"]
  BY <1>6 DEF Idle
<1>2. CASE p \in [at : {"slow"}, s : Senders, m : Message]
  BY <1>2
<1>3. CASE p \in [at : {"progress"}, s : Senders, matched : SUBSET Nat, next : {"idle", "check"}]
  BY <1>3
<1>4. CASE p \in [at : {"check", "search", "adding next"}, s : Senders]
  BY <1>4
<1>5. CASE p \in [at : {"cancel"}, n : Nat]
  BY <1>5
<1>. QED BY <1>1, <1>2, <1>3, <1>4, <1>5, <1>6 DEF Place

LEMMA PlaceTypes ==
  /\ Idle \in Place /\ [at |-> "adding"] \in Place
  /\ \A s \in Senders : /\ [at |-> "check", s |-> s] \in Place
                        /\ [at |-> "search", s |-> s] \in Place
                        /\ [at |-> "adding next", s |-> s] \in Place
                        /\ \A m \in Message : [at |-> "slow", s |-> s, m |-> m] \in Place
                        /\ \A M \in SUBSET Nat, x \in {"idle", "check"} :
                             [at |-> "progress", s |-> s, matched |-> M, next |-> x] \in Place
  /\ \A n \in Nat : [at |-> "cancel", n |-> n] \in Place
BY DEF Place

LEMMA SenderFacts == Cardinality(Senders) \in Nat /\ Senders \subseteq Nat /\ AnySource \notin Senders
<1>1. Cardinality(Senders) \in Nat
  BY SendersAssumption, FS_CardinalityType
<1>. QED BY <1>1, SendersAssumption DEF AnySource

LEMMA Turn ==
  ASSUME TypeOK, NEW s \in Senders, NEW m \in Message, m.s = s,
         m.k \in accepted[s] + 1 .. sends[s], sends[s] <= accepted[s] + config.window,
         hdr_seq(m) = expected_sequence(s)
  PROVE  m.k = accepted[s] + 1
<1>1. accepted[s] \in Nat /\ sends[s] \in Nat /\ config.window \in 1 .. SeqNumbers
  <2>1. config \in Configs
    BY DEF TypeOK
  <2>2. accepted[s] \in Nat /\ sends[s] \in Nat
    BY DEF TypeOK
  <2>3. config.window \in 1 .. SeqNumbers
    BY <2>1, ConfigsAssumption
  <2>. QED BY <2>2, <2>3
<1>2. /\ accepted[s] + 1 \in Nat /\ m.k \in Nat
      /\ accepted[s] + 1 <= m.k /\ m.k < accepted[s] + 1 + SeqNumbers
  BY <1>1, SeqNumbersAssumption DEF Message
<1>. QED BY <1>2, SameRemainder, SeqNumbersAssumption DEF hdr_seq, expected_sequence

LEMMA EarliestFacts ==
  ASSUME TypeOK, NEW s \in Senders, NEW m
  PROVE  /\ Able(s, m) \subseteq specific[s] \union wild
         /\ Taker(s, m) \subseteq Able(s, m) /\ Probes(s, m) \subseteq Able(s, m)
         /\ Able(s, m) \subseteq Receive
         /\ \A r \in Taker(s, m) : ~r.probe /\ r.seq \in Nat
         /\ \A r \in Probes(s, m) : r.probe
         /\ Taker(s, m) = {} => \A r \in Able(s, m) : r.probe
<1>1. specific[s] \subseteq Receive /\ wild \subseteq Receive
  BY DEF TypeOK
<1>2. Able(s, m) \subseteq specific[s] \union wild /\ Able(s, m) \subseteq Receive
  BY <1>1 DEF Able
<1>3. Taker(s, m) \subseteq Able(s, m) /\ Probes(s, m) \subseteq Able(s, m)
  BY DEF Taker, Earliest, Probes
<1>4. \A r \in Taker(s, m) : ~r.probe /\ r.seq \in Nat
  BY <1>2, <1>3 DEF Taker, Earliest, Receive
<1>5. ASSUME Taker(s, m) = {}, NEW r \in Able(s, m), ~r.probe PROVE FALSE
  <2>. DEFINE R == {q \in Able(s, m) : ~q.probe}
              S == {q.seq : q \in R}
  <2>1. S \in SUBSET Nat /\ S # {}
    BY <1>2, <1>5 DEF Receive
  <2>2. PICK x \in S : \A y \in S : x <= y
    BY <2>1, LeastNumber
  <2>3. PICK q \in R : q.seq = x
    BY <2>2
  <2>4. q \in Earliest(R)
    BY <2>2, <2>3 DEF Earliest
  <2>. QED BY <1>5, <2>4 DEF Taker
<1>. QED BY <1>2, <1>3, <1>4, <1>5 DEF Probes

LEMMA MatchOneTypes ==
  ASSUME TypeOK, NEW s \in Senders, NEW m \in Message, match_one(s, m)
  PROVE  /\ specific' \in [Senders -> SUBSET Receive] /\ wild' \in SUBSET Receive
         /\ took' \in SUBSET [seq : Nat, s : Senders, k : Nat]
         /\ accepted' \in [Senders -> Nat]
         /\ unexpected' \in [Senders -> SUBSET [n : Nat, m : Message]]
         /\ UNCHANGED <<posts, last_probed, cancelled>>
         /\ {x.seq : x \in Matched} \in SUBSET Nat
<1>1. UNCHANGED <<posts, last_probed, cancelled>>
  BY DEF match_one
<1>2. specific' \in [Senders -> SUBSET Receive] /\ wild' \in SUBSET Receive
  BY DEF match_one, TypeOK
<1>3. \A r \in Taker(s, m) : r.seq \in Nat
  BY EarliestFacts
<1>4. m.k \in Nat
  BY DEF Message
<1>5. took' \in SUBSET [seq : Nat, s : Senders, k : Nat]
  BY <1>3, <1>4 DEF match_one, TypeOK
<1>6. accepted' \in [Senders -> Nat]
  BY DEF match_one, LetIn, TypeOK
<1>7. unexpected' \in [Senders -> SUBSET [n : Nat, m : Message]]
  <2>1. CASE Taker(s, m) = {}
    <3>1. unexpected' = [unexpected EXCEPT ![s] = @ \union {[n |-> accepted'[s], m |-> m]}]
      BY <2>1 DEF match_one, Keep
    <3>2. [n |-> accepted'[s], m |-> m] \in [n : Nat, m : Message]
      BY <1>6
    <3>. QED BY <3>1, <3>2 DEF TypeOK
  <2>2. CASE Taker(s, m) # {}
    BY <2>2 DEF match_one, TypeOK
  <2>. QED BY <2>1, <2>2
<1>8. {x.seq : x \in Matched} \in SUBSET Nat
  BY <1>5 DEF Matched
<1>. QED BY <1>1, <1>2, <1>5, <1>6, <1>7, <1>8

LEMMA FoundTypes ==
  ASSUME TypeOK, NEW r
  PROVE  /\ \A s \in Senders : OfSender(r, s) \subseteq {e \in unexpected[s] : Accepts(r, s, e.m)}
         /\ \A e \in OfAny(r) : \E s \in Senders : e \in OfSender(r, s)
<1>1. \A s \in Senders : OfSender(r, s) \subseteq {e \in unexpected[s] : Accepts(r, s, e.m)}
  BY DEF OfSender
<1>2. ASSUME NEW e \in OfAny(r) PROVE \E s \in Senders : e \in OfSender(r, s)
  <2>1. PICK i \in 1 .. Cardinality(Senders) : e \in OfSender(r, Around(i))
    BY DEF OfAny, Nearest, Having
  <2>2. Around(i) \in Senders
    <3>1. last_probed + i \in Nat /\ Cardinality(Senders) \in Nat \ {0}
      BY SenderFacts DEF TypeOK
    <3>2. (last_probed + i) % Cardinality(Senders) \in 0 .. Cardinality(Senders) - 1
      BY <3>1, DivModOf
    <3>. QED BY <3>2, SendersAssumption DEF Around
  <2>. QED BY <2>1, <2>2
<1>. QED BY <1>1, <1>2

\* A sender that has a message for a receive is found.
LEMMA FoundWhatIsThere ==
  ASSUME TypeOK, NEW r, NEW s \in Senders, NEW e \in unexpected[s], Accepts(r, s, e.m)
  PROVE  OfSender(r, s) # {} /\ OfAny(r) # {}
<1>1. OfSender(r, s) # {}
  <2>. DEFINE able == {d \in unexpected[s] : Accepts(r, s, d.m)}
              S == {d.n : d \in able}
  <2>1. S \in SUBSET Nat /\ S # {}
    BY DEF TypeOK
  <2>2. PICK x \in S : \A y \in S : x <= y
    BY <2>1, LeastNumber
  <2>3. PICK d \in able : d.n = x
    BY <2>2
  <2>4. d \in OfSender(r, s)
    BY <2>2, <2>3 DEF OfSender
  <2>. QED BY <2>4
<1>2. OfAny(r) # {}
  <2>. DEFINE n == Cardinality(Senders)
              H == Having(r, 1 .. n)
  <2>1. n \in Nat \ {0} /\ last_probed \in Nat /\ s \in 0 .. n - 1
    BY SenderFacts, SendersAssumption DEF TypeOK
  <2>2. PICK i \in 1 .. n : (last_probed + i) % n = s
    BY <2>1, RoundIsComplete
  <2>3. i \in H
    BY <1>1, <2>2 DEF Having, Around
  <2>4. H \in SUBSET Nat
    BY <2>1 DEF Having
  <2>5. PICK j \in H : \A h \in H : j <= h
    BY <2>3, <2>4, LeastNumber
  <2>6. OfSender(r, Around(j)) # {}
    BY <2>5 DEF Having
  <2>. QED BY <2>5, <2>6 DEF OfAny, Nearest
<1>. QED BY <1>1, <1>2

-----------------------------------------------------------------------------
(* Where the messages are.                                                 *)

LEMMA CopyCases ==
  ASSUME NEW c \in Copies
  PROVE  \/ \E s \in Senders : \E m \in net[s] : c = <<m, "net">>
         \/ \E s \in Senders : \E m \in cant[s] : c = <<m, "cant">>
         \/ \E m \in pending : c = <<m, "pending">>
         \/ \E t \in Slow : c = <<pc[t].m, "slow", t>>
BY DEF Copies

LEMMA CopyPlaces ==
  /\ \A s \in Senders : \A m \in net[s] : <<m, "net">> \in Copies
  /\ \A s \in Senders : \A m \in cant[s] : <<m, "cant">> \in Copies
  /\ \A m \in pending : <<m, "pending">> \in Copies
  /\ \A t \in Slow : <<pc[t].m, "slow", t>> \in Copies
BY DEF Copies

LEMMA CopyTypes ==
  ASSUME TypeOK, NEW c \in Copies
  PROVE  c[1] \in Message /\ c[1].s \in Senders /\ c[1].k \in Nat /\ c[1].k > 0
<1>1. c[1] \in Message
  <2>1. ASSUME NEW s \in Senders, NEW m \in net[s] PROVE m \in Message
    BY DEF TypeOK
  <2>2. ASSUME NEW s \in Senders, NEW m \in cant[s] PROVE m \in Message
    BY DEF TypeOK
  <2>3. ASSUME NEW m \in pending PROVE m \in Message
    BY DEF TypeOK
  <2>4. ASSUME NEW t \in Slow PROVE pc[t].m \in Message
    BY PlaceFields DEF TypeOK, Slow
  <2>. QED BY <2>1, <2>2, <2>3, <2>4, CopyCases
<1>. QED BY <1>1 DEF Message

\* A message is taken from one place and put into another.
LEMMA RelocatedMessages ==
  ASSUME TypeOK, MessagesOK, NEW x \in Copies, NEW y, y[1] = x[1],
         Copies' \subseteq (Copies \ {x}) \union {y},
         UNCHANGED <<config, sends, accepted, unexpected>>,
         \A s \in Senders : \A m \in net'[s] \union cant'[s] : m.s = s
  PROVE  MessagesOK'
<1>1. ASSUME NEW c \in Copies' PROVE c[1].k \in accepted'[c[1].s] + 1 .. sends'[c[1].s]
  BY DEF MessagesOK
<1>2. ASSUME NEW c \in Copies', NEW d \in Copies', c[1].s = d[1].s, c[1].k = d[1].k PROVE c = d
  <2>1. CASE c # y /\ d # y
    BY <1>2, <2>1 DEF MessagesOK
  <2>2. CASE c = y /\ d # y
    BY <1>2, <2>2 DEF MessagesOK
  <2>3. CASE c # y /\ d = y
    BY <1>2, <2>3 DEF MessagesOK
  <2>. QED BY <2>1, <2>2, <2>3
<1>. QED BY <1>1, <1>2 DEF MessagesOK

\* The next message of a sender is let in.
LEMMA LetInMessages ==
  ASSUME TypeOK, MessagesOK, NEW s \in Senders, NEW x \in Copies, x[1].s = s,
         x[1].k = accepted[s] + 1, Copies' \subseteq Copies \ {x}, LetIn(s),
         UNCHANGED <<config, sends>>, UNCHANGED unexpected \/ Keep(s, x[1]),
         \A p \in Senders : \A m \in net'[p] \union cant'[p] : m.s = p
  PROVE  MessagesOK'
<1>0. /\ accepted' = [accepted EXCEPT ![s] = @ + 1]
      /\ \A p \in Senders : accepted[p] \in Nat /\ sends[p] \in Nat
      /\ config.window \in Nat
  <2>1. config.window \in 1 .. SeqNumbers
    BY ConfigsAssumption DEF TypeOK
  <2>2. config.window \in Nat
    BY <2>1, SeqNumbersAssumption
  <2>. QED BY <2>2 DEF LetIn, TypeOK
<1>1. ASSUME NEW c \in Copies' PROVE c[1].k \in accepted'[c[1].s] + 1 .. sends'[c[1].s]
  <2>1. c \in Copies /\ c # x /\ c[1].k \in Nat /\ c[1].s \in Senders
    BY CopyTypes
  <2>2. c[1].k \in accepted[c[1].s] + 1 .. sends[c[1].s]
    BY <2>1 DEF MessagesOK
  <2>3. CASE c[1].s = s
    <3>1. c[1].k # accepted[s] + 1
      BY <2>1, <2>3 DEF MessagesOK
    <3>. QED BY <1>0, <2>1, <2>2, <2>3, <3>1
  <2>4. CASE c[1].s # s
    BY <1>0, <2>1, <2>2, <2>4
  <2>. QED BY <2>3, <2>4
<1>2. \A c, d \in Copies' : c[1].s = d[1].s /\ c[1].k = d[1].k => c = d
  BY DEF MessagesOK
<1>3. accepted[s] + 1 <= sends[s]
  BY <1>0 DEF MessagesOK
<1>4. ASSUME NEW p \in Senders
      PROVE  accepted'[p] <= sends'[p] /\ sends'[p] <= accepted'[p] + config'.window
  BY <1>0, <1>3 DEF MessagesOK
<1>5. ASSUME NEW p \in Senders
      PROVE  /\ \A e \in unexpected'[p] : e.m.s = p /\ e.m.k = e.n /\ e.n <= accepted'[p]
             /\ \A d, e \in unexpected'[p] : d.n = e.n => d = e
  <2>. DEFINE f == [n |-> accepted[s] + 1, m |-> x[1]]
  <2>1. \A e \in unexpected[p] : e.m.s = p /\ e.m.k = e.n /\ e.n <= accepted[p] /\ e.n \in Nat
    BY DEF MessagesOK, TypeOK
  <2>2. \A d, e \in unexpected[p] : d.n = e.n => d = e
    BY DEF MessagesOK
  <2>3. accepted'[p] >= accepted[p] /\ accepted'[p] \in Nat
    BY <1>0
  <2>4. unexpected'[p] \subseteq unexpected[p] \union (IF p = s THEN {f} ELSE {})
    BY <1>0 DEF Keep, TypeOK
  <2>5. CASE p = s
    <3>0. accepted'[s] = accepted[s] + 1
      BY DEF LetIn, TypeOK
    <3>1. f.m.s = s /\ f.m.k = f.n /\ f.n = accepted[s] + 1 /\ accepted'[s] = accepted[s] + 1
      BY <3>0
    <3>. HIDE DEF f
    <3>2. \A e \in unexpected[s] : e.n # f.n
      BY <1>0, <2>1, <2>5, <3>1
    <3>. QED BY <1>0, <2>1, <2>2, <2>3, <2>4, <2>5, <3>1, <3>2
  <2>6. CASE p # s
    BY <2>1, <2>2, <2>3, <2>4, <2>6, <1>0
  <2>. QED BY <2>5, <2>6
<1>. QED BY <1>1, <1>2, <1>4, <1>5 DEF MessagesOK

\* What MessagesOK reads.
LEMMA SameMessages ==
  ASSUME TypeOK, MessagesOK, Copies' \subseteq Copies,
         UNCHANGED <<config, sends, accepted, net, cant>>,
         \A s \in Senders : unexpected'[s] \subseteq unexpected[s]
  PROVE  MessagesOK'
BY DEF MessagesOK

-----------------------------------------------------------------------------
(* Where the copies of messages are after a step.                          *)

\* A thread changes its place, and the messages stay where they are.
LEMMA SlowAfter ==
  ASSUME TypeOK, NEW t \in Threads, NEW place \in Place, Goto(t, place)
  PROVE  /\ pc' \in [Threads -> Place]
         /\ pc'[t] = place
         /\ \A u \in Threads : u # t => pc'[u] = pc[u]
         /\ \A u \in Slow' : u # t => u \in Slow /\ pc'[u] = pc[u]
         /\ place.at # "slow" => Slow' = Slow \ {t}
         /\ place.at = "slow" => Slow' = Slow \union {t}
BY DEF Goto, TypeOK, Slow

\* The messages that are in Copies after a step that neither adds nor moves one.
LEMMA QuietCopies ==
  ASSUME TypeOK, NEW t \in Threads, NEW place \in Place, Goto(t, place), place.at # "slow",
         UNCHANGED <<net, cant, pending>>
  PROVE  Copies' \subseteq Copies /\ (t \in Slow => Copies' \subseteq Copies \ {<<pc[t].m, "slow", t>>})
<1>1. Slow' = Slow \ {t} /\ \A u \in Slow' : pc'[u].m = pc[u].m
  BY SlowAfter
<1>2. ASSUME NEW c \in Copies'
      PROVE  c \in Copies /\ (t \in Slow => c # <<pc[t].m, "slow", t>>)
  <2>1. CASE \E p \in Senders : \E n \in net[p] : c = <<n, "net">>
    BY <2>1, CopyPlaces
  <2>2. CASE \E p \in Senders : \E n \in cant[p] : c = <<n, "cant">>
    BY <2>2, CopyPlaces
  <2>3. CASE \E n \in pending : c = <<n, "pending">>
    BY <2>3, CopyPlaces
  <2>4. CASE \E u \in Slow' : c = <<pc'[u].m, "slow", u>>
    BY <1>1, <2>4, CopyPlaces
  <2>. QED BY <2>1, <2>2, <2>3, <2>4 DEF Copies
<1>. QED BY <1>2

\* A message leaves the network; thread t may have it then.
LEMMA ArrivedCopies ==
  ASSUME TypeOK, MessagesOK, NEW t \in Threads, NEW place \in Place, Goto(t, place), t \notin Slow,
         NEW s \in Senders, NEW m \in net[s],
         net' = [net EXCEPT ![s] = @ \ {m}], UNCHANGED <<cant, pending>>
  PROVE  /\ <<m, "net">> \in Copies /\ m.s = s
         /\ place.at # "slow" => Copies' \subseteq Copies \ {<<m, "net">>}
         /\ place.at = "slow" =>
              Copies' \subseteq (Copies \ {<<m, "net">>}) \union {<<place.m, "slow", t>>}
         /\ \A p \in Senders : \A n \in net'[p] \union cant'[p] : n.s = p
<1>0. \A p \in Senders : \A n \in net[p] \union cant[p] : n.s = p
  BY DEF MessagesOK
<1>1. \A p \in Senders : net'[p] = IF p = s THEN net[s] \ {m} ELSE net[p]
  BY DEF TypeOK
<1>2. \A u \in Slow' : u # t => u \in Slow /\ pc'[u] = pc[u]
  BY SlowAfter
<1>3. pc'[t] = place /\ (place.at # "slow" => t \notin Slow')
  BY SlowAfter
<1>4. ASSUME NEW c \in Copies'
      PROVE  /\ c \in Copies \/ (place.at = "slow" /\ c = <<place.m, "slow", t>>)
             /\ c # <<m, "net">>
  <2>1. CASE \E p \in Senders : \E n \in net'[p] : c = <<n, "net">>
    BY <1>0, <1>1, <2>1, CopyPlaces
  <2>2. CASE \E p \in Senders : \E n \in cant[p] : c = <<n, "cant">>
    BY <2>2, CopyPlaces
  <2>3. CASE \E n \in pending : c = <<n, "pending">>
    BY <2>3, CopyPlaces
  <2>4. CASE \E u \in Slow' : c = <<pc'[u].m, "slow", u>>
    BY <1>2, <1>3, <2>4, CopyPlaces
  <2>. QED BY <2>1, <2>2, <2>3, <2>4 DEF Copies
<1>. QED BY <1>0, <1>1, <1>4, CopyPlaces

\* A message is taken off the messages that wait for their turn.
LEMMA FoundCopies ==
  ASSUME TypeOK, MessagesOK, \A u \in Slow' : u \in Slow /\ pc'[u].m = pc[u].m,
         NEW s \in Senders, NEW m \in cant[s],
         cant' = [cant EXCEPT ![s] = @ \ {m}], UNCHANGED <<net, pending>>
  PROVE  /\ <<m, "cant">> \in Copies /\ m.s = s
         /\ Copies' \subseteq Copies \ {<<m, "cant">>}
         /\ \A p \in Senders : \A n \in net'[p] \union cant'[p] : n.s = p
<1>0. \A p \in Senders : \A n \in net[p] \union cant[p] : n.s = p
  BY DEF MessagesOK
<1>1. \A p \in Senders : cant'[p] = IF p = s THEN cant[s] \ {m} ELSE cant[p]
  BY DEF TypeOK
<1>4. ASSUME NEW c \in Copies' PROVE c \in Copies /\ c # <<m, "cant">>
  <2>1. CASE \E p \in Senders : \E n \in net[p] : c = <<n, "net">>
    BY <2>1, CopyPlaces
  <2>2. CASE \E p \in Senders : \E n \in cant'[p] : c = <<n, "cant">>
    BY <1>0, <1>1, <2>2, CopyPlaces
  <2>3. CASE \E n \in pending : c = <<n, "pending">>
    BY <2>3, CopyPlaces
  <2>4. CASE \E u \in Slow' : c = <<pc'[u].m, "slow", u>>
    BY <2>4, CopyPlaces
  <2>. QED BY <2>1, <2>2, <2>3, <2>4 DEF Copies
<1>. QED BY <1>0, <1>1, <1>4, CopyPlaces

\* A message is put among those that wait for their turn.
LEMMA WaitingCopies ==
  ASSUME TypeOK, MessagesOK, NEW x \in Copies, NEW s \in Senders, x[1].s = s,
         cant' = [cant EXCEPT ![s] = @ \union {x[1]}], UNCHANGED net,
         pending' \subseteq pending,
         \A u \in Slow' : u \in Slow /\ pc'[u].m = pc[u].m,
         \/ \E m \in pending : x = <<m, "pending">> /\ m \notin pending'
         \/ \E t \in Slow : x = <<pc[t].m, "slow", t>> /\ t \notin Slow'
  PROVE  /\ Copies' \subseteq (Copies \ {x}) \union {<<x[1], "cant">>}
         /\ \A p \in Senders : \A n \in net'[p] \union cant'[p] : n.s = p
<1>0. \A p \in Senders : \A n \in net[p] \union cant[p] : n.s = p
  BY DEF MessagesOK
<1>1. \A p \in Senders : cant'[p] = IF p = s THEN cant[s] \union {x[1]} ELSE cant[p]
  BY DEF TypeOK
<1>4. ASSUME NEW c \in Copies' PROVE (c \in Copies /\ c # x) \/ c = <<x[1], "cant">>
  <2>1. CASE \E p \in Senders : \E n \in net[p] : c = <<n, "net">>
    BY <2>1, CopyPlaces
  <2>2. CASE \E p \in Senders : \E n \in cant'[p] : c = <<n, "cant">>
    BY <1>0, <1>1, <2>2, CopyPlaces
  <2>3. CASE \E n \in pending' : c = <<n, "pending">>
    BY <2>3, CopyPlaces
  <2>4. CASE \E u \in Slow' : c = <<pc'[u].m, "slow", u>>
    BY <2>4, CopyPlaces
  <2>. QED BY <2>1, <2>2, <2>3, <2>4 DEF Copies
<1>. QED BY <1>0, <1>1, <1>4

-----------------------------------------------------------------------------
(* MessagesOK is preserved.                                                *)

LEMMA TurnOf ==
  ASSUME TypeOK, MessagesOK, NEW x \in Copies, NEW s, x[1].s = s,
         hdr_seq(x[1]) = expected_sequence(s)
  PROVE  x[1].k = accepted[s] + 1
<1>1. s \in Senders /\ x[1] \in Message
  BY CopyTypes
<1>2. x[1].k \in accepted[s] + 1 .. sends[s] /\ sends[s] <= accepted[s] + config.window
  BY <1>1 DEF MessagesOK
<1>. QED BY <1>1, <1>2, Turn

LEMMA NotSlow ==
  ASSUME TypeOK, NEW t \in Threads, pc[t].at # "slow" PROVE t \notin Slow
BY DEF Slow

LEMMA SendMessages ==
  ASSUME TypeOK, MessagesOK, NEW s \in Senders, Send(s) PROVE MessagesOK'
<1>0. /\ \A p \in Senders : accepted[p] \in Nat /\ sends[p] \in Nat
      /\ \A p \in Senders : sends'[p] = IF p = s THEN sends[s] + 1 ELSE sends[p]
      /\ sends[s] - accepted[s] < config.window /\ config.window \in Nat
      /\ UNCHANGED <<config, pending, accepted, cant, unexpected, pc>>
  <2>1. config.window \in 1 .. SeqNumbers
    BY ConfigsAssumption DEF TypeOK
  <2>2. config.window \in Nat
    BY <2>1, SeqNumbersAssumption
  <2>. QED BY <2>2 DEF Send, TypeOK
<1>1. /\ \A p \in Senders : accepted'[p] <= sends'[p] /\ sends'[p] <= accepted'[p] + config'.window
      /\ \A p \in Senders :
           /\ \A e \in unexpected'[p] : e.m.s = p /\ e.m.k = e.n /\ e.n <= accepted'[p]
           /\ \A d, e \in unexpected'[p] : d.n = e.n => d = e
  BY <1>0 DEF MessagesOK
<1>2. ASSUME NEW c \in Copies
      PROVE  /\ c[1].k \in accepted'[c[1].s] + 1 .. sends'[c[1].s]
             /\ c[1].s = s => c[1].k <= sends[s]
  BY <1>0, CopyTypes DEF MessagesOK
<1>3. CASE UNCHANGED net
  <2>1. Copies' = Copies
    BY <1>0, <1>3 DEF Copies, Slow
  <2>. QED BY <1>0, <1>1, <1>2, <1>3, <2>1 DEF MessagesOK
<1>4. CASE ~UNCHANGED net
  <2>1. PICK m : m.s = s /\ m.k = sends[s] + 1 /\ net' = [net EXCEPT ![s] = @ \union {m}]
    <3>1. PICK tag \in MessageTags :
            net' = [net EXCEPT ![s] = @ \union {[s |-> s, tag |-> tag, k |-> sends'[s]]}]
      BY <1>4 DEF Send
    <3>2. sends'[s] = sends[s] + 1
      BY <1>0
    <3>. QED BY <3>1, <3>2
  <2>2. Copies' \subseteq Copies \union {<<m, "net">>}
    <3>. SUFFICES ASSUME NEW c \in Copies' PROVE c \in Copies \union {<<m, "net">>}
      OBVIOUS
    <3>1. CASE \E p \in Senders : \E n \in net'[p] : c = <<n, "net">>
      BY <2>1, <3>1, CopyPlaces DEF TypeOK
    <3>2. CASE \E p \in Senders : \E n \in cant[p] : c = <<n, "cant">>
      BY <3>2, CopyPlaces
    <3>3. CASE \E n \in pending : c = <<n, "pending">>
      BY <3>3, CopyPlaces
    <3>4. CASE \E u \in Slow' : c = <<pc'[u].m, "slow", u>>
      BY <1>0, <3>4, CopyPlaces DEF Slow
    <3>. QED BY <1>0, <3>1, <3>2, <3>3, <3>4 DEF Copies
  <2>3. m.k \in accepted'[m.s] + 1 .. sends'[m.s]
    BY <1>0, <2>1 DEF MessagesOK
  <2>4. \A c \in Copies' : c[1].k \in accepted'[c[1].s] + 1 .. sends'[c[1].s]
    BY <1>2, <2>2, <2>3
  <2>5. ASSUME NEW c \in Copies, c[1].s = s PROVE c[1].k # m.k
    BY <1>0, <1>2, <2>1, <2>5, CopyTypes
  <2>6. \A c, d \in Copies' : c[1].s = d[1].s /\ c[1].k = d[1].k => c = d
    BY <2>1, <2>2, <2>5 DEF MessagesOK
  <2>7. \A p \in Senders : \A n \in net'[p] \union cant'[p] : n.s = p
    BY <1>0, <2>1 DEF MessagesOK, TypeOK
  <2>. QED BY <1>1, <2>4, <2>6, <2>7 DEF MessagesOK
<1>. QED BY <1>3, <1>4

\* A message that comes in is let in, or thread t goes on with it.
LEMMA ArrivalMessages ==
  ASSUME TypeOK, MessagesOK, NEW t \in Threads, NEW s \in Senders, NEW m \in net[s],
         Arrive(t, s, m),
         \/ /\ hdr_seq(m) = expected_sequence(s) /\ match_one(s, m)
            /\ Progress(t, s, Matched, "idle") /\ UNCHANGED cant
         \/ /\ Goto(t, [at |-> "slow", s |-> s, m |-> m])
            /\ UNCHANGED <<accepted, cant, unexpected>>
  PROVE  MessagesOK'
<1>0. /\ m \in Message /\ t \notin Slow /\ UNCHANGED <<config, pending, sends>>
      /\ net' = [net EXCEPT ![s] = @ \ {m}]
  BY DEF TypeOK, Arrive, Free, Idle, Slow
<1>1. CASE /\ hdr_seq(m) = expected_sequence(s) /\ match_one(s, m)
           /\ Progress(t, s, Matched, "idle") /\ UNCHANGED cant
  <2>. DEFINE place == [at |-> "progress", s |-> s, matched |-> {x.seq : x \in Matched},
                        next |-> "idle"]
  <2>1. place \in Place /\ place.at # "slow"
    BY <1>0, <1>1, MatchOneTypes, PlaceTypes
  <2>2. Goto(t, place)
    BY <1>1 DEF Progress
  <2>. HIDE DEF place
  <2>3. /\ <<m, "net">> \in Copies /\ m.s = s
        /\ Copies' \subseteq Copies \ {<<m, "net">>}
        /\ \A p \in Senders : \A n \in net'[p] \union cant'[p] : n.s = p
    BY <1>0, <1>1, <2>1, <2>2, ArrivedCopies
  <2>4. m.k = accepted[s] + 1
    BY <1>1, <2>3, TurnOf
  <2>5. LetIn(s) /\ (UNCHANGED unexpected \/ Keep(s, m))
    BY <1>1 DEF match_one
  <2>. QED BY <1>0, <2>3, <2>4, <2>5, LetInMessages
<1>2. CASE /\ Goto(t, [at |-> "slow", s |-> s, m |-> m])
           /\ UNCHANGED <<accepted, cant, unexpected>>
  <2>. DEFINE place == [at |-> "slow", s |-> s, m |-> m]
  <2>1. place \in Place /\ place.at = "slow" /\ place.m = m
    BY <1>0, PlaceTypes
  <2>. HIDE DEF place
  <2>2. Goto(t, place)
    BY <1>2 DEF place
  <2>3. /\ <<m, "net">> \in Copies /\ m.s = s
        /\ Copies' \subseteq (Copies \ {<<m, "net">>}) \union {<<m, "slow", t>>}
        /\ \A p \in Senders : \A n \in net'[p] \union cant'[p] : n.s = p
    BY <1>0, <1>2, <2>1, <2>2, ArrivedCopies
  <2>. QED BY <1>0, <1>2, <2>3, RelocatedMessages
<1>. QED BY <1>1, <1>2

LEMMA TooEarlyMessages ==
  ASSUME TypeOK, MessagesOK, NEW t \in Threads, NEW s \in Senders, NEW m \in net[s],
         CallbackTooEarly(t, s, m)
  PROVE  MessagesOK'
<1>0. /\ net' = [net EXCEPT ![s] = @ \ {m}] /\ pending' = pending \union {m}
      /\ UNCHANGED <<config, sends, accepted, cant, unexpected, pc>>
  BY DEF CallbackTooEarly
<1>1. \A p \in Senders : \A n \in net[p] \union cant[p] : n.s = p
  BY DEF MessagesOK
<1>2. \A p \in Senders : net'[p] = IF p = s THEN net[s] \ {m} ELSE net[p]
  BY <1>0 DEF TypeOK
<1>3. Copies' \subseteq (Copies \ {<<m, "net">>}) \union {<<m, "pending">>}
  <2>. SUFFICES ASSUME NEW c \in Copies'
                PROVE  (c \in Copies /\ c # <<m, "net">>) \/ c = <<m, "pending">>
    OBVIOUS
  <2>1. CASE \E p \in Senders : \E n \in net'[p] : c = <<n, "net">>
    BY <1>1, <1>2, <2>1, CopyPlaces
  <2>2. CASE \E p \in Senders : \E n \in cant[p] : c = <<n, "cant">>
    BY <2>2, CopyPlaces
  <2>3. CASE \E n \in pending' : c = <<n, "pending">>
    BY <1>0, <2>3, CopyPlaces
  <2>4. CASE \E u \in Slow' : c = <<pc'[u].m, "slow", u>>
    BY <1>0, <2>4, CopyPlaces DEF Slow
  <2>. QED BY <1>0, <2>1, <2>2, <2>3, <2>4 DEF Copies
<1>4. <<m, "net">> \in Copies /\ \A p \in Senders : \A n \in net'[p] \union cant'[p] : n.s = p
  BY <1>0, <1>1, <1>2, CopyPlaces
<1>. QED BY <1>0, <1>3, <1>4, RelocatedMessages

\* Thread t has a message: it is let in, or put among those that wait.
LEMMA RecvFragMessages ==
  ASSUME TypeOK, MessagesOK, ThreadsOK, NEW t \in Threads, RecvFragMatch(t)
  PROVE  MessagesOK'
<1>. DEFINE s == pc[t].s
            m == pc[t].m
<1>0. /\ t \in Slow /\ s \in Senders /\ m \in Message /\ m.s = s
      /\ UNCHANGED <<config, sends, net, pending>>
  BY PlaceFields DEF TypeOK, RecvFragMatch, ThreadsOK, ThreadOK, Slow
<1>1. <<m, "slow", t>> \in Copies /\ \A p \in Senders : \A n \in net[p] \union cant[p] : n.s = p
  BY <1>0, CopyPlaces DEF MessagesOK
<1>2. CASE /\ hdr_seq(m) = expected_sequence(s) /\ match_one(s, m)
           /\ Progress(t, s, Matched, "check") /\ UNCHANGED cant
  <2>. DEFINE place == [at |-> "progress", s |-> s, matched |-> {x.seq : x \in Matched},
                        next |-> "check"]
  <2>1. place \in Place /\ place.at # "slow"
    BY <1>0, <1>2, MatchOneTypes, PlaceTypes
  <2>2. Goto(t, place)
    BY <1>2 DEF Progress
  <2>. HIDE DEF place
  <2>3. Copies' \subseteq Copies \ {<<m, "slow", t>>}
    BY <1>0, <1>2, <2>1, <2>2, QuietCopies
  <2>4. m.k = accepted[s] + 1
    BY <1>0, <1>1, <1>2, TurnOf
  <2>5. LetIn(s) /\ (UNCHANGED unexpected \/ Keep(s, m))
    BY <1>2 DEF match_one
  <2>. HIDE DEF s, m
  <2>6. <<m, "slow", t>>[1] = m
    OBVIOUS
  <2>. QED BY <1>0, <1>1, <1>2, <2>3, <2>4, <2>5, <2>6, LetInMessages
<1>3. CASE /\ cant' = [cant EXCEPT ![s] = @ \union {m}]
           /\ Goto(t, Idle)
           /\ UNCHANGED <<accepted, unexpected>>
  <2>1. Idle.at # "slow" /\ Idle \in Place
    BY PlaceTypes DEF Idle
  <2>2. t \notin Slow' /\ \A u \in Slow' : u \in Slow /\ pc'[u].m = pc[u].m
    BY <1>3, <2>1, SlowAfter
  <2>. DEFINE x == <<m, "slow", t>>
  <2>3. x \in Copies /\ x[1] = m /\ x = <<pc[t].m, "slow", t>>
    BY <1>1
  <2>. HIDE DEF s, m, x
  <2>4. /\ Copies' \subseteq (Copies \ {x}) \union {<<m, "cant">>}
        /\ \A p \in Senders : \A n \in net'[p] \union cant'[p] : n.s = p
    BY <1>0, <1>3, <2>2, <2>3, WaitingCopies
  <2>. QED BY <1>0, <1>3, <2>3, <2>4, RelocatedMessages
<1>. QED BY <1>2, <1>3 DEF RecvFragMatch

\* A message that has waited is let in.
LEMMA FoundMessages ==
  ASSUME TypeOK, MessagesOK, NEW s \in Senders, NEW m \in NextOf(s),
         cant' = [cant EXCEPT ![s] = @ \ {m}], LetIn(s), UNCHANGED unexpected \/ Keep(s, m),
         \A u \in Slow' : u \in Slow /\ pc'[u].m = pc[u].m,
         UNCHANGED <<config, sends, net, pending>>
  PROVE  MessagesOK'
<1>1. m \in cant[s] /\ hdr_seq(m) = expected_sequence(s)
  BY DEF NextOf
<1>2. /\ <<m, "cant">> \in Copies /\ m.s = s
      /\ Copies' \subseteq Copies \ {<<m, "cant">>}
      /\ \A p \in Senders : \A n \in net'[p] \union cant'[p] : n.s = p
  BY <1>1, FoundCopies
<1>3. m.k = accepted[s] + 1
  BY <1>1, <1>2, TurnOf
<1>. QED BY <1>2, <1>3, LetInMessages

LEMMA AddFragmentMessages ==
  ASSUME TypeOK, MessagesOK, NEW t \in Threads, AddFragment(t)
  PROVE  MessagesOK'
<1>0. PICK m \in pending :
        /\ \/ /\ hdr_seq(m) = expected_sequence(m.s)
              /\ LetIn(m.s) /\ Keep(m.s, m)
              /\ Goto(t, [at |-> "adding next", s |-> m.s])
              /\ UNCHANGED cant
           \/ /\ hdr_seq(m) # expected_sequence(m.s)
              /\ cant' = [cant EXCEPT ![m.s] = @ \union {m}]
              /\ UNCHANGED <<accepted, unexpected, pc>>
        /\ pending' = pending \ {m}
  BY DEF AddFragment
<1>1. /\ m \in Message /\ m.s \in Senders /\ <<m, "pending">> \in Copies
      /\ UNCHANGED <<config, sends, net>> /\ pc[t].at # "slow"
      /\ \A p \in Senders : \A n \in net[p] \union cant[p] : n.s = p
  BY CopyPlaces DEF AddFragment, TypeOK, Message, MessagesOK
<1>. DEFINE x == <<m, "pending">>
<1>2. x \in Copies /\ x[1] = m /\ x = <<m, "pending">>
  BY <1>1
<1>. HIDE DEF x
<1>3. CASE /\ hdr_seq(m) = expected_sequence(m.s)
           /\ LetIn(m.s) /\ Keep(m.s, m)
           /\ Goto(t, [at |-> "adding next", s |-> m.s])
           /\ UNCHANGED cant
  <2>1. \A u \in Slow' : u \in Slow /\ pc'[u].m = pc[u].m
    <3>. DEFINE place == [at |-> "adding next", s |-> m.s]
    <3>1. place \in Place /\ place.at # "slow" /\ Goto(t, place)
      BY <1>1, <1>3, PlaceTypes
    <3>. HIDE DEF place
    <3>. QED BY <3>1, SlowAfter
  <2>2. Copies' \subseteq Copies \ {x}
    <3>. SUFFICES ASSUME NEW c \in Copies' PROVE c \in Copies /\ c # x
      OBVIOUS
    <3>1. CASE \E p \in Senders : \E n \in net[p] : c = <<n, "net">>
      BY <1>2, <3>1, CopyPlaces
    <3>2. CASE \E p \in Senders : \E n \in cant[p] : c = <<n, "cant">>
      BY <1>2, <3>2, CopyPlaces
    <3>3. CASE \E n \in pending' : c = <<n, "pending">>
      <4>1. PICK n \in pending' : c = <<n, "pending">>
        BY <3>3
      <4>2. n \in pending /\ n # m
        BY <1>0
      <4>. QED BY <1>2, <4>1, <4>2, CopyPlaces
    <3>4. CASE \E u \in Slow' : c = <<pc'[u].m, "slow", u>>
      <4>1. PICK u \in Slow' : c = <<pc'[u].m, "slow", u>>
        BY <3>4
      <4>2. u \in Slow /\ c = <<pc[u].m, "slow", u>>
        BY <2>1, <4>1
      <4>3. c # x
        BY <1>2, <4>1
      <4>. QED BY <4>2, <4>3, CopyPlaces
    <3>5. net' = net /\ cant' = cant
      BY <1>1, <1>3
    <3>. QED BY <3>1, <3>2, <3>3, <3>4, <3>5 DEF Copies
  <2>3. m.k = accepted[m.s] + 1
    BY <1>2, <1>3, TurnOf
  <2>. QED BY <1>1, <1>2, <1>3, <2>2, <2>3, LetInMessages
<1>4. CASE /\ cant' = [cant EXCEPT ![m.s] = @ \union {m}]
           /\ UNCHANGED <<accepted, unexpected, pc>>
  <2>1. \A u \in Slow' : u \in Slow /\ pc'[u].m = pc[u].m
    BY <1>4 DEF Slow
  <2>2. pending' \subseteq pending /\ m \notin pending'
    BY <1>0
  <2>3. /\ Copies' \subseteq (Copies \ {x}) \union {<<m, "cant">>}
        /\ \A p \in Senders : \A n \in net'[p] \union cant'[p] : n.s = p
    BY <1>1, <1>2, <1>4, <2>1, <2>2, WaitingCopies
  <2>. QED BY <1>1, <1>2, <1>4, <2>3, RelocatedMessages
<1>. QED BY <1>0, <1>3, <1>4

-----------------------------------------------------------------------------
(* The queues of receives.                                                 *)

LEMMA QueuedCases ==
  /\ \A s \in Senders : specific[s] \subseteq Queued
  /\ wild \subseteq Queued
  /\ \A r \in Queued : r \in wild \/ \E s \in Senders : r \in specific[s]
  /\ TypeOK => Queued \subseteq Receive
<1>1. /\ \A s \in Senders : specific[s] \subseteq Queued
      /\ wild \subseteq Queued
      /\ \A r \in Queued : r \in wild \/ \E s \in Senders : r \in specific[s]
  BY DEF Queued
<1>2. ASSUME TypeOK, NEW r \in Queued PROVE r \in Receive
  <2>1. CASE r \in wild
    BY <1>2, <2>1 DEF TypeOK
  <2>2. CASE \E s \in Senders : r \in specific[s]
    BY <1>2, <2>2 DEF TypeOK
  <2>. QED BY <1>1, <2>1, <2>2
<1>. QED BY <1>1, <1>2

LEMMA SameReceives ==
  ASSUME ReceivesOK, UNCHANGED <<specific, wild, posts, took, cancelled>>,
         marked' \subseteq Taken
  PROVE  ReceivesOK' /\ Taken' = Taken /\ Queued' = Queued
BY DEF ReceivesOK, Queued, Taken

\* match_one takes receives off the queues, and may note one as taken.
LEMMA MatchReceives ==
  ASSUME TypeOK, ReceivesOK, NEW s \in Senders, NEW m \in Message, match_one(s, m),
         UNCHANGED marked
  PROVE  /\ ReceivesOK'
         /\ Queued' = Queued \ (Taker(s, m) \union Probes(s, m))
         /\ Taken' = Taken \union {r.seq : r \in Taker(s, m)}
         /\ {x.seq : x \in Matched} \subseteq Taken'
<1>. DEFINE gone == Taker(s, m) \union Probes(s, m)
<1>1. gone \subseteq specific[s] \union wild /\ Taker(s, m) \subseteq specific[s] \union wild
  BY EarliestFacts
<1>. HIDE DEF gone
<1>2. /\ specific' = [specific EXCEPT ![s] = @ \ gone] /\ wild' = wild \ gone
      /\ took' = took \union {[seq |-> r.seq, s |-> s, k |-> m.k] : r \in Taker(s, m)}
      /\ UNCHANGED <<posts, cancelled>>
  BY DEF match_one, gone
<1>3. \A p \in Senders : specific'[p] = IF p = s THEN specific[s] \ gone ELSE specific[p]
  BY <1>2 DEF TypeOK
<1>4. Queued' = Queued \ gone
  <2>1. \A p \in Senders : p # s => specific[p] \intersect gone = {}
    <3>. SUFFICES ASSUME NEW p \in Senders, p # s, NEW r \in specific[p], r \in gone PROVE FALSE
      OBVIOUS
    <3>1. r.src = p /\ p # AnySource
      BY SenderFacts DEF ReceivesOK
    <3>. QED BY <1>1, <3>1 DEF ReceivesOK
  <2>2. \A p \in Senders : specific'[p] = specific[p] \ gone
    BY <1>3, <2>1
  <2>3. \A r \in Queued' : r \in Queued \ gone
    BY <1>2, <2>2 DEF Queued
  <2>4. \A r \in Queued \ gone : r \in Queued'
    BY <1>2, <2>2 DEF Queued
  <2>. QED BY <2>3, <2>4
<1>5. Taken' = Taken \union {r.seq : r \in Taker(s, m)}
  <2>1. \A n \in Taken' : n \in Taken \union {r.seq : r \in Taker(s, m)}
    BY <1>2 DEF Taken
  <2>2. Taken \subseteq Taken'
    BY <1>2 DEF Taken
  <2>3. ASSUME NEW r \in Taker(s, m) PROVE r.seq \in Taken'
    <3>1. [seq |-> r.seq, s |-> s, k |-> m.k] \in took'
      BY <1>2
    <3>. QED BY <3>1 DEF Taken
  <2>. QED BY <2>1, <2>2, <2>3
<1>6. {x.seq : x \in Matched} \subseteq Taken'
  BY DEF Matched, Taken
<1>7. \A r \in Taker(s, m) : r.seq \in 0 .. posts - 1
  <2>1. \A r \in Taker(s, m) : r \in Queued /\ r.seq \in Nat
    BY <1>1, QueuedCases, EarliestFacts
  <2>. QED BY <2>1 DEF ReceivesOK, TypeOK
<1>8. ReceivesOK'
  <2>1. \A p \in Senders : \A r \in specific'[p] : r.src = p
    BY <1>3 DEF ReceivesOK
  <2>2. \A r \in wild' : r.src = AnySource
    BY <1>2 DEF ReceivesOK
  <2>3. /\ \A r \in Queued' : r.seq < posts' /\ r.seq \notin cancelled'
        /\ \A q, r \in Queued' : q.seq = r.seq => q = r
    BY <1>2, <1>4 DEF ReceivesOK
  <2>4. (Taken \union cancelled)' \subseteq (0 .. posts - 1)'
    BY <1>2, <1>5, <1>7 DEF ReceivesOK
  <2>5. marked' \subseteq Taken'
    BY <1>5 DEF ReceivesOK
  <2>. QED BY <2>1, <2>2, <2>3, <2>4, <2>5 DEF ReceivesOK
<1>. QED BY <1>4, <1>5, <1>6, <1>8 DEF gone

\* Nothing that waits misses a message that match_one keeps.
LEMMA MatchMissesNothing ==
  ASSUME TypeOK, ReceivesOK, NoMissedMatch, NEW s \in Senders, NEW m \in Message,
         match_one(s, m), UNCHANGED marked
  PROVE  NoMissedMatch'
<1>1. Queued' = Queued \ (Taker(s, m) \union Probes(s, m))
  BY MatchReceives
<1>2. CASE Taker(s, m) # {}
  <2>1. unexpected' = unexpected
    BY <1>2 DEF match_one
  <2>. QED BY <1>1, <2>1 DEF NoMissedMatch, Accepts
<1>3. CASE Taker(s, m) = {}
  <2>1. unexpected' = [unexpected EXCEPT ![s] = @ \union {[n |-> accepted'[s], m |-> m]}]
    BY <1>3 DEF match_one, Keep
  <2>2. ASSUME NEW r \in Queued', Accepts(r, s, m) PROVE FALSE
    <3>1. r \in Queued /\ r \notin Probes(s, m)
      BY <1>1
    <3>2. r.src \in {s, AnySource} /\ \A p \in Senders : p # AnySource
      BY <2>2, SenderFacts DEF Accepts
    <3>3. r \in specific[s] \union wild
      BY <3>1, <3>2, QueuedCases DEF ReceivesOK
    <3>4. r \in Able(s, m)
      BY <2>2, <3>3 DEF Able
    <3>5. r.probe
      BY <1>3, <3>4, EarliestFacts
    <3>. QED BY <1>3, <3>1, <3>4, <3>5 DEF Probes
  <2>. SUFFICES ASSUME NEW r \in Queued', NEW p \in Senders, NEW e \in unexpected'[p],
                       Accepts(r, p, e.m)
                PROVE  FALSE
    BY DEF NoMissedMatch, Accepts
  <2>3. CASE e \in unexpected[p]
    BY <1>1, <2>3 DEF NoMissedMatch
  <2>4. CASE e \notin unexpected[p]
    <3>1. p = s /\ e.m = m
      BY <2>1, <2>4 DEF TypeOK
    <3>. QED BY <2>2, <3>1
  <2>. QED BY <2>3, <2>4
<1>. QED BY <1>2, <1>3

\* What NoMissedMatch reads.
LEMMA SameMisses ==
  ASSUME NoMissedMatch, Queued' \subseteq Queued,
         \A s \in Senders : unexpected'[s] \subseteq unexpected[s]
  PROVE  NoMissedMatch'
BY DEF NoMissedMatch, Accepts

\* Thread t goes to another place.
LEMMA ThreadsMoved ==
  ASSUME TypeOK, ThreadsOK, NEW t \in Threads, NEW place \in Place, Goto(t, place),
         UNCHANGED <<config, created>>, Taken \subseteq Taken',
         posts' \in Nat, posts <= posts',
         created = TRUE \/ (posts' = 0 /\ Queued' = {}),
         ThreadOK(t, place)'
  PROVE  ThreadsOK'
<1>1. pc'[t] = place /\ \A u \in Threads : u # t => pc'[u] = pc[u]
  BY SlowAfter
<1>2. ASSUME NEW u \in Threads, NEW p \in Place, ThreadOK(u, p) PROVE ThreadOK(u, p)'
  <2>1. p.at = "cancel" => p.n < posts'
    <3>1. ASSUME p.at = "cancel" PROVE p.n \in Nat /\ posts \in Nat /\ p.n < posts
      BY <1>2, <3>1, PlaceFields DEF TypeOK, ThreadOK
    <3>. QED BY <3>1
  <2>2. p.at = "progress" => p.matched \subseteq Taken'
    BY <1>2, Zenon DEF ThreadOK
  <2>3. config' = config /\ (created' <=> created)
    OBVIOUS
  <2>. QED BY <1>2, <2>1, <2>2, <2>3, Zenon DEF ThreadOK
<1>3. ASSUME NEW u \in Threads PROVE ThreadOK(u, pc[u])'
  <2>1. PICK p \in Place : p = pc'[u] /\ ThreadOK(u, p)'
    <3>1. CASE u = t
      BY <1>1, <3>1
    <3>2. CASE u # t
      <4>1. PICK p \in Place : p = pc[u]
        BY DEF TypeOK
      <4>2. ThreadOK(u, p)
        BY <4>1 DEF ThreadsOK
      <4>. QED BY <1>1, <1>2, <3>2, <4>1, <4>2
    <3>. QED BY <3>1, <3>2
  <2>. QED BY <2>1, Zenon DEF ThreadOK
<1>4. (config.created => created)' /\ (~created => posts = 0 /\ Queued = {})'
  BY Zenon DEF ThreadsOK
<1>. QED BY <1>3, <1>4, Zenon DEF ThreadsOK

PlaceLooks(place, s) == /\ place.at \in {"progress", "check", "search", "adding next"}
                        /\ place.s = s
                        /\ place.at = "progress" => place.next = "check"

\* Thread t goes to another place, and looks where it has to.
LEMMA LooksMoved ==
  ASSUME TypeOK, LookedAfter, NEW t \in Threads, NEW place \in Place, Goto(t, place),
         \A s \in Senders : (NextOf(s) # {})' /\ ~PlaceLooks(place, s)
                              => NextOf(s) # {} /\ ~PlaceLooks(pc[t], s)
  PROVE  LookedAfter'
<1>. SUFFICES ASSUME NEW s \in Senders, (NextOf(s) # {})'
              PROVE  \E u \in Threads : WillLook(u, s)'
  BY DEF LookedAfter
<1>1. pc'[t] = place /\ \A u \in Threads : u # t => pc'[u] = pc[u]
  BY SlowAfter
<1>2. CASE PlaceLooks(place, s)
  <2>1. WillLook(t, s)'
    BY <1>1, <1>2 DEF WillLook, PlaceLooks
  <2>. QED BY <2>1
<1>3. CASE ~PlaceLooks(place, s)
  <2>1. NextOf(s) # {} /\ ~PlaceLooks(pc[t], s)
    BY <1>3
  <2>2. PICK u \in Threads : WillLook(u, s)
    BY <2>1 DEF LookedAfter
  <2>3. u # t
    BY <2>1, <2>2 DEF WillLook, PlaceLooks
  <2>4. WillLook(u, s)'
    BY <1>1, <2>2, <2>3 DEF WillLook
  <2>. QED BY <2>4
<1>. QED BY <1>2, <1>3

\* The turn of a message changes only when one of its sender is let in.
LEMMA OtherTurns ==
  ASSUME TypeOK, NEW s \in Senders, NEW p \in Senders, p # s,
         accepted' = accepted \/ LetIn(s),
         cant' = cant \/ \E S : cant' = [cant EXCEPT ![s] = S]
  PROVE  NextOf(p)' = NextOf(p)
<1>1. accepted'[p] = accepted[p] /\ cant'[p] = cant[p]
  BY DEF LetIn, TypeOK
<1>. QED BY <1>1 DEF NextOf, expected_sequence, hdr_seq

-----------------------------------------------------------------------------
(* The inductive invariant, action by action.                              *)

\* match_one and what the thread does with what it finds.
LEMMA MatchInv ==
  ASSUME IInv, NEW t \in Threads, t \in config.threads, created = TRUE,
         NEW s \in Senders, NEW m \in Message, NEW next \in {"idle", "check"},
         match_one(s, m), Progress(t, s, Matched, next),
         UNCHANGED <<config, created, sends, marked>>,
         pending' \subseteq Message, net' \in [Senders -> SUBSET Message],
         cant' \in [Senders -> SUBSET Message],
         cant' = cant \/ \E S : cant' = [cant EXCEPT ![s] = S],
         MessagesOK',
         \A p \in Senders : p # s => ~PlaceLooks(pc[t], p),
         next = "idle" => (NextOf(s) = {})'
  PROVE  IInv'
<1>0. TypeOK /\ MessagesOK /\ ReceivesOK /\ ThreadsOK /\ LookedAfter /\ NoMissedMatch
  BY DEF IInv
<1>1. PICK place \in Place : /\ Goto(t, place)
                             /\ place.at = "progress" /\ place.s = s /\ place.next = next
                             /\ place.matched = {x.seq : x \in Matched}
  <2>. DEFINE new == [at |-> "progress", s |-> s, matched |-> {x.seq : x \in Matched},
                      next |-> next]
  <2>1. /\ new \in Place /\ new.at = "progress" /\ new.s = s /\ new.next = next
        /\ new.matched = {x.seq : x \in Matched}
    BY <1>0, MatchOneTypes, PlaceTypes
  <2>2. Goto(t, new)
    BY DEF Progress
  <2>. QED BY <2>1, <2>2
<1>2. pc' \in [Threads -> Place]
  BY <1>0, <1>1, SlowAfter
<1>3. TypeOK'
  BY <1>0, <1>2, MatchOneTypes DEF TypeOK
<1>4. /\ ReceivesOK' /\ Taken \subseteq Taken' /\ {x.seq : x \in Matched} \subseteq Taken'
      /\ posts' = posts
  BY <1>0, MatchReceives DEF match_one
<1>5. ThreadsOK'
  <2>0. config' = config /\ created' = TRUE /\ place.at = "progress"
    BY <1>1
  <2>1. ThreadOK(t, place)'
    <3>1. t \in config'.threads /\ created'
      BY <2>0
    <3>2. place.at # "adding" /\ place.at # "adding next" /\ place.at # "slow" /\ place.at # "cancel"
      BY <2>0
    <3>3. place.matched \subseteq Taken'
      BY <1>1, <1>4
    <3>. QED BY <3>1, <3>2, <3>3, Zenon DEF ThreadOK
  <2>2. posts' \in Nat /\ posts <= posts'
    BY <1>0, <1>4 DEF TypeOK
  <2>4. UNCHANGED <<config, created>>
    OBVIOUS
  <2>. QED BY <1>0, <1>1, <1>4, <2>1, <2>2, <2>4, ThreadsMoved
<1>6. LookedAfter'
  <2>1. ASSUME NEW p \in Senders, (NextOf(p) # {})', ~PlaceLooks(place, p)
        PROVE  NextOf(p) # {} /\ ~PlaceLooks(pc[t], p)
    <3>1. p # s
      BY <1>1, <2>1 DEF PlaceLooks
    <3>2. LetIn(s)
      BY DEF match_one
    <3>3. NextOf(p)' = NextOf(p)
      BY <1>0, <3>1, <3>2, OtherTurns
    <3>. QED BY <2>1, <3>1, <3>3
  <2>. QED BY <1>0, <1>1, <2>1, LooksMoved
<1>7. NoMissedMatch'
  BY <1>0, MatchMissesNothing
<1>. QED BY <1>3, <1>4, <1>5, <1>6, <1>7 DEF IInv

\* A step that leaves the receives alone, and lets nothing in.
LEMMA QuietInv ==
  ASSUME IInv, NEW t \in Threads, NEW place \in Place, Goto(t, place), ThreadOK(t, place),
         UNCHANGED <<config, created, sends, accepted, unexpected>>,
         UNCHANGED <<specific, wild, posts, last_probed, took, cancelled>>,
         marked' \subseteq Taken,
         pending' \subseteq Message, net' \in [Senders -> SUBSET Message],
         cant' \in [Senders -> SUBSET Message], MessagesOK',
         \A s \in Senders : (NextOf(s) # {})' /\ ~PlaceLooks(place, s)
                              => NextOf(s) # {} /\ ~PlaceLooks(pc[t], s)
  PROVE  IInv'
<1>0. TypeOK /\ MessagesOK /\ ReceivesOK /\ ThreadsOK /\ LookedAfter /\ NoMissedMatch
  BY DEF IInv
<1>1. pc' \in [Threads -> Place]
  BY <1>0, SlowAfter
<1>2. Taken \subseteq Nat
  BY <1>0 DEF ReceivesOK, TypeOK
<1>3. TypeOK'
  BY <1>0, <1>1, <1>2 DEF TypeOK
<1>4. ReceivesOK' /\ Taken' = Taken /\ Queued' = Queued
  BY <1>0, SameReceives
<1>5. ThreadsOK'
  <2>1. ThreadOK(t, place)'
    <3>1. config' = config /\ (created' <=> created) /\ posts' = posts
      OBVIOUS
    <3>. QED BY <1>4, <3>1, Zenon DEF ThreadOK
  <2>2. posts' \in Nat /\ posts <= posts'
    BY <1>0 DEF TypeOK
  <2>3. created = TRUE \/ (posts' = 0 /\ Queued' = {})
    <3>1. created = TRUE \/ ~created
      BY <1>0 DEF TypeOK
    <3>2. ~created => posts = 0 /\ Queued = {}
      BY <1>0 DEF ThreadsOK
    <3>. QED BY <1>4, <3>1, <3>2, Zenon
  <2>4. Taken \subseteq Taken' /\ UNCHANGED <<config, created>>
    BY <1>4
  <2>. QED BY <1>0, <2>1, <2>2, <2>3, <2>4, ThreadsMoved
<1>6. LookedAfter'
  BY <1>0, LooksMoved
<1>7. NoMissedMatch'
  BY <1>0, <1>4, SameMisses
<1>. QED BY <1>3, <1>4, <1>5, <1>6, <1>7 DEF IInv

\* What a thread that is free, or one that is in the layer, may rely on.
LEMMA ThreadFacts ==
  ASSUME IInv, NEW t \in Threads
  PROVE  /\ TypeOK /\ MessagesOK /\ ReceivesOK /\ ThreadsOK /\ LookedAfter /\ NoMissedMatch
         /\ ThreadOK(t, pc[t]) /\ pc[t] \in Place /\ created \in BOOLEAN
         /\ pc[t].at \in {"slow", "progress", "check", "search", "cancel"}
              => created = TRUE /\ t \in config.threads
         /\ pc[t].at \in {"adding", "adding next"} => created = FALSE /\ t \in config.threads
<1>1. TypeOK /\ MessagesOK /\ ReceivesOK /\ ThreadsOK /\ LookedAfter /\ NoMissedMatch
  BY DEF IInv
<1>2. ThreadOK(t, pc[t]) /\ pc[t] \in Place /\ created \in BOOLEAN
  BY <1>1 DEF ThreadsOK, TypeOK
<1>3. pc[t].at # "idle" => pc[t] # Idle
  BY DEF Idle
<1>. QED BY <1>1, <1>2, <1>3 DEF ThreadOK

\* What is kept apart and the threads that will look at it, as they were.
LEMMA StillLookedAfter ==
  ASSUME LookedAfter, UNCHANGED <<cant, accepted, pc>> PROVE LookedAfter'
<1>1. \A s \in Senders : NextOf(s)' = NextOf(s)
  BY DEF NextOf, hdr_seq, expected_sequence
<1>2. \A s \in Senders : \A t \in Threads : WillLook(t, s)' <=> WillLook(t, s)
  BY DEF WillLook
<1>. QED BY <1>1, <1>2 DEF LookedAfter

LEMMA SendInv == ASSUME IInv, NEW s \in Senders, Send(s) PROVE IInv'
<1>0. TypeOK /\ MessagesOK /\ ReceivesOK /\ ThreadsOK /\ LookedAfter /\ NoMissedMatch
  BY DEF IInv
<1>1. UNCHANGED <<config, created, pending, accepted, cant, unexpected, pc>> /\ UNCHANGED receives
  BY DEF Send
<1>2. UNCHANGED <<specific, wild, posts, last_probed, took, marked, cancelled>>
  BY <1>1 DEF receives
<1>3. sends' \in [Senders -> Nat] /\ net' \in [Senders -> SUBSET Message]
  <2>1. sends' = [sends EXCEPT ![s] = @ + 1] /\ sends[s] \in Nat /\ sends'[s] = sends[s] + 1
    BY <1>0 DEF Send, TypeOK
  <2>2. \A tag \in MessageTags : [s |-> s, tag |-> tag, k |-> sends'[s]] \in Message
    BY <2>1 DEF Message
  <2>3. \/ UNCHANGED net
        \/ \E tag \in MessageTags :
             net' = [net EXCEPT ![s] = @ \union {[s |-> s, tag |-> tag, k |-> sends'[s]]}]
    BY DEF Send
  <2>. QED BY <1>0, <2>1, <2>2, <2>3 DEF TypeOK
<1>4. TypeOK'
  BY <1>0, <1>1, <1>2, <1>3 DEF TypeOK
<1>5. MessagesOK'
  BY <1>0, SendMessages
<1>6. ReceivesOK' /\ Taken' = Taken /\ Queued' = Queued
  <2>1. marked \subseteq Taken
    BY <1>0 DEF ReceivesOK
  <2>. QED BY <1>0, <1>2, <2>1, SameReceives
<1>7. ThreadsOK'
  BY <1>0, <1>1, <1>2, <1>6 DEF ThreadsOK, ThreadOK
<1>8. LookedAfter'
  BY <1>0, <1>1, StillLookedAfter
<1>9. NoMissedMatch'
  BY <1>0, <1>1, <1>6, SameMisses
<1>. QED BY <1>4, <1>5, <1>6, <1>7, <1>8, <1>9 DEF IInv

LEMMA IdlePlace ==
  /\ Idle \in Place /\ Idle.at = "idle"
  /\ \A t : ThreadOK(t, Idle)
  /\ \A s : ~PlaceLooks(Idle, s)
BY PlaceTypes DEF Idle, ThreadOK, PlaceLooks

LEMMA ArrivalInv ==
  ASSUME IInv, NEW t \in Threads, NEW s \in Senders, NEW m \in net[s],
         CallbackMatch(t, s, m) \/ CallbackRndv(t, s, m)
  PROVE  IInv'
<1>0. TypeOK /\ MessagesOK /\ ReceivesOK
  BY DEF IInv
<1>1. /\ m \in Message /\ pc[t] = Idle /\ t \in config.threads /\ Arrive(t, s, m)
      /\ net' = [net EXCEPT ![s] = @ \ {m}] /\ UNCHANGED <<config, created, pending, sends>>
  BY <1>0 DEF TypeOK, CallbackMatch, CallbackRndv, Arrive, Free
<1>2. created = TRUE
  <2>1. created
    BY Zenon DEF CallbackMatch, CallbackRndv
  <2>. QED BY <1>0, <2>1 DEF TypeOK
<1>3. net' \in [Senders -> SUBSET Message] /\ pending' \subseteq Message
  BY <1>0, <1>1 DEF TypeOK
<1>4. CASE /\ hdr_seq(m) = expected_sequence(s) /\ cant[s] = {}
           /\ match_one(s, m)
           /\ Progress(t, s, Matched, "idle")
           /\ UNCHANGED <<cant, marked>>
  <2>1. MessagesOK'
    BY <1>0, <1>1, <1>4, ArrivalMessages
  <2>2. (NextOf(s) = {})'
    BY <1>4 DEF NextOf
  <2>3. \A p \in Senders : p # s => ~PlaceLooks(pc[t], p)
    BY <1>1, IdlePlace
  <2>4. cant' \in [Senders -> SUBSET Message]
    BY <1>0, <1>4 DEF TypeOK
  <2>. QED BY <1>1, <1>2, <1>3, <1>4, <2>1, <2>2, <2>3, <2>4, MatchInv
<1>5. CASE /\ Goto(t, [at |-> "slow", s |-> s, m |-> m])
           /\ UNCHANGED <<accepted, cant, unexpected>> /\ UNCHANGED receives
  <2>. DEFINE place == [at |-> "slow", s |-> s, m |-> m]
  <2>1. place \in Place /\ place.at = "slow" /\ place.m.s = place.s
    BY <1>0, <1>1, PlaceTypes DEF MessagesOK
  <2>. HIDE DEF place
  <2>2. Goto(t, place)
    BY <1>5 DEF place
  <2>3. ThreadOK(t, place)
    BY <1>1, <1>2, <2>1 DEF ThreadOK
  <2>4. UNCHANGED <<specific, wild, posts, last_probed, took, marked, cancelled>>
    BY <1>5 DEF receives
  <2>5. MessagesOK'
    BY <1>0, <1>1, <1>5, ArrivalMessages
  <2>6. \A p \in Senders : NextOf(p)' = NextOf(p) /\ ~PlaceLooks(pc[t], p)
    BY <1>1, <1>5, IdlePlace DEF NextOf, hdr_seq, expected_sequence
  <2>7. cant' \in [Senders -> SUBSET Message] /\ marked' \subseteq Taken
    BY <1>0, <1>5, <2>4 DEF TypeOK, ReceivesOK
  <2>. QED BY <1>1, <1>3, <1>5, <2>1, <2>2, <2>3, <2>4, <2>5, <2>6, <2>7, QuietInv
<1>6. CASE CallbackMatch(t, s, m)
  BY <1>4, <1>5, <1>6, Zenon DEF CallbackMatch
<1>7. CASE CallbackRndv(t, s, m)
  BY <1>5, <1>7, Zenon DEF CallbackRndv
<1>. QED BY <1>6, <1>7

LEMMA TooEarlyInv ==
  ASSUME IInv, NEW t \in Threads, NEW s \in Senders, NEW m \in net[s],
         CallbackTooEarly(t, s, m)
  PROVE  IInv'
<1>0. TypeOK /\ MessagesOK /\ ReceivesOK /\ ThreadsOK
  BY DEF IInv
<1>1. /\ m \in Message /\ pc[t] = Idle
      /\ net' = [net EXCEPT ![s] = @ \ {m}] /\ pending' = pending \union {m}
      /\ UNCHANGED <<config, created, sends, accepted, cant, unexpected, pc>>
      /\ UNCHANGED receives
  BY <1>0 DEF TypeOK, CallbackTooEarly, Free
<1>2. /\ net' \in [Senders -> SUBSET Message] /\ pending' \subseteq Message
      /\ cant' \in [Senders -> SUBSET Message]
  BY <1>0, <1>1 DEF TypeOK
<1>3. Goto(t, Idle)
  BY <1>0, <1>1 DEF Goto, TypeOK
<1>4. UNCHANGED <<specific, wild, posts, last_probed, took, marked, cancelled>>
  BY <1>1 DEF receives
<1>5. MessagesOK'
  BY <1>0, TooEarlyMessages
<1>6. \A p \in Senders : NextOf(p)' = NextOf(p) /\ ~PlaceLooks(pc[t], p)
  BY <1>1, IdlePlace DEF NextOf, hdr_seq, expected_sequence
<1>7. marked' \subseteq Taken
  BY <1>0, <1>4 DEF ReceivesOK
<1>. QED BY <1>1, <1>2, <1>3, <1>4, <1>5, <1>6, <1>7, IdlePlace, QuietInv

LEMMA RecvFragInv ==
  ASSUME IInv, NEW t \in Threads, RecvFragMatch(t) PROVE IInv'
<1>0. TypeOK /\ MessagesOK /\ ReceivesOK /\ ThreadsOK /\ ThreadOK(t, pc[t])
  BY ThreadFacts
<1>1. PICK s \in Senders, m \in Message : s = pc[t].s /\ m = pc[t].m /\ m.s = s
  BY <1>0, PlaceFields DEF RecvFragMatch, TypeOK, ThreadOK
<1>2. /\ pc[t].at = "slow" /\ created = TRUE /\ t \in config.threads
      /\ UNCHANGED <<config, created, pending, net, sends>>
  BY ThreadFacts DEF RecvFragMatch
<1>3. /\ net' \in [Senders -> SUBSET Message] /\ pending' \subseteq Message
      /\ MessagesOK' /\ \A p \in Senders : ~PlaceLooks(pc[t], p)
  BY <1>0, <1>2, RecvFragMessages DEF TypeOK, PlaceLooks
<1>4. CASE /\ match_one(s, m)
           /\ Progress(t, s, Matched, "check")
           /\ UNCHANGED <<cant, marked>>
  <2>1. cant' \in [Senders -> SUBSET Message]
    BY <1>0, <1>4 DEF TypeOK
  <2>. QED BY <1>2, <1>3, <1>4, <2>1, MatchInv
<1>5. CASE /\ hdr_seq(m) # expected_sequence(s)
           /\ cant' = [cant EXCEPT ![s] = @ \union {m}]
           /\ Goto(t, Idle)
           /\ UNCHANGED <<accepted, unexpected>> /\ UNCHANGED receives
  <2>1. /\ cant' \in [Senders -> SUBSET Message]
        /\ \A p \in Senders : cant'[p] = IF p = s THEN cant[s] \union {m} ELSE cant[p]
    BY <1>0, <1>5 DEF TypeOK
  <2>2. \A p \in Senders : NextOf(p)' = NextOf(p)
    BY <1>5, <2>1 DEF NextOf, hdr_seq, expected_sequence
  <2>3. UNCHANGED <<specific, wild, posts, last_probed, took, marked, cancelled>>
    BY <1>5 DEF receives
  <2>4. marked' \subseteq Taken
    BY <1>0, <2>3 DEF ReceivesOK
  <2>. QED BY <1>2, <1>3, <1>5, <2>1, <2>2, <2>3, <2>4, IdlePlace, QuietInv
<1>. QED BY <1>1, <1>4, <1>5 DEF RecvFragMatch

LEMMA MarkInv ==
  ASSUME IInv, NEW t \in Threads, Mark(t) PROVE IInv'
<1>0. /\ TypeOK /\ MessagesOK /\ ReceivesOK /\ ThreadsOK /\ ThreadOK(t, pc[t]) /\ pc[t] \in Place
      /\ pc[t].at = "progress" /\ created = TRUE /\ t \in config.threads
  BY ThreadFacts DEF Mark
<1>1. PICK s \in Senders, next \in {"idle", "check"} : s = pc[t].s /\ next = pc[t].next
  BY <1>0, PlaceFields
<1>2. /\ UNCHANGED <<config, created, specific, wild, posts, last_probed, took, cancelled>>
      /\ UNCHANGED <<pending, net, sends, accepted, cant, unexpected>>
      /\ marked' = marked \union pc[t].matched
  BY DEF Mark, messages
<1>3. PICK place \in Place : /\ Goto(t, place) /\ ThreadOK(t, place) /\ place.at # "slow"
                             /\ next = "check" => place.at = "check" /\ place.s = s
  <2>1. CASE next = "idle"
    BY <1>1, <2>1, IdlePlace DEF Mark
  <2>2. CASE next = "check"
    <3>. DEFINE new == [at |-> "check", s |-> s]
    <3>1. new \in Place /\ Goto(t, new) /\ new.at = "check" /\ new.s = s
      BY <1>1, <2>2, PlaceTypes DEF Mark
    <3>2. ThreadOK(t, new)
      BY <1>0, <3>1 DEF ThreadOK
    <3>. QED BY <3>1, <3>2
  <2>. QED BY <1>1, <2>1, <2>2
<1>4. /\ pending' \subseteq Message /\ net' \in [Senders -> SUBSET Message]
      /\ cant' \in [Senders -> SUBSET Message]
  BY <1>0, <1>2 DEF TypeOK
<1>5. Copies' \subseteq Copies
  BY <1>0, <1>2, <1>3, QuietCopies
<1>6. MessagesOK'
  BY <1>0, <1>2, <1>5, SameMessages
<1>7. marked' \subseteq Taken
  BY <1>0, <1>2 DEF ReceivesOK, ThreadOK
<1>8. \A p \in Senders : NextOf(p)' = NextOf(p)
  BY <1>2 DEF NextOf, hdr_seq, expected_sequence
<1>9. \A p \in Senders : PlaceLooks(pc[t], p) => PlaceLooks(place, p)
  BY <1>0, <1>1, <1>3 DEF PlaceLooks
<1>. QED BY <1>2, <1>3, <1>4, <1>6, <1>7, <1>8, <1>9, QuietInv

LEMMA CheckInv ==
  ASSUME IInv, NEW t \in Threads, CheckCantMatch(t) PROVE IInv'
<1>0. /\ TypeOK /\ MessagesOK /\ ReceivesOK /\ ThreadsOK /\ ThreadOK(t, pc[t]) /\ pc[t] \in Place
      /\ pc[t].at = "check" /\ created = TRUE /\ t \in config.threads
  BY ThreadFacts DEF CheckCantMatch
<1>1. PICK s \in Senders : s = pc[t].s
  BY <1>0, PlaceFields
<1>2. /\ UNCHANGED <<config, created, pending, net, sends, accepted, cant, unexpected>>
      /\ UNCHANGED <<specific, wild, posts, last_probed, took, marked, cancelled>>
  BY DEF CheckCantMatch, messages, receives
<1>3. PICK place \in Place : /\ Goto(t, place) /\ ThreadOK(t, place) /\ place.at # "slow"
                             /\ cant[s] # {} => place.at = "search" /\ place.s = s
  <2>1. CASE cant[s] = {}
    BY <1>1, <2>1, IdlePlace DEF CheckCantMatch
  <2>2. CASE cant[s] # {}
    <3>. DEFINE new == [at |-> "search", s |-> s]
    <3>1. new \in Place /\ Goto(t, new) /\ new.at = "search" /\ new.s = s
      BY <1>1, <2>2, PlaceTypes DEF CheckCantMatch
    <3>2. ThreadOK(t, new)
      BY <1>0, <3>1 DEF ThreadOK
    <3>. QED BY <3>1, <3>2
  <2>. QED BY <2>1, <2>2
<1>4. /\ pending' \subseteq Message /\ net' \in [Senders -> SUBSET Message]
      /\ cant' \in [Senders -> SUBSET Message]
  BY <1>0, <1>2 DEF TypeOK
<1>5. Copies' \subseteq Copies
  BY <1>0, <1>2, <1>3, QuietCopies
<1>6. MessagesOK'
  BY <1>0, <1>2, <1>5, SameMessages
<1>7. marked' \subseteq Taken
  BY <1>0, <1>2 DEF ReceivesOK
<1>8. \A p \in Senders : NextOf(p)' = NextOf(p)
  BY <1>2 DEF NextOf, hdr_seq, expected_sequence
<1>9. \A p \in Senders : NextOf(p) # {} /\ PlaceLooks(pc[t], p) => PlaceLooks(place, p)
  BY <1>0, <1>1, <1>3 DEF PlaceLooks, NextOf
<1>. QED BY <1>2, <1>3, <1>4, <1>6, <1>7, <1>8, <1>9, QuietInv

LEMMA SearchInv ==
  ASSUME IInv, NEW t \in Threads, SearchCantMatch(t) PROVE IInv'
<1>0. /\ TypeOK /\ MessagesOK /\ ReceivesOK /\ ThreadsOK /\ ThreadOK(t, pc[t]) /\ pc[t] \in Place
      /\ pc[t].at = "search" /\ created = TRUE /\ t \in config.threads
  BY ThreadFacts DEF SearchCantMatch
<1>1. PICK s \in Senders : s = pc[t].s
  BY <1>0, PlaceFields
<1>2. UNCHANGED <<config, created, pending, net, sends>>
  BY DEF SearchCantMatch
<1>3. /\ pending' \subseteq Message /\ net' \in [Senders -> SUBSET Message]
      /\ \A p \in Senders : p # s => ~PlaceLooks(pc[t], p)
  BY <1>0, <1>1, <1>2 DEF TypeOK, PlaceLooks
<1>4. ASSUME NEW m \in NextOf(s), cant' = [cant EXCEPT ![s] = @ \ {m}], match_one(s, m),
             Progress(t, s, Matched, "check"), UNCHANGED marked
      PROVE  IInv'
  <2>1. m \in Message /\ cant' \in [Senders -> SUBSET Message]
    BY <1>0, <1>4 DEF TypeOK, NextOf
  <2>2. \A u \in Slow' : u \in Slow /\ pc'[u].m = pc[u].m
    <3>1. PICK place \in Place : Goto(t, place) /\ place.at # "slow"
      <4>. DEFINE new == [at |-> "progress", s |-> s, matched |-> {x.seq : x \in Matched},
                          next |-> "check"]
      <4>1. new \in Place /\ new.at # "slow"
        BY <1>0, <1>4, <2>1, MatchOneTypes, PlaceTypes
      <4>2. Goto(t, new)
        BY <1>4 DEF Progress
      <4>. QED BY <4>1, <4>2
    <3>2. t \notin Slow
      BY <1>0 DEF Slow
    <3>. QED BY <1>0, <3>1, <3>2, SlowAfter
  <2>3. LetIn(s) /\ (UNCHANGED unexpected \/ Keep(s, m))
    BY <1>4 DEF match_one
  <2>4. MessagesOK'
    BY <1>0, <1>2, <1>4, <2>2, <2>3, FoundMessages
  <2>. QED BY <1>0, <1>2, <1>3, <1>4, <2>1, <2>4, MatchInv
<1>5. CASE NextOf(s) = {} /\ Goto(t, Idle) /\ UNCHANGED <<accepted, cant, unexpected>>
           /\ UNCHANGED receives
  <2>1. /\ cant' \in [Senders -> SUBSET Message]
        /\ UNCHANGED <<specific, wild, posts, last_probed, took, marked, cancelled>>
    BY <1>0, <1>5 DEF TypeOK, receives
  <2>2. Copies' \subseteq Copies
    BY <1>0, <1>2, <1>5, IdlePlace, QuietCopies
  <2>3. MessagesOK'
    BY <1>0, <1>2, <1>5, <2>2, SameMessages
  <2>4. marked' \subseteq Taken
    BY <1>0, <2>1 DEF ReceivesOK
  <2>5. \A p \in Senders : NextOf(p)' = NextOf(p)
    BY <1>5 DEF NextOf, hdr_seq, expected_sequence
  <2>. QED BY <1>2, <1>3, <1>5, <2>1, <2>3, <2>4, <2>5, IdlePlace, QuietInv
<1>. QED BY <1>1, <1>4, <1>5 DEF SearchCantMatch

\* A message is let in before the communicator exists.
LEMMA LetInInv ==
  ASSUME IInv, NEW t \in Threads, NEW place \in Place, Goto(t, place), ThreadOK(t, place),
         created = FALSE, NEW s \in Senders, NEW m \in Message, LetIn(s), Keep(s, m),
         UNCHANGED <<config, created, sends, net>>,
         UNCHANGED <<specific, wild, posts, last_probed, took, marked, cancelled>>,
         pending' \subseteq Message, cant' \in [Senders -> SUBSET Message],
         cant' = cant \/ \E S : cant' = [cant EXCEPT ![s] = S],
         MessagesOK', PlaceLooks(place, s),
         \A p \in Senders : p # s => ~PlaceLooks(pc[t], p)
  PROVE  IInv'
<1>0. TypeOK /\ MessagesOK /\ ReceivesOK /\ ThreadsOK /\ LookedAfter /\ NoMissedMatch
  BY DEF IInv
<1>1. pc' \in [Threads -> Place]
  BY <1>0, SlowAfter
<1>2. accepted' \in [Senders -> Nat] /\ unexpected' \in [Senders -> SUBSET [n : Nat, m : Message]]
  <2>1. accepted' \in [Senders -> Nat]
    BY <1>0 DEF LetIn, TypeOK
  <2>2. [n |-> accepted'[s], m |-> m] \in [n : Nat, m : Message]
    BY <2>1
  <2>. QED BY <1>0, <2>1, <2>2 DEF Keep, TypeOK
<1>3. TypeOK'
  BY <1>0, <1>1, <1>2 DEF TypeOK
<1>4. ReceivesOK' /\ Taken' = Taken /\ Queued' = Queued
  <2>1. marked' \subseteq Taken
    BY <1>0 DEF ReceivesOK
  <2>. QED BY <1>0, <2>1, SameReceives
<1>5. posts = 0 /\ Queued = {}
  <2>1. ~created
    BY Zenon
  <2>. QED BY <1>0, <2>1, Zenon DEF ThreadsOK
<1>6. ThreadsOK'
  <2>1. ThreadOK(t, place)'
    <3>1. config' = config /\ (created' <=> created) /\ posts' = posts
      OBVIOUS
    <3>. QED BY <1>4, <3>1, Zenon DEF ThreadOK
  <2>2. posts' \in Nat /\ posts <= posts' /\ posts' = 0 /\ Queued' = {}
    BY <1>0, <1>4, <1>5 DEF TypeOK
  <2>3. Taken \subseteq Taken' /\ UNCHANGED <<config, created>>
    BY <1>4
  <2>. QED BY <1>0, <2>1, <2>2, <2>3, ThreadsMoved
<1>7. LookedAfter'
  <2>1. ASSUME NEW p \in Senders, (NextOf(p) # {})', ~PlaceLooks(place, p)
        PROVE  NextOf(p) # {} /\ ~PlaceLooks(pc[t], p)
    <3>1. p # s
      BY <2>1
    <3>2. NextOf(p)' = NextOf(p)
      BY <1>0, <3>1, OtherTurns
    <3>. QED BY <2>1, <3>1, <3>2
  <2>. QED BY <1>0, <2>1, LooksMoved
<1>8. NoMissedMatch'
  BY <1>4, <1>5 DEF NoMissedMatch
<1>. QED BY <1>3, <1>4, <1>6, <1>7, <1>8 DEF IInv

LEMMA AddCommInv ==
  ASSUME IInv, NEW t \in Threads, AddComm(t) PROVE IInv'
<1>0. /\ TypeOK /\ MessagesOK /\ ReceivesOK /\ ThreadsOK
      /\ pc[t] = Idle /\ t \in config.threads
      /\ UNCHANGED <<config, created, pending, net, sends, accepted, cant, unexpected>>
      /\ UNCHANGED <<specific, wild, posts, last_probed, took, marked, cancelled>>
  BY DEF IInv, AddComm, Free, messages, receives
<1>1. ~created
  BY Zenon DEF AddComm
<1>. DEFINE place == [at |-> "adding"]
<1>2. place \in Place /\ place.at = "adding"
  BY PlaceTypes
<1>3. Goto(t, place)
  BY DEF AddComm
<1>. HIDE DEF place
<1>4. ThreadOK(t, place)
  <2>1. /\ place.at # "slow" /\ place.at # "progress" /\ place.at # "check"
        /\ place.at # "search" /\ place.at # "cancel"
    BY <1>2
  <2>. QED BY <1>0, <1>1, <2>1, Zenon DEF ThreadOK
<1>5. /\ pending' \subseteq Message /\ net' \in [Senders -> SUBSET Message]
      /\ cant' \in [Senders -> SUBSET Message]
  BY <1>0 DEF TypeOK
<1>6. MessagesOK'
  <2>1. Copies' \subseteq Copies
    BY <1>0, <1>2, <1>3, QuietCopies
  <2>. QED BY <1>0, <2>1, SameMessages
<1>7. marked' \subseteq Taken
  BY <1>0 DEF ReceivesOK
<1>8. \A p \in Senders : NextOf(p)' = NextOf(p) /\ ~PlaceLooks(pc[t], p)
  BY <1>0, IdlePlace DEF NextOf, hdr_seq, expected_sequence
<1>. QED BY <1>0, <1>2, <1>3, <1>4, <1>5, <1>6, <1>7, <1>8, QuietInv

LEMMA AddFragmentInv ==
  ASSUME IInv, NEW t \in Threads, AddFragment(t) PROVE IInv'
<1>0. /\ TypeOK /\ MessagesOK /\ ReceivesOK /\ ThreadsOK /\ ThreadOK(t, pc[t]) /\ pc[t] \in Place
      /\ pc[t].at = "adding" /\ created = FALSE /\ t \in config.threads
  BY ThreadFacts DEF AddFragment
<1>1. PICK m \in pending :
        /\ \/ /\ hdr_seq(m) = expected_sequence(m.s)
              /\ LetIn(m.s) /\ Keep(m.s, m)
              /\ Goto(t, [at |-> "adding next", s |-> m.s])
              /\ UNCHANGED cant
           \/ /\ hdr_seq(m) # expected_sequence(m.s)
              /\ cant' = [cant EXCEPT ![m.s] = @ \union {m}]
              /\ UNCHANGED <<accepted, unexpected, pc>>
        /\ pending' = pending \ {m}
  BY DEF AddFragment
<1>2. /\ m \in Message /\ m.s \in Senders /\ pending' \subseteq Message
      /\ UNCHANGED <<config, created, sends, net>>
      /\ UNCHANGED <<specific, wild, posts, last_probed, took, marked, cancelled>>
      /\ net' \in [Senders -> SUBSET Message]
      /\ \A p \in Senders : ~PlaceLooks(pc[t], p)
  BY <1>0, <1>1 DEF AddFragment, TypeOK, Message, PlaceLooks, receives
<1>3. MessagesOK'
  BY <1>0, AddFragmentMessages
<1>4. CASE /\ LetIn(m.s) /\ Keep(m.s, m)
           /\ Goto(t, [at |-> "adding next", s |-> m.s])
           /\ UNCHANGED cant
  <2>. DEFINE place == [at |-> "adding next", s |-> m.s]
  <2>1. place \in Place /\ place.at = "adding next" /\ place.s = m.s /\ Goto(t, place)
    BY <1>2, <1>4, PlaceTypes
  <2>. HIDE DEF place
  <2>2. ThreadOK(t, place) /\ PlaceLooks(place, m.s)
    BY <1>0, <2>1 DEF ThreadOK, PlaceLooks
  <2>3. cant' \in [Senders -> SUBSET Message]
    BY <1>0, <1>4 DEF TypeOK
  <2>. QED BY <1>0, <1>2, <1>3, <1>4, <2>1, <2>2, <2>3, LetInInv
<1>5. CASE /\ hdr_seq(m) # expected_sequence(m.s)
           /\ cant' = [cant EXCEPT ![m.s] = @ \union {m}]
           /\ UNCHANGED <<accepted, unexpected, pc>>
  <2>1. PICK place \in Place : place = pc[t]
    BY <1>0
  <2>2. Goto(t, place) /\ ThreadOK(t, place)
    BY <1>0, <1>5, <2>1 DEF Goto, TypeOK
  <2>3. /\ cant' \in [Senders -> SUBSET Message]
        /\ \A p \in Senders : cant'[p] = IF p = m.s THEN cant[m.s] \union {m} ELSE cant[p]
    BY <1>0, <1>2, <1>5 DEF TypeOK
  <2>4. \A p \in Senders : NextOf(p)' = NextOf(p)
    BY <1>5, <2>3 DEF NextOf, hdr_seq, expected_sequence
  <2>5. marked' \subseteq Taken
    BY <1>0, <1>2 DEF ReceivesOK
  <2>. QED BY <1>2, <1>3, <1>5, <2>1, <2>2, <2>3, <2>4, <2>5, QuietInv
<1>. QED BY <1>1, <1>4, <1>5

LEMMA AddNextInv ==
  ASSUME IInv, NEW t \in Threads, AddNext(t) PROVE IInv'
<1>0. /\ TypeOK /\ MessagesOK /\ ReceivesOK /\ ThreadsOK /\ ThreadOK(t, pc[t]) /\ pc[t] \in Place
      /\ pc[t].at = "adding next" /\ created = FALSE /\ t \in config.threads
  BY ThreadFacts DEF AddNext
<1>1. PICK s \in Senders : s = pc[t].s
  BY <1>0, PlaceFields
<1>2. /\ UNCHANGED <<config, created, pending, sends, net>>
      /\ UNCHANGED <<specific, wild, posts, last_probed, took, marked, cancelled>>
  BY DEF AddNext, receives
<1>3. /\ pending' \subseteq Message /\ net' \in [Senders -> SUBSET Message]
      /\ \A p \in Senders : p # s => ~PlaceLooks(pc[t], p)
  BY <1>0, <1>1, <1>2 DEF TypeOK, PlaceLooks
<1>4. ASSUME NEW m \in NextOf(s), LetIn(s), Keep(s, m), cant' = [cant EXCEPT ![s] = @ \ {m}],
             UNCHANGED pc
      PROVE  IInv'
  <2>1. PICK place \in Place : place = pc[t]
    BY <1>0
  <2>2. Goto(t, place) /\ ThreadOK(t, place) /\ PlaceLooks(place, s)
    BY <1>0, <1>1, <1>4, <2>1 DEF Goto, TypeOK, PlaceLooks
  <2>3. m \in Message /\ cant' \in [Senders -> SUBSET Message]
    BY <1>0, <1>4 DEF TypeOK, NextOf
  <2>4. \A u \in Slow' : u \in Slow /\ pc'[u].m = pc[u].m
    BY <1>4 DEF Slow
  <2>5. MessagesOK'
    BY <1>0, <1>2, <1>4, <2>4, FoundMessages
  <2>. QED BY <1>0, <1>2, <1>3, <1>4, <2>2, <2>3, <2>5, LetInInv
<1>5. CASE NextOf(s) = {} /\ Goto(t, [at |-> "adding"]) /\ UNCHANGED <<accepted, unexpected, cant>>
  <2>. DEFINE place == [at |-> "adding"]
  <2>1. place \in Place /\ place.at = "adding" /\ Goto(t, place)
    BY <1>5, PlaceTypes
  <2>. HIDE DEF place
  <2>2. ThreadOK(t, place)
    BY <1>0, <2>1 DEF ThreadOK
  <2>3. cant' \in [Senders -> SUBSET Message]
    BY <1>0, <1>5 DEF TypeOK
  <2>4. MessagesOK'
    <3>1. Copies' \subseteq Copies
      BY <1>0, <1>2, <1>5, <2>1, QuietCopies
    <3>. QED BY <1>0, <1>2, <1>5, <3>1, SameMessages
  <2>5. marked' \subseteq Taken
    BY <1>0, <1>2 DEF ReceivesOK
  <2>6. \A p \in Senders : NextOf(p)' = NextOf(p)
    BY <1>5 DEF NextOf, hdr_seq, expected_sequence
  <2>. QED BY <1>2, <1>3, <1>5, <2>1, <2>2, <2>3, <2>4, <2>5, <2>6, QuietInv
<1>. QED BY <1>1, <1>4, <1>5 DEF AddNext

\* The thread that created the communicator is the only one in the layer.
LEMMA AddedInv ==
  ASSUME IInv, NEW t \in Threads, Added(t) PROVE IInv'
<1>0. /\ TypeOK /\ MessagesOK /\ ReceivesOK /\ ThreadsOK /\ LookedAfter /\ NoMissedMatch
      /\ ThreadOK(t, pc[t]) /\ pc[t] \in Place
      /\ pc[t].at = "adding" /\ created = FALSE /\ t \in config.threads
  BY ThreadFacts DEF Added
<1>1. /\ created' = TRUE /\ Goto(t, Idle)
      /\ UNCHANGED <<config, pending, net, sends, accepted, cant, unexpected>>
      /\ UNCHANGED <<specific, wild, posts, last_probed, took, marked, cancelled>>
  BY DEF Added, messages, receives
<1>2. \A u, v \in config.threads : u = v
  <2>1. ~created /\ (config.created => created)
    BY <1>0, Zenon DEF ThreadsOK
  <2>2. config \in Configs /\ ~config.created
    BY <1>0, <2>1, Zenon DEF TypeOK
  <2>. QED BY <2>2, ConfigsAssumption, Zenon
<1>3. pc'[t] = Idle /\ \A u \in Threads : u # t => pc'[u] = pc[u] /\ pc[u] = Idle
  <2>1. \A u \in Threads : pc[u] # Idle => u \in config.threads
    BY <1>0 DEF ThreadsOK, ThreadOK
  <2>2. pc'[t] = Idle /\ \A u \in Threads : u # t => pc'[u] = pc[u]
    BY <1>0, <1>1, SlowAfter, IdlePlace
  <2>. QED BY <1>0, <1>2, <2>1, <2>2
<1>4. TypeOK'
  <2>1. pc' \in [Threads -> Place]
    BY <1>0, <1>1, SlowAfter, IdlePlace
  <2>. QED BY <1>0, <1>1, <2>1 DEF TypeOK
<1>5. MessagesOK'
  <2>1. Copies' \subseteq Copies
    BY <1>0, <1>1, IdlePlace, QuietCopies
  <2>. QED BY <1>0, <1>1, <2>1, SameMessages
<1>6. ReceivesOK' /\ Queued' = Queued
  <2>1. marked' \subseteq Taken
    BY <1>0, <1>1 DEF ReceivesOK
  <2>. QED BY <1>0, <1>1, <2>1, SameReceives
<1>7. ThreadsOK'
  <2>1. \A u \in Threads : pc'[u] = Idle
    BY <1>3
  <2>2. \A u \in Threads : ThreadOK(u, pc[u])'
    <3>. SUFFICES ASSUME NEW u \in Threads PROVE ThreadOK(u, pc[u])'
      OBVIOUS
    <3>1. /\ pc'[u] = Idle /\ pc'[u].at # "slow" /\ pc'[u].at # "progress"
          /\ pc'[u].at # "check" /\ pc'[u].at # "search" /\ pc'[u].at # "cancel"
          /\ pc'[u].at # "adding" /\ pc'[u].at # "adding next"
      <4>1. pc'[u] = Idle
        BY <2>1, Zenon
      <4>. QED BY <4>1, IdlePlace
    <3>. QED BY <3>1, Zenon DEF ThreadOK
  <2>3. created'
    BY <1>1
  <2>. QED BY <2>2, <2>3, Zenon DEF ThreadsOK
<1>8. LookedAfter'
  <2>1. \A p \in Senders : NextOf(p)' = NextOf(p) /\ ~PlaceLooks(pc[t], p)
    BY <1>0, <1>1 DEF NextOf, hdr_seq, expected_sequence, PlaceLooks
  <2>. QED BY <1>0, <1>1, <2>1, IdlePlace, LooksMoved
<1>9. NoMissedMatch'
  BY <1>0, <1>1, <1>6, SameMisses
<1>. QED BY <1>4, <1>5, <1>6, <1>7, <1>8, <1>9 DEF IInv

-----------------------------------------------------------------------------
(* The receives.                                                           *)

\* A receive that finds nothing is put in its queue.
LEMMA QueuedInv ==
  ASSUME IInv, created = TRUE, NEW r \in Receive, r.seq = posts, posts' = posts + 1,
         IF r.src = AnySource THEN OfAny(r) = {} ELSE OfSender(r, r.src) = {},
         IF r.src = AnySource
           THEN wild' = wild \union {r} /\ UNCHANGED specific
           ELSE specific' = [specific EXCEPT ![r.src] = @ \union {r}] /\ UNCHANGED wild,
         UNCHANGED <<unexpected, took, marked, cancelled>>
  PROVE  /\ specific' \in [Senders -> SUBSET Receive] /\ wild' \subseteq Receive
         /\ ReceivesOK' /\ NoMissedMatch' /\ Taken' = Taken
         /\ Queued' = Queued \union {r}
<1>0. TypeOK /\ ReceivesOK /\ NoMissedMatch /\ posts \in Nat /\ Queued \subseteq Receive
  BY QueuedCases DEF IInv, TypeOK
<1>1. r.src \in Senders \union {AnySource} /\ AnySource \notin Senders
  BY SenderFacts DEF Receive
<1>2. /\ specific' \in [Senders -> SUBSET Receive] /\ wild' \subseteq Receive
      /\ \A p \in Senders : specific'[p] = IF p = r.src THEN specific[p] \union {r} ELSE specific[p]
      /\ wild' = IF r.src = AnySource THEN wild \union {r} ELSE wild
  <2>1. CASE r.src = AnySource
    BY <1>0, <1>1, <2>1 DEF TypeOK
  <2>2. CASE r.src # AnySource
    BY <1>0, <1>1, <2>2 DEF TypeOK
  <2>. QED BY <2>1, <2>2
<1>3. Queued' = Queued \union {r}
  <2>1. \A q \in Queued' : q \in Queued \union {r}
    BY <1>2 DEF Queued
  <2>2. \A q \in Queued \union {r} : q \in Queued'
    BY <1>1, <1>2 DEF Queued
  <2>. QED BY <2>1, <2>2
<1>4. Taken' = Taken
  BY DEF Taken
<1>5. ReceivesOK'
  <2>1. /\ \A s \in Senders : \A q \in specific'[s] : q.src = s
        /\ \A q \in wild' : q.src = AnySource
    BY <1>0, <1>2 DEF ReceivesOK
  <2>2. \A n \in Taken \union cancelled : n \in Nat /\ n < posts
    BY <1>0 DEF ReceivesOK
  <2>3. \A q \in Queued : q.seq \in Nat /\ q.seq < posts /\ q.seq \notin cancelled
    BY <1>0 DEF ReceivesOK, Receive
  <2>4. \A q \in Queued' : q.seq < posts' /\ q.seq \notin cancelled'
    BY <1>0, <1>3, <2>2, <2>3
  <2>5. \A p, q \in Queued' : p.seq = q.seq => p = q
    BY <1>0, <1>3, <2>3 DEF ReceivesOK
  <2>6. (Taken \union cancelled)' \subseteq (0 .. posts - 1)'
    BY <1>0, <1>4, <2>2
  <2>7. marked' \subseteq Taken'
    BY <1>0, <1>4 DEF ReceivesOK
  <2>. QED BY <2>1, <2>4, <2>5, <2>6, <2>7 DEF ReceivesOK
<1>6. NoMissedMatch'
  <2>1. ASSUME NEW s \in Senders, NEW e \in unexpected[s], Accepts(r, s, e.m) PROVE FALSE
    <3>1. r.src \in {s, AnySource}
      BY <2>1 DEF Accepts
    <3>2. OfSender(r, s) # {} /\ OfAny(r) # {}
      BY <1>0, <2>1, FoundWhatIsThere
    <3>. QED BY <1>1, <3>1, <3>2
  <2>2. \A q \in Queued, s \in Senders : \A e \in unexpected[s] : ~Accepts(q, s, e.m)
    BY <1>0 DEF NoMissedMatch
  <2>. QED BY <1>3, <2>1, <2>2 DEF NoMissedMatch, Accepts
<1>. QED BY <1>2, <1>3, <1>4, <1>5, <1>6

\* A receive that finds a message takes it off the queue of unexpected messages.
LEMMA FoundInv ==
  ASSUME IInv, created = TRUE, NEW seq, seq = posts, posts' = posts + 1,
         NEW s \in Senders, NEW e \in unexpected[s],
         unexpected' = [unexpected EXCEPT ![s] = @ \ {e}],
         took' = took \union {[seq |-> seq, s |-> s, k |-> e.m.k]},
         marked' = marked \union {seq},
         UNCHANGED <<specific, wild, cancelled>>
  PROVE  /\ took' \subseteq [seq : Nat, s : Senders, k : Nat]
         /\ unexpected' \in [Senders -> SUBSET [n : Nat, m : Message]]
         /\ \A p \in Senders : unexpected'[p] \subseteq unexpected[p]
         /\ ReceivesOK' /\ Taken' = Taken \union {seq} /\ Queued' = Queued
<1>0. TypeOK /\ ReceivesOK /\ posts \in Nat /\ Queued \subseteq Receive
  BY QueuedCases DEF IInv, TypeOK
<1>1. took' \subseteq [seq : Nat, s : Senders, k : Nat]
  <2>1. e.m.k \in Nat
    BY <1>0 DEF TypeOK, Message
  <2>. QED BY <1>0, <2>1 DEF TypeOK
<1>2. /\ unexpected' \in [Senders -> SUBSET [n : Nat, m : Message]]
      /\ \A p \in Senders : unexpected'[p] \subseteq unexpected[p]
  BY <1>0 DEF TypeOK
<1>3. Taken' = Taken \union {seq}
  <2>1. \A n \in Taken' : n \in Taken \union {seq}
    BY DEF Taken
  <2>2. Taken \subseteq Taken'
    BY DEF Taken
  <2>3. [seq |-> seq, s |-> s, k |-> e.m.k] \in took'
    OBVIOUS
  <2>4. seq \in Taken'
    <3>1. \A x \in took' : x.seq \in Taken'
      BY DEF Taken
    <3>. QED BY <2>3, <3>1
  <2>. QED BY <2>1, <2>2, <2>4
<1>4. Queued' = Queued
  BY DEF Queued
<1>5. ReceivesOK'
  <2>1. \A n \in Taken \union cancelled : n \in Nat /\ n < posts
    BY <1>0 DEF ReceivesOK
  <2>2. \A q \in Queued : q.seq \in Nat /\ q.seq < posts /\ q.seq \notin cancelled
    BY <1>0 DEF ReceivesOK, Receive
  <2>3. \A q \in Queued' : q.seq < posts' /\ q.seq \notin cancelled'
    BY <1>0, <1>4, <2>2
  <2>4. (Taken \union cancelled)' \subseteq (0 .. posts - 1)'
    BY <1>0, <1>3, <2>1
  <2>5. marked' \subseteq Taken'
    BY <1>0, <1>3 DEF ReceivesOK
  <2>6. /\ \A p \in Senders : \A q \in specific'[p] : q.src = p
        /\ \A q \in wild' : q.src = AnySource
        /\ \A p, q \in Queued' : p.seq = q.seq => p = q
    BY <1>0, <1>4 DEF ReceivesOK
  <2>. QED BY <2>3, <2>4, <2>5, <2>6 DEF ReceivesOK
<1>. QED BY <1>1, <1>2, <1>3, <1>4, <1>5

\* Threads that stay where they are.
LEMMA ThreadsStay ==
  ASSUME TypeOK, ThreadsOK, created = TRUE, UNCHANGED <<config, created, pc>>,
         Taken \subseteq Taken', posts' \in Nat, posts <= posts'
  PROVE  ThreadsOK'
<1>1. ASSUME NEW u \in Threads PROVE ThreadOK(u, pc[u])'
  <2>1. /\ ThreadOK(u, pc[u]) /\ pc'[u] = pc[u] /\ config' = config /\ (created' <=> created)
        /\ pc[u] \in Place /\ posts \in Nat
    BY DEF ThreadsOK, TypeOK
  <2>2. pc[u].at = "cancel" => pc[u].n < posts'
    <3>1. ASSUME pc[u].at = "cancel" PROVE pc[u].n \in Nat /\ pc[u].n < posts
      BY <2>1, <3>1, PlaceFields DEF ThreadOK
    <3>. QED BY <2>1, <3>1
  <2>3. pc[u].at = "progress" => pc[u].matched \subseteq Taken'
    BY <2>1, Zenon DEF ThreadOK
  <2>. QED BY <2>1, <2>2, <2>3, Zenon DEF ThreadOK
<1>2. created'
  OBVIOUS
<1>. QED BY <1>1, <1>2, Zenon DEF ThreadsOK

LEMMA PostInv ==
  ASSUME IInv, NEW t \in Threads, Post(t) PROVE IInv'
<1>0. /\ TypeOK /\ MessagesOK /\ ReceivesOK /\ ThreadsOK /\ LookedAfter /\ NoMissedMatch
      /\ posts \in Nat /\ posts' = posts + 1
      /\ UNCHANGED <<config, created, pending, net, sends, accepted, cant, cancelled, pc>>
  BY DEF IInv, TypeOK, Post
<1>1. created = TRUE
  <2>1. created
    BY Zenon DEF Post
  <2>. QED BY <1>0, <2>1 DEF TypeOK
<1>2. PICK src \in Senders \union {AnySource}, tag \in ReceiveTags,
           probe \in {FALSE, config.probes} :
       LET r == [seq |-> posts, src |-> src, tag |-> tag, probe |-> probe]
           found == IF src = AnySource THEN OfAny(r) ELSE OfSender(r, src)
       IN \/ /\ found = {}
             /\ IF src = AnySource
                  THEN /\ wild' = wild \union {r}
                       /\ UNCHANGED specific
                  ELSE /\ specific' = [specific EXCEPT ![src] = @ \union {r}]
                       /\ UNCHANGED wild
             /\ UNCHANGED <<unexpected, last_probed, took, marked>>
          \/ /\ found = {} /\ config.probes
             /\ UNCHANGED <<unexpected, specific, wild, last_probed, took, marked>>
          \/ \E e \in found :
             /\ last_probed' = IF src = AnySource THEN e.m.s ELSE last_probed
             /\ IF probe
                  THEN UNCHANGED <<unexpected, took, marked>>
                  ELSE /\ unexpected' = [unexpected EXCEPT ![e.m.s] = @ \ {e}]
                       /\ took' = took \union {[seq |-> r.seq, s |-> e.m.s, k |-> e.m.k]}
                       /\ marked' = marked \union {r.seq}
             /\ UNCHANGED <<specific, wild>>
  BY DEF Post
<1>3. PICK r : r = [seq |-> posts, src |-> src, tag |-> tag, probe |-> probe]
  OBVIOUS
<1>4. r \in Receive /\ r.seq = posts /\ r.src = src /\ r.probe = probe
  <2>1. config.probes \in BOOLEAN
    BY <1>0, ConfigsAssumption DEF TypeOK
  <2>. QED BY <1>0, <1>3, <2>1 DEF Receive
<1>. DEFINE found == IF src = AnySource THEN OfAny(r) ELSE OfSender(r, src)
<1>5. ASSUME ReceivesOK', Taken \subseteq Taken', NoMissedMatch', last_probed' \in Nat,
             specific' \in [Senders -> SUBSET Receive], wild' \subseteq Receive,
             took' \subseteq [seq : Nat, s : Senders, k : Nat],
             unexpected' \in [Senders -> SUBSET [n : Nat, m : Message]],
             \A p \in Senders : unexpected'[p] \subseteq unexpected[p]
      PROVE  IInv'
  <2>1. posts' \in Nat /\ posts <= posts'
    BY <1>0
  <2>2. marked' \subseteq Nat
    BY <1>5, <2>1 DEF ReceivesOK
  <2>3. TypeOK'
    BY <1>0, <1>5, <2>1, <2>2 DEF TypeOK
  <2>4. MessagesOK'
    <3>1. Copies' \subseteq Copies
      BY <1>0 DEF Copies, Slow
    <3>. QED BY <1>0, <1>5, <3>1, SameMessages
  <2>5. ThreadsOK'
    BY <1>0, <1>1, <1>5, <2>1, ThreadsStay
  <2>6. LookedAfter'
    BY <1>0, StillLookedAfter
  <2>. QED BY <1>5, <2>3, <2>4, <2>5, <2>6 DEF IInv
<1>6. CASE /\ found = {}
           /\ IF src = AnySource
                THEN /\ wild' = wild \union {r}
                     /\ UNCHANGED specific
                ELSE /\ specific' = [specific EXCEPT ![src] = @ \union {r}]
                     /\ UNCHANGED wild
           /\ UNCHANGED <<unexpected, last_probed, took, marked>>
  <2>1. /\ specific' \in [Senders -> SUBSET Receive] /\ wild' \subseteq Receive
        /\ ReceivesOK' /\ NoMissedMatch' /\ Taken' = Taken
    BY <1>0, <1>1, <1>4, <1>6, QueuedInv
  <2>. QED BY <1>0, <1>5, <1>6, <2>1 DEF TypeOK
<1>7. CASE UNCHANGED <<unexpected, specific, wild, took, marked>> /\ last_probed' \in Nat
  <2>1. Taken' = Taken /\ Queued' = Queued
    BY <1>7 DEF Taken, Queued
  <2>2. ReceivesOK'
    <3>1. \A n \in Taken \union cancelled : n \in Nat /\ n < posts
      BY <1>0 DEF ReceivesOK
    <3>2. \A q \in Queued : q.seq \in Nat /\ q.seq < posts
      BY <1>0, QueuedCases DEF ReceivesOK, Receive
    <3>3. (Taken \union cancelled)' \subseteq (0 .. posts - 1)'
      BY <1>0, <2>1, <3>1
    <3>4. \A q \in Queued' : q.seq < posts' /\ q.seq \notin cancelled'
      BY <1>0, <2>1, <3>2 DEF ReceivesOK
    <3>. QED BY <1>0, <1>7, <2>1, <3>3, <3>4 DEF ReceivesOK
  <2>3. NoMissedMatch'
    BY <1>0, <1>7, <2>1, SameMisses
  <2>. QED BY <1>0, <1>5, <1>7, <2>1, <2>2, <2>3 DEF TypeOK
<1>8. ASSUME NEW e \in found
      PROVE  e.m.s \in Senders /\ e.m.s \in Nat /\ e \in unexpected[e.m.s]
  <2>1. PICK s \in Senders : e \in unexpected[s]
    BY <1>0, <1>8, FoundTypes
  <2>2. e.m.s = s
    BY <1>0, <2>1 DEF MessagesOK
  <2>. QED BY <2>1, <2>2, SenderFacts
<1>9. ASSUME NEW e \in found, last_probed' \in Nat,
             unexpected' = [unexpected EXCEPT ![e.m.s] = @ \ {e}],
             took' = took \union {[seq |-> r.seq, s |-> e.m.s, k |-> e.m.k]},
             marked' = marked \union {r.seq}, UNCHANGED <<specific, wild>>
      PROVE  IInv'
  <2>1. e.m.s \in Senders /\ e \in unexpected[e.m.s]
    BY <1>8
  <2>2. /\ took' \subseteq [seq : Nat, s : Senders, k : Nat]
        /\ unexpected' \in [Senders -> SUBSET [n : Nat, m : Message]]
        /\ \A p \in Senders : unexpected'[p] \subseteq unexpected[p]
        /\ ReceivesOK' /\ Taken' = Taken \union {r.seq} /\ Queued' = Queued
    BY <1>0, <1>1, <1>4, <1>9, <2>1, FoundInv
  <2>3. NoMissedMatch'
    BY <1>0, <2>2, SameMisses
  <2>. QED BY <1>0, <1>5, <1>9, <2>2, <2>3 DEF TypeOK
<1>10. ASSUME NEW e \in found,
             last_probed' = IF src = AnySource THEN e.m.s ELSE last_probed
       PROVE last_probed' \in Nat
  BY <1>0, <1>8, <1>10 DEF TypeOK
<1>. QED
  <2>1. \/ /\ found = {}
           /\ IF src = AnySource
                THEN /\ wild' = wild \union {r}
                     /\ UNCHANGED specific
                ELSE /\ specific' = [specific EXCEPT ![src] = @ \union {r}]
                     /\ UNCHANGED wild
           /\ UNCHANGED <<unexpected, last_probed, took, marked>>
        \/ UNCHANGED <<unexpected, specific, wild, last_probed, took, marked>>
        \/ \E e \in found :
             /\ last_probed' = IF src = AnySource THEN e.m.s ELSE last_probed
             /\ \/ UNCHANGED <<unexpected, took, marked>>
                \/ /\ unexpected' = [unexpected EXCEPT ![e.m.s] = @ \ {e}]
                   /\ took' = took \union {[seq |-> r.seq, s |-> e.m.s, k |-> e.m.k]}
                   /\ marked' = marked \union {r.seq}
             /\ UNCHANGED <<specific, wild>>
    BY <1>2, <1>3, Zenon
  <2>2. last_probed \in Nat
    BY <1>0 DEF TypeOK
  <2>. HIDE DEF found
  <2>3. ASSUME NEW e \in found,
               last_probed' = IF src = AnySource THEN e.m.s ELSE last_probed,
               \/ UNCHANGED <<unexpected, took, marked>>
               \/ /\ unexpected' = [unexpected EXCEPT ![e.m.s] = @ \ {e}]
                  /\ took' = took \union {[seq |-> r.seq, s |-> e.m.s, k |-> e.m.k]}
                  /\ marked' = marked \union {r.seq},
               UNCHANGED <<specific, wild>>
        PROVE  IInv'
    BY <1>7, <1>9, <1>10, <2>3
  <2>4. CASE UNCHANGED <<unexpected, specific, wild, last_probed, took, marked>>
    BY <1>7, <2>2, <2>4
  <2>. QED BY <1>6, <2>1, <2>3, <2>4

\* A receive is about to be cancelled.
LEMMA CancelCheckInv ==
  ASSUME IInv, NEW t \in Threads, NEW n \in {r.seq : r \in Posted} \union Taken,
         CancelCheck(t, n)
  PROVE  IInv'
<1>0. /\ TypeOK /\ MessagesOK /\ ReceivesOK /\ ThreadsOK
      /\ pc[t] = Idle /\ t \in config.threads /\ Goto(t, [at |-> "cancel", n |-> n])
      /\ UNCHANGED <<config, created, pending, net, sends, accepted, cant, unexpected>>
      /\ UNCHANGED <<specific, wild, posts, last_probed, took, marked, cancelled>>
  BY DEF IInv, CancelCheck, Free, messages, receives
<1>1. n \in Nat /\ n < posts /\ posts \in Nat
  <2>1. ASSUME NEW r \in Posted PROVE r.seq \in Nat /\ r.seq < posts
    BY <1>0, QueuedCases DEF Posted, ReceivesOK, Receive
  <2>2. \A k \in Taken : k \in Nat /\ k < posts
    BY <1>0 DEF ReceivesOK, TypeOK
  <2>. QED BY <1>0, <2>1, <2>2 DEF TypeOK
<1>2. created = TRUE
  <2>1. created \/ posts = 0
    BY <1>0, Zenon DEF ThreadsOK
  <2>2. posts # 0
    BY <1>1
  <2>. QED BY <1>0, <2>1, <2>2 DEF TypeOK
<1>. DEFINE place == [at |-> "cancel", n |-> n]
<1>3. place \in Place /\ place.at = "cancel" /\ place.n = n /\ Goto(t, place)
  BY <1>0, <1>1, PlaceTypes
<1>. HIDE DEF place
<1>4. ThreadOK(t, place)
  BY <1>0, <1>1, <1>2, <1>3 DEF ThreadOK
<1>5. /\ pending' \subseteq Message /\ net' \in [Senders -> SUBSET Message]
      /\ cant' \in [Senders -> SUBSET Message]
  BY <1>0 DEF TypeOK
<1>6. MessagesOK'
  <2>1. Copies' \subseteq Copies
    BY <1>0, <1>3, QuietCopies
  <2>. QED BY <1>0, <2>1, SameMessages
<1>7. marked' \subseteq Taken
  BY <1>0 DEF ReceivesOK
<1>8. \A p \in Senders : NextOf(p)' = NextOf(p) /\ ~PlaceLooks(pc[t], p)
  BY <1>0, IdlePlace DEF NextOf, hdr_seq, expected_sequence
<1>. QED BY <1>0, <1>3, <1>4, <1>5, <1>6, <1>7, <1>8, QuietInv

LEMMA CancelInv ==
  ASSUME IInv, NEW t \in Threads, Cancel(t) PROVE IInv'
<1>0. /\ TypeOK /\ MessagesOK /\ ReceivesOK /\ ThreadsOK /\ LookedAfter /\ NoMissedMatch
      /\ ThreadOK(t, pc[t]) /\ pc[t] \in Place
      /\ pc[t].at = "cancel" /\ created = TRUE
  BY ThreadFacts DEF Cancel
<1>1. PICK n \in Nat : n = pc[t].n /\ n < posts
  BY <1>0, PlaceFields DEF ThreadOK
<1>. DEFINE mine == {r \in Queued : r.seq = n}
<1>2. /\ specific' = [s \in Senders |-> specific[s] \ mine] /\ wild' = wild \ mine
      /\ cancelled' = cancelled \union {n} /\ Goto(t, Idle)
      /\ UNCHANGED <<config, created, pending, net, sends, accepted, cant, unexpected>>
      /\ UNCHANGED <<posts, last_probed, took, marked>>
  BY <1>1 DEF Cancel, messages
<1>3. Queued' = {r \in Queued : r.seq # n} /\ Taken' = Taken
  <2>1. \A r \in Queued' : r \in Queued /\ r.seq # n
    BY <1>2 DEF Queued
  <2>2. \A r \in Queued : r.seq # n => r \in Queued'
    BY <1>2 DEF Queued
  <2>. QED BY <1>2, <2>1, <2>2 DEF Taken
<1>4. TypeOK'
  <2>1. pc' \in [Threads -> Place]
    BY <1>0, <1>2, SlowAfter, IdlePlace
  <2>2. specific' \in [Senders -> SUBSET Receive] /\ wild' \subseteq Receive
    BY <1>0, <1>2 DEF TypeOK
  <2>. QED BY <1>0, <1>1, <1>2, <2>1, <2>2 DEF TypeOK
<1>5. MessagesOK'
  <2>1. Copies' \subseteq Copies
    BY <1>0, <1>2, IdlePlace, QuietCopies
  <2>. QED BY <1>0, <1>2, <2>1, SameMessages
<1>6. ReceivesOK'
  <2>1. /\ \A s \in Senders : \A r \in specific'[s] : r.src = s
        /\ \A r \in wild' : r.src = AnySource
    BY <1>0, <1>2 DEF ReceivesOK
  <2>2. /\ \A r \in Queued' : r.seq < posts' /\ r.seq \notin cancelled'
        /\ \A q, r \in Queued' : q.seq = r.seq => q = r
    BY <1>0, <1>2, <1>3 DEF ReceivesOK
  <2>3. (Taken \union cancelled)' \subseteq (0 .. posts - 1)'
    <3>1. n \in 0 .. posts - 1
      BY <1>0, <1>1 DEF TypeOK
    <3>. QED BY <1>0, <1>2, <1>3, <3>1 DEF ReceivesOK
  <2>4. marked' \subseteq Taken'
    BY <1>0, <1>2, <1>3 DEF ReceivesOK
  <2>. QED BY <2>1, <2>2, <2>3, <2>4 DEF ReceivesOK
<1>7. ThreadsOK'
  <2>1. ThreadOK(t, Idle)'
    BY IdlePlace DEF ThreadOK, Idle
  <2>2. posts' \in Nat /\ posts <= posts' /\ Taken \subseteq Taken'
    BY <1>0, <1>2, <1>3 DEF TypeOK
  <2>. QED BY <1>0, <1>2, <2>1, <2>2, IdlePlace, ThreadsMoved
<1>8. LookedAfter'
  <2>1. \A p \in Senders : NextOf(p)' = NextOf(p) /\ ~PlaceLooks(pc[t], p)
    BY <1>0, <1>2 DEF NextOf, hdr_seq, expected_sequence, PlaceLooks
  <2>. QED BY <1>0, <1>2, <2>1, IdlePlace, LooksMoved
<1>9. NoMissedMatch'
  BY <1>0, <1>2, <1>3, SameMisses
<1>. QED BY <1>4, <1>5, <1>6, <1>7, <1>8, <1>9 DEF IInv

-----------------------------------------------------------------------------
LEMMA InitInv == ASSUME Init PROVE IInv
<1>1. /\ config \in Configs /\ created = config.created
      /\ pending = {} /\ net = [s \in Senders |-> {}]
      /\ sends = [s \in Senders |-> 0] /\ accepted = [s \in Senders |-> 0]
      /\ cant = [s \in Senders |-> {}] /\ unexpected = [s \in Senders |-> {}]
      /\ specific = [s \in Senders |-> {}] /\ wild = {}
      /\ posts = 0 /\ last_probed = 0 /\ took = {} /\ marked = {} /\ cancelled = {}
      /\ pc = [t \in Threads |-> Idle]
  BY DEF Init
<1>2. config.created \in BOOLEAN /\ config.window \in Nat
  <2>1. config.window \in 1 .. SeqNumbers
    BY <1>1, ConfigsAssumption
  <2>. QED BY <1>1, <2>1, ConfigsAssumption, SeqNumbersAssumption
<1>3. TypeOK
  BY <1>1, <1>2, IdlePlace DEF TypeOK
<1>4. Slow = {} /\ Queued = {} /\ Taken = {}
  BY <1>1, IdlePlace DEF Slow, Queued, Taken
<1>5. Copies = {}
  BY <1>1, <1>4 DEF Copies
<1>6. MessagesOK
  BY <1>1, <1>2, <1>5 DEF MessagesOK
<1>7. ReceivesOK /\ NoMissedMatch
  BY <1>1, <1>4 DEF ReceivesOK, NoMissedMatch
<1>8. ThreadsOK
  <2>1. \A t \in Threads : ThreadOK(t, pc[t])
    BY <1>1, IdlePlace
  <2>. QED BY <1>1, <1>4, <2>1, Zenon DEF ThreadsOK
<1>9. LookedAfter
  BY <1>1 DEF LookedAfter, NextOf
<1>. QED BY <1>3, <1>6, <1>7, <1>8, <1>9 DEF IInv

LEMMA NextInv == IInv /\ [Next]_vars => IInv'
<1>. SUFFICES ASSUME IInv, [Next]_vars PROVE IInv'
  OBVIOUS
<1>1. CASE UNCHANGED vars
  <2>1. /\ UNCHANGED <<config, created, pending, net, sends, accepted, cant, unexpected, pc>>
        /\ UNCHANGED <<specific, wild, posts, last_probed, took, marked, cancelled>>
    BY <1>1 DEF vars, messages, receives
  <2>2. TypeOK /\ MessagesOK /\ ReceivesOK /\ ThreadsOK /\ LookedAfter /\ NoMissedMatch
    BY DEF IInv
  <2>3. Copies' = Copies /\ Queued' = Queued /\ Taken' = Taken
    BY <2>1 DEF Copies, Slow, Queued, Taken
  <2>4. TypeOK'
    BY <2>1, <2>2 DEF TypeOK
  <2>5. MessagesOK' /\ ReceivesOK' /\ NoMissedMatch'
    BY <2>1, <2>2, <2>3 DEF MessagesOK, ReceivesOK, NoMissedMatch, Accepts
  <2>6. ThreadsOK'
    BY <2>1, <2>2, <2>3 DEF ThreadsOK, ThreadOK
  <2>7. LookedAfter'
    BY <2>1, <2>2 DEF LookedAfter, WillLook, NextOf, hdr_seq, expected_sequence
  <2>. QED BY <2>4, <2>5, <2>6, <2>7 DEF IInv
<1>2. ASSUME NEW s \in Senders, Send(s) PROVE IInv'
  BY <1>2, SendInv
<1>3. ASSUME NEW t \in Threads, Step(t) PROVE IInv'
  BY <1>3, RecvFragInv, MarkInv, CheckInv, SearchInv, AddCommInv, AddFragmentInv, AddNextInv,
     AddedInv, CancelInv DEF Step
<1>4. ASSUME NEW t \in Threads, Callback(t) PROVE IInv'
  BY <1>4, ArrivalInv, TooEarlyInv DEF Callback
<1>5. ASSUME NEW t \in Threads, Post(t) PROVE IInv'
  BY <1>5, PostInv
<1>6. ASSUME NEW t \in Threads, NEW n \in {r.seq : r \in Posted} \union Taken, CancelCheck(t, n)
      PROVE  IInv'
  BY <1>6, CancelCheckInv
<1>. QED BY <1>1, <1>2, <1>3, <1>4, <1>5, <1>6 DEF Next

\* The layer's state between two steps: every message is in one place, the messages of
\* a sender are let in in the order they were sent in, and the queues of receives and of
\* messages have nothing for each other.
THEOREM Invariance == Spec => []IInv
BY InitInv, NextInv, PTL DEF Spec

\* No message whose turn has come is left waiting when no thread is in the layer.
THEOREM TurnsAreSeen == Spec => []NothingOverlooked
<1>1. IInv => NothingOverlooked
  <2>. SUFFICES ASSUME IInv, \A t \in Threads : pc[t].at \in {"idle", "cancel"},
                       NEW s \in Senders, NextOf(s) # {}
                PROVE  FALSE
    BY DEF NothingOverlooked
  <2>1. PICK t \in Threads : WillLook(t, s)
    BY DEF IInv, LookedAfter
  <2>. QED BY <2>1 DEF WillLook
<1>. QED BY <1>1, Invariance, PTL

\* A receive that waits and a message it could take never sit in their queues together.
THEOREM MatchesAreMade == Spec => []NoMissedMatch
<1>1. IInv => NoMissedMatch
  BY DEF IInv
<1>. QED BY <1>1, Invariance, PTL

-----------------------------------------------------------------------------
(* Cancelling.                                                             *)

\* Receives are cancelled only where one thread is in the layer.
CancelsAlone(c) == c.cancels = 0 \/ \A t, u \in c.threads : t = u

\* Who has taken a message and not yet noted it in the request is a thread that is about
\* to; nobody is, while a receive is being cancelled.
TakenNoted == \A n \in Taken \ marked :
                \E t \in Threads : pc[t].at = "progress" /\ n \in pc[t].matched

CancelOK(t, place) == place.at = "cancel" => /\ place.n \notin Taken
                                             /\ \A u, v \in config.threads : u = v

CancelInvariant == CancelledUntaken /\ TakenNoted /\ \A t \in Threads : CancelOK(t, pc[t])

\* Thread t takes nothing, cancels nothing, and is not about to note what it took.
LEMMA CancelQuiet ==
  ASSUME TypeOK, CancelInvariant, NEW t \in Threads, NEW place \in Place, Goto(t, place),
         place.at # "cancel", pc[t].at # "progress" \/ pc[t] = place,
         UNCHANGED <<config, took, marked, cancelled>>
  PROVE  CancelInvariant'
<1>1. pc'[t] = place /\ \A u \in Threads : u # t => pc'[u] = pc[u]
  BY SlowAfter
<1>2. Taken' = Taken
  BY DEF Taken
<1>3. CancelledUntaken'
  BY <1>2 DEF CancelInvariant, CancelledUntaken
<1>4. TakenNoted'
  <2>. SUFFICES ASSUME NEW n \in Taken \ marked
                PROVE  \E u \in Threads : pc'[u].at = "progress" /\ n \in pc'[u].matched
    BY <1>2 DEF TakenNoted
  <2>1. PICK u \in Threads : pc[u].at = "progress" /\ n \in pc[u].matched
    BY DEF CancelInvariant, TakenNoted
  <2>2. pc'[u] = pc[u]
    BY <1>1, <2>1
  <2>. QED BY <2>1, <2>2
<1>5. \A u \in Threads : CancelOK(u, pc[u])'
  BY <1>1, <1>2 DEF CancelInvariant, CancelOK
<1>. QED BY <1>3, <1>4, <1>5 DEF CancelInvariant

\* Only a thread of the layer is not idle, so nobody cancels while t does something else.
LEMMA NobodyCancels ==
  ASSUME IInv, CancelInvariant, NEW t \in Threads, t \in config.threads, pc[t].at # "cancel"
  PROVE  \A u \in Threads : pc[u].at # "cancel"
<1>. SUFFICES ASSUME NEW u \in Threads, pc[u].at = "cancel" PROVE FALSE
  OBVIOUS
<1>1. u \in config.threads
  BY ThreadFacts
<1>2. u = t
  BY <1>1 DEF CancelInvariant, CancelOK
<1>. QED BY <1>2

LEMMA CancelMatch ==
  ASSUME IInv, CancelInvariant, NEW t \in Threads, t \in config.threads,
         pc[t].at \in {"idle", "slow", "search"},
         NEW s \in Senders, NEW m \in Message, NEW next \in {"idle", "check"},
         match_one(s, m), Progress(t, s, Matched, next), UNCHANGED <<config, marked>>
  PROVE  CancelInvariant'
<1>0. TypeOK /\ ReceivesOK
  BY DEF IInv
<1>1. PICK place \in Place : /\ Goto(t, place)
                             /\ place.at = "progress"
                             /\ place.matched = {x.seq : x \in Matched}
  <2>. DEFINE new == [at |-> "progress", s |-> s, matched |-> {x.seq : x \in Matched},
                      next |-> next]
  <2>1. new \in Place /\ new.at = "progress" /\ new.matched = {x.seq : x \in Matched}
    BY <1>0, MatchOneTypes, PlaceTypes
  <2>2. Goto(t, new)
    BY DEF Progress
  <2>. QED BY <2>1, <2>2
<1>2. pc'[t] = place /\ \A u \in Threads : u # t => pc'[u] = pc[u]
  BY <1>0, <1>1, SlowAfter
<1>3. Taken' = Taken \union {r.seq : r \in Taker(s, m)} /\ cancelled' = cancelled
  BY <1>0, MatchReceives DEF match_one
<1>4. CancelledUntaken'
  <2>1. \A r \in Taker(s, m) : r \in Queued
    BY <1>0, EarliestFacts, QueuedCases
  <2>2. \A r \in Taker(s, m) : r.seq \notin cancelled
    BY <1>0, <2>1 DEF ReceivesOK
  <2>. QED BY <1>3, <2>2 DEF CancelInvariant, CancelledUntaken
<1>5. TakenNoted'
  <2>. SUFFICES ASSUME NEW n \in Taken', n \notin marked
                PROVE  \E u \in Threads : pc'[u].at = "progress" /\ n \in pc'[u].matched
    BY DEF TakenNoted
  <2>1. CASE n \in Taken
    <3>1. PICK u \in Threads : pc[u].at = "progress" /\ n \in pc[u].matched
      BY <2>1 DEF CancelInvariant, TakenNoted
    <3>2. pc'[u] = pc[u]
      BY <1>2, <3>1
    <3>. QED BY <3>1, <3>2
  <2>2. CASE n \notin Taken
    <3>1. PICK x \in took' : n = x.seq
      BY DEF Taken
    <3>2. x \notin took
      BY <2>2, <3>1 DEF Taken
    <3>3. n \in {y.seq : y \in Matched}
      BY <3>1, <3>2 DEF Matched
    <3>. QED BY <1>1, <1>2, <3>3
  <2>. QED BY <2>1, <2>2
<1>6. \A u \in Threads : CancelOK(u, pc[u])'
  <2>1. \A u \in Threads : pc'[u].at # "cancel"
    BY <1>1, <1>2, NobodyCancels
  <2>. QED BY <2>1 DEF CancelOK
<1>. QED BY <1>4, <1>5, <1>6 DEF CancelInvariant

\* The message a receive takes when it is posted.
Found(r) == IF r.src = AnySource THEN OfAny(r) ELSE OfSender(r, r.src)

\* What becomes of a receive that is posted.
LEMMA PostCases ==
  ASSUME IInv, NEW t \in Threads, Post(t)
  PROVE  \E r \in Receive :
           /\ r.seq = posts
           /\ \/ /\ Found(r) = {}
                 /\ \/ /\ wild' = wild \union {r} /\ r.src = AnySource
                       /\ UNCHANGED specific
                    \/ /\ specific' = [specific EXCEPT ![r.src] = @ \union {r}]
                       /\ r.src # AnySource
                       /\ UNCHANGED wild
                 /\ UNCHANGED <<unexpected, took, marked>>
              \/ UNCHANGED <<specific, wild, unexpected, took, marked>>
              \/ \E e \in Found(r) :
                   /\ unexpected' = [unexpected EXCEPT ![e.m.s] = @ \ {e}]
                   /\ took' = took \union {[seq |-> r.seq, s |-> e.m.s, k |-> e.m.k]}
                   /\ marked' = marked \union {r.seq}
                   /\ r.probe = FALSE
                   /\ UNCHANGED <<specific, wild>>
<1>0. config \in Configs /\ posts \in Nat
  BY DEF IInv, TypeOK
<1>1. PICK src \in Senders \union {AnySource}, tag \in ReceiveTags,
           probe \in {FALSE, config.probes} :
       LET r == [seq |-> posts, src |-> src, tag |-> tag, probe |-> probe]
           found == IF src = AnySource THEN OfAny(r) ELSE OfSender(r, src)
       IN \/ /\ found = {}
             /\ IF src = AnySource
                  THEN /\ wild' = wild \union {r}
                       /\ UNCHANGED specific
                  ELSE /\ specific' = [specific EXCEPT ![src] = @ \union {r}]
                       /\ UNCHANGED wild
             /\ UNCHANGED <<unexpected, last_probed, took, marked>>
          \/ /\ found = {} /\ config.probes
             /\ UNCHANGED <<unexpected, specific, wild, last_probed, took, marked>>
          \/ \E e \in found :
             /\ last_probed' = IF src = AnySource THEN e.m.s ELSE last_probed
             /\ IF probe
                  THEN UNCHANGED <<unexpected, took, marked>>
                  ELSE /\ unexpected' = [unexpected EXCEPT ![e.m.s] = @ \ {e}]
                       /\ took' = took \union {[seq |-> r.seq, s |-> e.m.s, k |-> e.m.k]}
                       /\ marked' = marked \union {r.seq}
             /\ UNCHANGED <<specific, wild>>
  BY DEF Post
<1>2. PICK r : r = [seq |-> posts, src |-> src, tag |-> tag, probe |-> probe]
  OBVIOUS
<1>3. r \in Receive /\ r.seq = posts /\ r.src = src /\ r.probe = probe
  <2>1. config.probes \in BOOLEAN
    BY <1>0, ConfigsAssumption
  <2>. QED BY <1>0, <1>2, <2>1 DEF Receive
<1>. DEFINE found == IF src = AnySource THEN OfAny(r) ELSE OfSender(r, src)
<1>4. found = Found(r)
  BY <1>3, Zenon DEF Found
<1>5. \/ /\ found = {}
         /\ IF src = AnySource
              THEN /\ wild' = wild \union {r}
                   /\ UNCHANGED specific
              ELSE /\ specific' = [specific EXCEPT ![src] = @ \union {r}]
                   /\ UNCHANGED wild
         /\ UNCHANGED <<unexpected, last_probed, took, marked>>
      \/ UNCHANGED <<unexpected, specific, wild, took, marked>>
      \/ \E e \in found :
           /\ \/ UNCHANGED <<unexpected, took, marked>>
              \/ /\ ~probe
                 /\ unexpected' = [unexpected EXCEPT ![e.m.s] = @ \ {e}]
                 /\ took' = took \union {[seq |-> r.seq, s |-> e.m.s, k |-> e.m.k]}
                 /\ marked' = marked \union {r.seq}
           /\ UNCHANGED <<specific, wild>>
  BY <1>1, <1>2, Zenon
<1>. HIDE DEF found
<1>6. ~probe => probe = FALSE
  BY <1>3 DEF Receive
<1>. QED BY <1>3, <1>4, <1>5, <1>6

LEMMA CancelPost ==
  ASSUME IInv, CancelInvariant, NEW t \in Threads, Post(t) PROVE CancelInvariant'
<1>0. /\ TypeOK /\ ReceivesOK /\ pc[t] = Idle /\ t \in config.threads /\ posts \in Nat
      /\ UNCHANGED <<config, pc, cancelled>>
  BY DEF IInv, TypeOK, Post, Free
<1>1. \A u \in Threads : pc[u].at # "cancel"
  BY <1>0, IdlePlace, NobodyCancels
<1>2. \/ UNCHANGED <<took, marked>>
      \/ \E x : x.seq = posts /\ took' = took \union {x} /\ marked' = marked \union {posts}
  <2>1. PICK r \in Receive :
          /\ r.seq = posts
          /\ \/ UNCHANGED <<took, marked>>
             \/ \E e \in Found(r) :
                  /\ took' = took \union {[seq |-> r.seq, s |-> e.m.s, k |-> e.m.k]}
                  /\ marked' = marked \union {r.seq}
    BY PostCases
  <2>2. ASSUME NEW e \in Found(r),
               took' = took \union {[seq |-> r.seq, s |-> e.m.s, k |-> e.m.k]},
               marked' = marked \union {r.seq}
        PROVE  \E x : x.seq = posts /\ took' = took \union {x} /\ marked' = marked \union {posts}
    <3>1. PICK x : x = [seq |-> r.seq, s |-> e.m.s, k |-> e.m.k]
      OBVIOUS
    <3>. QED BY <2>1, <2>2, <3>1
  <2>. QED BY <2>1, <2>2
<1>3. Taken' = Taken \/ (Taken' = Taken \union {posts} /\ posts \in marked')
  <2>1. CASE UNCHANGED <<took, marked>>
    BY <2>1 DEF Taken
  <2>2. ASSUME NEW x, x.seq = posts, took' = took \union {x}, marked' = marked \union {posts}
        PROVE  Taken' = Taken \union {posts}
    <3>1. \A n \in Taken' : n \in Taken \union {posts}
      BY <2>2 DEF Taken
    <3>2. Taken \subseteq Taken' /\ \A y \in took' : y.seq \in Taken'
      BY <2>2 DEF Taken
    <3>3. posts \in Taken'
      BY <2>2, <3>2
    <3>. QED BY <3>1, <3>2, <3>3
  <2>. QED BY <1>2, <2>1, <2>2
<1>4. posts \notin cancelled
  BY <1>0 DEF ReceivesOK
<1>5. CancelledUntaken'
  BY <1>0, <1>3, <1>4 DEF CancelInvariant, CancelledUntaken
<1>6. marked \subseteq marked' /\ Taken' \ marked' \subseteq Taken \ marked
  BY <1>2, <1>3
<1>7. TakenNoted'
  BY <1>0, <1>6 DEF CancelInvariant, TakenNoted
<1>8. \A u \in Threads : CancelOK(u, pc[u])'
  BY <1>0, <1>1 DEF CancelOK
<1>. QED BY <1>5, <1>7, <1>8 DEF CancelInvariant

LEMMA CancelMark ==
  ASSUME IInv, CancelInvariant, NEW t \in Threads, Mark(t) PROVE CancelInvariant'
<1>0. /\ TypeOK /\ ReceivesOK /\ pc[t].at = "progress" /\ t \in config.threads
      /\ marked' = marked \union pc[t].matched /\ UNCHANGED <<config, took, cancelled>>
      /\ \A u \in Threads : pc[u].at # "cancel"
  BY ThreadFacts, NobodyCancels DEF Mark
<1>1. Taken' = Taken
  BY <1>0 DEF Taken
<1>2. \A u \in Threads : u # t => pc'[u] = pc[u]
  BY <1>0 DEF Mark, Goto, TypeOK
<1>3. pc'[t].at # "cancel"
  <2>1. pc'[t] = IF pc[t].next = "idle" THEN Idle ELSE [at |-> pc[t].next, s |-> pc[t].s]
    BY <1>0 DEF Mark, Goto, TypeOK
  <2>2. pc[t].next \in {"idle", "check"}
    BY <1>0, PlaceFields DEF TypeOK
  <2>. QED BY <2>1, <2>2, IdlePlace
<1>4. CancelledUntaken'
  BY <1>0, <1>1 DEF CancelInvariant, CancelledUntaken
<1>5. TakenNoted'
  <2>. SUFFICES ASSUME NEW n \in Taken, n \notin marked, n \notin pc[t].matched
                PROVE  \E u \in Threads : pc'[u].at = "progress" /\ n \in pc'[u].matched
    BY <1>0, <1>1 DEF TakenNoted
  <2>1. PICK u \in Threads : pc[u].at = "progress" /\ n \in pc[u].matched
    BY DEF CancelInvariant, TakenNoted
  <2>. QED BY <1>2, <2>1
<1>6. \A u \in Threads : CancelOK(u, pc[u])'
  <2>1. \A u \in Threads : pc'[u].at # "cancel"
    BY <1>0, <1>2, <1>3
  <2>. QED BY <2>1 DEF CancelOK
<1>. QED BY <1>4, <1>5, <1>6 DEF CancelInvariant

\* What is not noted as matched by the only thread has not been taken.
LEMMA CancelCheckUntaken ==
  ASSUME IInv, CancelInvariant, CancelsAlone(config), NEW t \in Threads, NEW n,
         CancelCheck(t, n)
  PROVE  n \notin Taken /\ \A u, v \in config.threads : u = v
<1>0. /\ TypeOK /\ ReceivesOK /\ pc[t] = Idle /\ t \in config.threads /\ n \notin marked
      /\ Cardinality(cancelled) < config.cancels
  BY DEF IInv, CancelCheck, Free
<1>1. Cardinality(cancelled) \in Nat
  <2>1. cancelled \subseteq 0 .. posts - 1 /\ posts \in Nat
    BY <1>0 DEF ReceivesOK, TypeOK
  <2>2. IsFiniteSet(0 .. posts - 1)
    BY <2>1, FS_Interval
  <2>3. IsFiniteSet(cancelled)
    BY <2>1, <2>2, FS_Subset
  <2>. QED BY <2>3, FS_CardinalityType
<1>2. \A u, v \in config.threads : u = v
  BY <1>0, <1>1 DEF CancelsAlone
<1>3. n \notin Taken
  <2>. SUFFICES ASSUME n \in Taken PROVE FALSE
    OBVIOUS
  <2>1. PICK u \in Threads : pc[u].at = "progress"
    BY <1>0 DEF CancelInvariant, TakenNoted
  <2>2. u \in config.threads
    BY <2>1, ThreadFacts
  <2>. QED BY <1>0, <1>2, <2>1, <2>2, IdlePlace
<1>. QED BY <1>2, <1>3

LEMMA CancelCancels ==
  ASSUME IInv, CancelInvariant, NEW t \in Threads,
         \/ Cancel(t)
         \/ /\ CancelsAlone(config)
            /\ \E n \in {r.seq : r \in Posted} \union Taken : CancelCheck(t, n)
  PROVE  CancelInvariant'
<1>0. TypeOK /\ ReceivesOK
  BY DEF IInv
<1>1. CASE Cancel(t)
  <2>1. PICK n : n = pc[t].n
    OBVIOUS
  <2>2. /\ pc[t].at = "cancel" /\ n \notin Taken /\ \A u, v \in config.threads : u = v
        /\ cancelled' = cancelled \union {n} /\ Goto(t, Idle)
        /\ UNCHANGED <<config, took, marked>>
    BY <1>1, <2>1 DEF Cancel, CancelInvariant, CancelOK
  <2>3. pc'[t] = Idle /\ \A u \in Threads : u # t => pc'[u] = pc[u]
    BY <1>0, <2>2, IdlePlace, SlowAfter
  <2>4. Taken' = Taken
    BY <2>2 DEF Taken
  <2>5. CancelledUntaken'
    BY <2>2, <2>4 DEF CancelInvariant, CancelledUntaken
  <2>6. TakenNoted'
    <3>. SUFFICES ASSUME NEW k \in Taken, k \notin marked
                  PROVE  \E u \in Threads : pc'[u].at = "progress" /\ k \in pc'[u].matched
      BY <2>2, <2>4 DEF TakenNoted
    <3>1. PICK u \in Threads : pc[u].at = "progress" /\ k \in pc[u].matched
      BY DEF CancelInvariant, TakenNoted
    <3>. QED BY <2>2, <2>3, <3>1
  <2>7. \A u \in Threads : CancelOK(u, pc[u])'
    BY <2>2, <2>3, <2>4, IdlePlace DEF CancelInvariant, CancelOK
  <2>. QED BY <2>5, <2>6, <2>7 DEF CancelInvariant
<1>2. ASSUME CancelsAlone(config), NEW n \in {r.seq : r \in Posted} \union Taken,
             CancelCheck(t, n)
      PROVE  CancelInvariant'
  <2>1. n \notin Taken /\ \A u, v \in config.threads : u = v
    BY <1>2, CancelCheckUntaken
  <2>2. n \in Nat
    <3>1. ASSUME NEW r \in Posted PROVE r.seq \in Nat
      BY <1>0, QueuedCases DEF Posted, Receive
    <3>2. \A k \in Taken : k \in Nat
      BY <1>0 DEF ReceivesOK, TypeOK
    <3>. QED BY <3>1, <3>2
  <2>3. PICK place \in Place : Goto(t, place) /\ place.at = "cancel" /\ place.n = n
    <3>. DEFINE new == [at |-> "cancel", n |-> n]
    <3>1. new \in Place /\ new.at = "cancel" /\ new.n = n /\ Goto(t, new)
      BY <1>2, <2>2, PlaceTypes DEF CancelCheck
    <3>. QED BY <3>1
  <2>4. pc'[t] = place /\ \A u \in Threads : u # t => pc'[u] = pc[u]
    BY <1>0, <2>3, SlowAfter
  <2>5. UNCHANGED <<config, took, marked, cancelled>> /\ Taken' = Taken /\ pc[t] = Idle
    BY <1>2 DEF CancelCheck, receives, Taken, Free
  <2>6. CancelledUntaken'
    BY <2>5 DEF CancelInvariant, CancelledUntaken
  <2>7. TakenNoted'
    <3>. SUFFICES ASSUME NEW k \in Taken, k \notin marked
                  PROVE  \E u \in Threads : pc'[u].at = "progress" /\ k \in pc'[u].matched
      BY <2>5 DEF TakenNoted
    <3>1. PICK u \in Threads : pc[u].at = "progress" /\ k \in pc[u].matched
      BY DEF CancelInvariant, TakenNoted
    <3>. QED BY <2>4, <2>5, <3>1, IdlePlace
  <2>8. \A u \in Threads : CancelOK(u, pc[u])'
    BY <2>1, <2>3, <2>4, <2>5 DEF CancelInvariant, CancelOK
  <2>. QED BY <2>6, <2>7, <2>8 DEF CancelInvariant
<1>. QED BY <1>1, <1>2

\* Threads, messages and receives that do not move.
LEMMA CancelStays ==
  ASSUME CancelInvariant, UNCHANGED <<config, took, marked, cancelled, pc>>
  PROVE  CancelInvariant'
<1>1. Taken' = Taken
  BY DEF Taken
<1>2. CancelledUntaken' /\ TakenNoted'
  BY <1>1 DEF CancelInvariant, CancelledUntaken, TakenNoted
<1>3. \A u \in Threads : CancelOK(u, pc[u])'
  BY <1>1 DEF CancelInvariant, CancelOK
<1>. QED BY <1>2, <1>3 DEF CancelInvariant

LEMMA CancelCallback ==
  ASSUME IInv, CancelInvariant, NEW t \in Threads, Callback(t) PROVE CancelInvariant'
<1>0. TypeOK
  BY DEF IInv
<1>1. PICK s \in Senders : \E m \in net[s] :
        CallbackMatch(t, s, m) \/ CallbackRndv(t, s, m) \/ CallbackTooEarly(t, s, m)
  BY DEF Callback
<1>2. PICK m \in net[s] :
        CallbackMatch(t, s, m) \/ CallbackRndv(t, s, m) \/ CallbackTooEarly(t, s, m)
  BY <1>1
<1>3. /\ m \in Message /\ pc[t] = Idle /\ pc[t].at = "idle" /\ t \in config.threads
      /\ UNCHANGED config
  BY <1>0, <1>2, IdlePlace
     DEF TypeOK, CallbackMatch, CallbackRndv, CallbackTooEarly, Arrive, Free
<1>4. CASE match_one(s, m) /\ Progress(t, s, Matched, "idle") /\ UNCHANGED marked
  BY <1>3, <1>4, CancelMatch
<1>5. CASE Goto(t, [at |-> "slow", s |-> s, m |-> m]) /\ UNCHANGED receives
  <2>. DEFINE place == [at |-> "slow", s |-> s, m |-> m]
  <2>1. place \in Place /\ place.at # "cancel"
    BY <1>3, PlaceTypes
  <2>2. Goto(t, place)
    BY <1>5
  <2>. HIDE DEF place
  <2>3. UNCHANGED <<took, marked, cancelled>>
    BY <1>5 DEF receives
  <2>. QED BY <1>0, <1>3, <2>1, <2>2, <2>3, CancelQuiet
<1>6. CASE UNCHANGED receives /\ UNCHANGED pc
  BY <1>3, <1>6, CancelStays DEF receives
<1>. QED BY <1>2, <1>4, <1>5, <1>6, Zenon DEF CallbackMatch, CallbackRndv, CallbackTooEarly

LEMMA CancelStep ==
  ASSUME IInv, CancelInvariant, NEW t \in Threads, Step(t), ~Cancel(t), ~Mark(t)
  PROVE  CancelInvariant'
<1>0. TypeOK /\ pc[t] \in Place /\ ThreadOK(t, pc[t]) /\ UNCHANGED config
  BY ThreadFacts DEF Step, RecvFragMatch, Mark, CheckCantMatch, SearchCantMatch, AddComm,
     AddFragment, AddNext, Added
<1>1. ASSUME NEW place \in Place, Goto(t, place), place.at # "cancel", pc[t].at # "progress",
             UNCHANGED receives
      PROVE  CancelInvariant'
  BY <1>0, <1>1, CancelQuiet DEF receives
<1>2. ASSUME pc[t].at \in {"slow", "search"}, NEW s \in Senders, NEW m \in Message,
             NEW next \in {"idle", "check"}, match_one(s, m),
             Progress(t, s, Matched, next), UNCHANGED marked
      PROVE  CancelInvariant'
  <2>1. t \in config.threads
    BY <1>2, ThreadFacts
  <2>. QED BY <1>0, <1>2, <2>1, CancelMatch
<1>3. ASSUME UNCHANGED pc, UNCHANGED receives PROVE CancelInvariant'
  BY <1>0, <1>3, CancelStays DEF receives
<1>4. CASE RecvFragMatch(t)
  <2>1. PICK s \in Senders, m \in Message : s = pc[t].s /\ m = pc[t].m
    BY <1>0, <1>4, PlaceFields DEF RecvFragMatch
  <2>2. \/ match_one(s, m) /\ Progress(t, s, Matched, "check") /\ UNCHANGED marked
        \/ Goto(t, Idle) /\ UNCHANGED receives
    BY <1>4, <2>1, Zenon DEF RecvFragMatch
  <2>3. pc[t].at = "slow"
    BY <1>4 DEF RecvFragMatch
  <2>. QED BY <1>1, <1>2, <2>2, <2>3, IdlePlace
<1>5. CASE CheckCantMatch(t)
  <2>1. PICK s \in Senders : s = pc[t].s /\ pc[t].at = "check"
    BY <1>0, <1>5, PlaceFields DEF CheckCantMatch
  <2>2. \/ Goto(t, Idle) /\ UNCHANGED receives
        \/ Goto(t, [at |-> "search", s |-> s]) /\ UNCHANGED receives
    BY <1>5, <2>1, Zenon DEF CheckCantMatch
  <2>3. [at |-> "search", s |-> s] \in Place
    BY PlaceTypes
  <2>. QED BY <1>1, <2>1, <2>2, <2>3, IdlePlace
<1>6. CASE SearchCantMatch(t)
  <2>1. PICK s \in Senders : s = pc[t].s /\ pc[t].at = "search"
    BY <1>0, <1>6, PlaceFields DEF SearchCantMatch
  <2>2. \/ \E m \in NextOf(s) : /\ match_one(s, m) /\ Progress(t, s, Matched, "check")
                                /\ UNCHANGED marked
        \/ Goto(t, Idle) /\ UNCHANGED receives
    BY <1>6, <2>1, Zenon DEF SearchCantMatch
  <2>3. NextOf(s) \subseteq Message
    BY <1>0 DEF NextOf, TypeOK
  <2>. QED BY <1>1, <1>2, <2>1, <2>2, <2>3, IdlePlace
<1>7. CASE AddComm(t)
  <2>1. Goto(t, [at |-> "adding"]) /\ UNCHANGED receives /\ pc[t] = Idle
    BY <1>7 DEF AddComm, Free
  <2>. QED BY <1>1, <2>1, IdlePlace, PlaceTypes
<1>8. CASE AddFragment(t)
  <2>1. PICK m \in pending :
          \/ Goto(t, [at |-> "adding next", s |-> m.s]) /\ UNCHANGED receives
          \/ UNCHANGED pc /\ UNCHANGED receives
    BY <1>8 DEF AddFragment
  <2>2. m.s \in Senders /\ pc[t].at = "adding"
    BY <1>0, <1>8 DEF AddFragment, TypeOK, Message
  <2>3. [at |-> "adding next", s |-> m.s] \in Place
    BY <2>2, PlaceTypes
  <2>. QED BY <1>1, <1>3, <2>1, <2>2, <2>3
<1>9. CASE AddNext(t)
  <2>1. UNCHANGED receives /\ pc[t].at = "adding next"
    BY <1>9 DEF AddNext
  <2>2. UNCHANGED pc \/ Goto(t, [at |-> "adding"])
    BY <1>9 DEF AddNext
  <2>. QED BY <1>1, <1>3, <2>1, <2>2, PlaceTypes
<1>10. CASE Added(t)
  <2>1. Goto(t, Idle) /\ UNCHANGED receives /\ pc[t].at = "adding"
    BY <1>10 DEF Added
  <2>. QED BY <1>1, <2>1, IdlePlace
<1>. QED BY <1>4, <1>5, <1>6, <1>7, <1>8, <1>9, <1>10, Zenon DEF Step

LEMMA ConfigStays == [Next]_vars => UNCHANGED config
<1>. SUFFICES ASSUME [Next]_vars PROVE UNCHANGED config
  OBVIOUS
<1>1. CASE UNCHANGED vars
  BY <1>1 DEF vars
<1>2. ASSUME NEW s \in Senders, Send(s) PROVE UNCHANGED config
  BY <1>2 DEF Send
<1>3. ASSUME NEW t \in Threads, Step(t) PROVE UNCHANGED config
  BY <1>3 DEF Step, RecvFragMatch, Mark, CheckCantMatch, SearchCantMatch, AddComm,
              AddFragment, AddNext, Added, Cancel
<1>4. ASSUME NEW t \in Threads, Callback(t) PROVE UNCHANGED config
  BY <1>4 DEF Callback, CallbackMatch, CallbackRndv, CallbackTooEarly, Arrive
<1>5. ASSUME NEW t \in Threads, Post(t) PROVE UNCHANGED config
  BY <1>5 DEF Post
<1>6. ASSUME NEW t \in Threads, NEW n, CancelCheck(t, n) PROVE UNCHANGED config
  BY <1>6 DEF CancelCheck
<1>. QED BY <1>1, <1>2, <1>3, <1>4, <1>5, <1>6 DEF Next

LEMMA CancelNext ==
  ASSUME IInv, CancelInvariant, CancelsAlone(config), [Next]_vars
  PROVE  CancelInvariant'
<1>1. CASE UNCHANGED vars
  BY <1>1, CancelStays DEF vars, receives
<1>2. ASSUME NEW s \in Senders, Send(s) PROVE CancelInvariant'
  BY <1>2, CancelStays DEF Send, receives
<1>3. ASSUME NEW t \in Threads, Step(t) PROVE CancelInvariant'
  BY <1>3, CancelStep, CancelMark, CancelCancels
<1>4. ASSUME NEW t \in Threads, Callback(t) PROVE CancelInvariant'
  BY <1>4, CancelCallback
<1>5. ASSUME NEW t \in Threads, Post(t) PROVE CancelInvariant'
  BY <1>5, CancelPost
<1>6. ASSUME NEW t \in Threads, NEW n \in {r.seq : r \in Posted} \union Taken, CancelCheck(t, n)
      PROVE  CancelInvariant'
  BY <1>6, CancelCancels
<1>. QED BY <1>1, <1>2, <1>3, <1>4, <1>5, <1>6 DEF Next

\* Where receives are cancelled by the only thread of the layer, a receive that is
\* reported as cancelled takes no message, neither before nor after.
THEOREM NotBoth == Spec => [](CancelsAlone(config) => CancelledUntaken)
<1>. DEFINE Inv == CancelsAlone(config) => CancelInvariant
<1>1. Init => Inv
  <2>. SUFFICES ASSUME Init PROVE CancelInvariant
    OBVIOUS
  <2>1. took = {} /\ cancelled = {} /\ Taken = {} /\ \A t \in Threads : pc[t] = Idle
    BY DEF Init, Taken
  <2>. QED BY <2>1, IdlePlace DEF CancelInvariant, CancelledUntaken, TakenNoted, CancelOK
<1>2. IInv /\ Inv /\ [Next]_vars => Inv'
  <2>1. [Next]_vars => UNCHANGED config
    BY ConfigStays
  <2>2. UNCHANGED config => (CancelsAlone(config)' <=> CancelsAlone(config))
    BY DEF CancelsAlone
  <2>. QED BY <2>1, <2>2, CancelNext
<1>3. Inv => (CancelsAlone(config) => CancelledUntaken)
  BY DEF CancelInvariant
<1>. QED BY <1>1, <1>2, <1>3, Invariance, PTL DEF Spec


-----------------------------------------------------------------------------
(* The layer implements what MPI promises: the parts of the abstract state. *)

queue == [s \in Senders |-> {[tag |-> m.tag, k |-> m.k] : m \in Untaken(s)}]
posted == {[seq |-> r.seq, src |-> r.src, tag |-> r.tag] : r \in Posted}

\* The messages that were not let in.
Carried == (UNION {net[s] : s \in Senders}) \union (UNION {cant[s] : s \in Senders})
           \union pending \union {pc[t].m : t \in Slow}

LEMMA CarriedCopies ==
  /\ \A m \in Carried : \E c \in Copies : c[1] = m
  /\ \A c \in Copies : c[1] \in Carried
<1>1. ASSUME NEW m \in Carried PROVE \E c \in Copies : c[1] = m
  <2>1. CASE \E s \in Senders : m \in net[s]
    BY <2>1, CopyPlaces
  <2>2. CASE \E s \in Senders : m \in cant[s]
    BY <2>2, CopyPlaces
  <2>3. CASE m \in pending
    BY <2>3, CopyPlaces
  <2>4. CASE \E t \in Slow : m = pc[t].m
    BY <2>4, CopyPlaces
  <2>. QED BY <2>1, <2>2, <2>3, <2>4 DEF Carried
<1>2. ASSUME NEW c \in Copies PROVE c[1] \in Carried
  BY CopyCases DEF Carried
<1>. QED BY <1>1, <1>2

LEMMA CarriedFacts ==
  ASSUME TypeOK, MessagesOK, NEW m \in Carried
  PROVE  /\ m \in Message /\ m.s \in Senders /\ m.k > accepted[m.s]
         /\ hdr_seq(m) = expected_sequence(m.s) => m.k = accepted[m.s] + 1
<1>1. PICK c \in Copies : c[1] = m
  BY CarriedCopies
<1>2. c[1] \in Message /\ c[1].s \in Senders
  BY CopyTypes
<1>3. c[1].k \in accepted[c[1].s] + 1 .. sends[c[1].s]
  BY DEF MessagesOK
<1>4. accepted[m.s] \in Nat /\ sends[m.s] \in Nat
  BY <1>1, <1>2 DEF TypeOK
<1>. QED BY <1>1, <1>2, <1>3, <1>4, TurnOf

\* The messages of s that no receive has taken were not let in, or are unexpected.
LEMMA UntakenParts ==
  ASSUME TypeOK, MessagesOK
  PROVE  \A s \in Senders :
           Untaken(s) = {m \in Carried : m.s = s} \union {e.m : e \in unexpected[s]}
<1>. SUFFICES ASSUME NEW s \in Senders
              PROVE  Untaken(s) = {m \in Carried : m.s = s} \union {e.m : e \in unexpected[s]}
  OBVIOUS
<1>0. \A p \in Senders : \A m \in net[p] \union cant[p] : m.s = p
  BY DEF MessagesOK
<1>1. \A m \in Untaken(s) : (m \in Carried /\ m.s = s) \/ m \in {e.m : e \in unexpected[s]}
  BY <1>0 DEF Untaken, Carried
<1>2. \A m \in Carried : m.s = s => m \in Untaken(s)
  BY <1>0 DEF Untaken, Carried
<1>3. {e.m : e \in unexpected[s]} \subseteq Untaken(s)
  BY DEF Untaken
<1>. QED BY <1>1, <1>2, <1>3

LEMMA UntakenPartsNext ==
  ASSUME TypeOK', MessagesOK'
  PROVE  \A s \in Senders :
           Untaken(s)' = {m \in Carried' : m.s = s} \union {e.m : e \in unexpected'[s]}
<1>. SUFFICES ASSUME NEW s \in Senders
              PROVE  Untaken(s)' = {m \in Carried' : m.s = s} \union {e.m : e \in unexpected'[s]}
  OBVIOUS
<1>0. \A p \in Senders : \A m \in net'[p] \union cant'[p] : m.s = p
  BY DEF MessagesOK
<1>1. \A m \in Untaken(s)' : (m \in Carried' /\ m.s = s) \/ m \in {e.m : e \in unexpected'[s]}
  BY <1>0 DEF Untaken, Carried
<1>2. \A m \in Carried' : m.s = s => m \in Untaken(s)'
  BY <1>0 DEF Untaken, Carried
<1>3. {e.m : e \in unexpected'[s]} \subseteq Untaken(s)'
  BY DEF Untaken
<1>. QED BY <1>1, <1>2, <1>3

LEMMA UntakenTypes ==
  ASSUME TypeOK, MessagesOK, NEW s \in Senders, NEW m \in Untaken(s)
  PROVE  m \in Message /\ m.s = s
<1>1. CASE m \in Carried /\ m.s = s
  BY <1>1, CarriedFacts
<1>2. CASE \E e \in unexpected[s] : m = e.m
  BY <1>2 DEF TypeOK, MessagesOK
<1>. QED BY <1>1, <1>2, UntakenParts

\* The queue of a sender tells its messages from each other.
LEMMA QueueSame ==
  ASSUME \A s \in Senders : Untaken(s)' = Untaken(s)
  PROVE  queue' = queue
BY DEF queue

LEMMA QueueLoses ==
  ASSUME TypeOK, MessagesOK, NEW s \in Senders, NEW m \in Untaken(s),
         Untaken(s)' = Untaken(s) \ {m}, \A p \in Senders : p # s => Untaken(p)' = Untaken(p)
  PROVE  queue' = [queue EXCEPT ![s] = @ \ {[tag |-> m.tag, k |-> m.k]}]
<1>. DEFINE Q == {[tag |-> x.tag, k |-> x.k] : x \in Untaken(s)}
            new == {[tag |-> x.tag, k |-> x.k] : x \in Untaken(s)'}
<1>1. PICK y : y = [tag |-> m.tag, k |-> m.k]
  OBVIOUS
<1>2. ASSUME NEW x \in Untaken(s), [tag |-> x.tag, k |-> x.k] = y PROVE x = m
  <2>1. x \in Message /\ x.s = s /\ m \in Message /\ m.s = s
    BY UntakenTypes
  <2>2. [tag |-> x.tag, k |-> x.k].tag = [tag |-> m.tag, k |-> m.k].tag
    BY <1>1, <1>2
  <2>3. [tag |-> x.tag, k |-> x.k].k = [tag |-> m.tag, k |-> m.k].k
    BY <1>1, <1>2
  <2>. QED BY <2>1, <2>2, <2>3 DEF Message
<1>3. new = Q \ {y}
  <2>1. \A z \in new : z \in Q /\ z # y
    BY <1>2
  <2>2. \A z \in Q : z # y => z \in new
    BY <1>1
  <2>. QED BY <2>1, <2>2
<1>4. queue = [p \in Senders |-> {[tag |-> x.tag, k |-> x.k] : x \in Untaken(p)}]
  BY DEF queue
<1>5. queue' = [p \in Senders |-> {[tag |-> x.tag, k |-> x.k] : x \in Untaken(p)'}]
  BY DEF queue
<1>6. queue[s] = Q /\ queue'[s] = new
  BY <1>4, <1>5
<1>7. \A p \in Senders : p # s => queue'[p] = queue[p]
  BY <1>4, <1>5
<1>. HIDE DEF Q, new
<1>8. queue' = [queue EXCEPT ![s] = queue[s] \ {y}]
  BY <1>3, <1>4, <1>5, <1>6, <1>7
<1>. QED BY <1>1, <1>8

LEMMA QueueGains ==
  ASSUME NEW s \in Senders, NEW m,
         Untaken(s)' = Untaken(s) \union {m}, \A p \in Senders : p # s => Untaken(p)' = Untaken(p)
  PROVE  queue' = [queue EXCEPT ![s] = @ \union {[tag |-> m.tag, k |-> m.k]}]
<1>. DEFINE Q == {[tag |-> x.tag, k |-> x.k] : x \in Untaken(s)}
            new == {[tag |-> x.tag, k |-> x.k] : x \in Untaken(s)'}
<1>1. PICK y : y = [tag |-> m.tag, k |-> m.k]
  OBVIOUS
<1>3. new = Q \union {y}
  <2>1. \A z \in new : z \in Q \/ z = y
    BY <1>1
  <2>2. \A z \in Q : z \in new
    OBVIOUS
  <2>3. y \in new
    BY <1>1
  <2>. QED BY <2>1, <2>2, <2>3
<1>4. queue = [p \in Senders |-> {[tag |-> x.tag, k |-> x.k] : x \in Untaken(p)}]
  BY DEF queue
<1>5. queue' = [p \in Senders |-> {[tag |-> x.tag, k |-> x.k] : x \in Untaken(p)'}]
  BY DEF queue
<1>6. queue[s] = Q /\ queue'[s] = new
  BY <1>4, <1>5
<1>7. \A p \in Senders : p # s => queue'[p] = queue[p]
  BY <1>4, <1>5
<1>. HIDE DEF Q, new
<1>8. queue' = [queue EXCEPT ![s] = queue[s] \union {y}]
  BY <1>3, <1>4, <1>5, <1>6, <1>7
<1>. QED BY <1>1, <1>8

\* A message that moves within the layer is still one that no receive has taken.
LEMMA UntakenMoved ==
  ASSUME IInv, IInv', NEW m \in Message, Carried' \union {m} = Carried, m.s \in Senders,
         \/ m \in Carried' /\ UNCHANGED unexpected
         \/ Keep(m.s, m)
  PROVE  \A s \in Senders : Untaken(s)' = Untaken(s)
<1>0. TypeOK /\ MessagesOK /\ TypeOK' /\ MessagesOK'
  BY DEF IInv
<1>1. \A s \in Senders :
        /\ Untaken(s) = {x \in Carried : x.s = s} \union {e.m : e \in unexpected[s]}
        /\ Untaken(s)' = {x \in Carried' : x.s = s} \union {e.m : e \in unexpected'[s]}
  BY <1>0, UntakenParts, UntakenPartsNext
<1>2. CASE m \in Carried' /\ UNCHANGED unexpected
  <2>1. Carried' = Carried
    BY <1>2
  <2>. QED BY <1>1, <1>2, <2>1
<1>3. CASE Keep(m.s, m)
  <2>1. PICK new : new = [n |-> accepted'[m.s], m |-> m]
    OBVIOUS
  <2>2. new.m = m /\ unexpected' = [unexpected EXCEPT ![m.s] = @ \union {new}]
    BY <1>3, <2>1 DEF Keep
  <2>3. \A p \in Senders :
          unexpected'[p] = IF p = m.s THEN unexpected[p] \union {new} ELSE unexpected[p]
    BY <1>0, <2>2 DEF TypeOK
  <2>. SUFFICES ASSUME NEW s \in Senders PROVE Untaken(s)' = Untaken(s)
    OBVIOUS
  <2>4. CASE s = m.s
    <3>1. {e.m : e \in unexpected'[s]} = {e.m : e \in unexpected[s]} \union {m}
      BY <2>2, <2>3, <2>4
    <3>2. {x \in Carried : x.s = s} = {x \in Carried' : x.s = s} \union {m}
      BY <2>4
    <3>3. PICK A : A = {e.m : e \in unexpected[s]}
      OBVIOUS
    <3>4. PICK B : B = {x \in Carried' : x.s = s}
      OBVIOUS
    <3>5. Untaken(s) = (B \union {m}) \union A
      BY <1>1, <3>2, <3>3, <3>4
    <3>6. Untaken(s)' = B \union (A \union {m})
      BY <1>1, <3>1, <3>3, <3>4
    <3>. QED BY <3>5, <3>6
  <2>5. CASE s # m.s
    <3>1. {x \in Carried : x.s = s} = {x \in Carried' : x.s = s}
      BY <2>5
    <3>2. unexpected'[s] = unexpected[s]
      BY <2>3, <2>5
    <3>3. {e.m : e \in unexpected'[s]} = {e.m : e \in unexpected[s]}
      BY <3>2
    <3>. QED BY <1>1, <3>1, <3>3
  <2>. QED BY <2>4, <2>5
<1>. QED BY <1>2, <1>3

\* A message that is let in and not kept is gone.
LEMMA UntakenTaken ==
  ASSUME IInv, IInv', NEW m \in Message, Carried' \union {m} = Carried, m.s \in Senders,
         m.k > accepted[m.s], m.k <= accepted'[m.s], UNCHANGED unexpected
  PROVE  /\ m \in Untaken(m.s) /\ Untaken(m.s)' = Untaken(m.s) \ {m}
         /\ \A s \in Senders : s # m.s => Untaken(s)' = Untaken(s)
<1>0. TypeOK /\ MessagesOK /\ TypeOK' /\ MessagesOK'
  BY DEF IInv
<1>1. \A s \in Senders :
        /\ Untaken(s) = {x \in Carried : x.s = s} \union {e.m : e \in unexpected[s]}
        /\ Untaken(s)' = {x \in Carried' : x.s = s} \union {e.m : e \in unexpected'[s]}
  BY <1>0, UntakenParts, UntakenPartsNext
<1>2. accepted[m.s] \in Nat /\ accepted'[m.s] \in Nat /\ m.k \in Nat
  BY <1>0 DEF TypeOK, Message
<1>3. m \notin Carried'
  <2>. SUFFICES ASSUME m \in Carried' PROVE FALSE
    OBVIOUS
  <2>1. PICK c \in Copies' : c[1] = m
    <3>1. /\ \A p \in Senders : \A x \in net'[p] : <<x, "net">> \in Copies'
          /\ \A p \in Senders : \A x \in cant'[p] : <<x, "cant">> \in Copies'
          /\ \A x \in pending' : <<x, "pending">> \in Copies'
          /\ \A t \in Slow' : <<pc'[t].m, "slow", t>> \in Copies'
      BY DEF Copies
    <3>2. <<m, "net">>[1] = m /\ <<m, "cant">>[1] = m /\ <<m, "pending">>[1] = m
      OBVIOUS
    <3>3. \A t : <<m, "slow", t>>[1] = m
      OBVIOUS
    <3>4. \/ \E p \in Senders : m \in net'[p]
          \/ \E p \in Senders : m \in cant'[p]
          \/ m \in pending'
          \/ \E t \in Slow' : m = pc'[t].m
      BY DEF Carried
    <3>. QED BY <3>1, <3>2, <3>3, <3>4
  <2>2. m.k \in accepted'[m.s] + 1 .. sends'[m.s]
    BY <1>0, <2>1 DEF MessagesOK
  <2>. QED BY <1>0, <1>2, <2>2 DEF TypeOK
<1>4. \A e \in unexpected[m.s] : e.m # m
  <2>1. \A e \in unexpected[m.s] : e.m.k <= accepted[m.s]
    BY <1>0 DEF MessagesOK
  <2>. QED BY <1>2, <2>1
<1>5. m \in Carried
  OBVIOUS
<1>6. \A s \in Senders : s # m.s => {x \in Carried : x.s = s} = {x \in Carried' : x.s = s}
  OBVIOUS
<1>7. {x \in Carried' : x.s = m.s} = {x \in Carried : x.s = m.s} \ {m}
  BY <1>3
<1>8. m \notin {e.m : e \in unexpected[m.s]}
  BY <1>4
<1>9. Untaken(m.s)' = Untaken(m.s) \ {m}
  BY <1>1, <1>7, <1>8
<1>. QED BY <1>1, <1>5, <1>6, <1>9

-----------------------------------------------------------------------------
(* Steps of the abstract layer.                                            *)

\* Nothing happens there.
LEMMA Nothing ==
  ASSUME \A s \in Senders : Untaken(s)' = Untaken(s), Posted' = Posted,
         UNCHANGED <<sends, posts, took>>
  PROVE  [MPI!Next]_(MPI!vars)
<1>1. queue' = queue
  BY QueueSame
<1>2. posted' = posted
  BY DEF posted
<1>. QED BY <1>1, <1>2 DEF MPI!vars, queue, posted

\* The receives that are not queued any more.
LEMMA PostedLoses ==
  ASSUME TypeOK, ReceivesOK, NEW r \in Posted, Posted' = Posted \ {r}
  PROVE  posted' = posted \ {[seq |-> r.seq, src |-> r.src, tag |-> r.tag]}
<1>1. PICK y : y = [seq |-> r.seq, src |-> r.src, tag |-> r.tag]
  OBVIOUS
<1>2. ASSUME NEW q \in Posted, [seq |-> q.seq, src |-> q.src, tag |-> q.tag] = y PROVE q = r
  <2>1. [seq |-> q.seq, src |-> q.src, tag |-> q.tag].seq
          = [seq |-> r.seq, src |-> r.src, tag |-> r.tag].seq
    BY <1>1, <1>2
  <2>2. q.seq = r.seq
    BY <2>1
  <2>3. q \in Queued /\ r \in Queued
    BY DEF Posted
  <2>. QED BY <2>2, <2>3 DEF ReceivesOK
<1>3. posted' = {[seq |-> q.seq, src |-> q.src, tag |-> q.tag] : q \in Posted \ {r}}
  BY DEF posted
<1>4. \A z \in posted' : z \in posted /\ z # y
  BY <1>2, <1>3 DEF posted
<1>5. \A z \in posted : z # y => z \in posted'
  BY <1>1, <1>3 DEF posted
<1>. QED BY <1>1, <1>4, <1>5

LEMMA SeqOfReceives ==
  \A r \in Receive : [seq |-> r.seq, src |-> r.src, tag |-> r.tag].seq = r.seq
OBVIOUS

\* What match_one takes is what may be taken: the first message of its sender that the
\* receive accepts, and the first receive that accepts the message.
LEMMA MatchImplements ==
  ASSUME IInv, IInv', NEW m \in Carried, Carried' \union {m} = Carried,
         m.k = accepted[m.s] + 1, match_one(m.s, m), UNCHANGED <<sends, marked>>
  PROVE  [MPI!Next]_(MPI!vars)
<1>. DEFINE s == m.s
<1>0. /\ TypeOK /\ MessagesOK /\ ReceivesOK /\ NoMissedMatch
      /\ m \in Message /\ s \in Senders /\ m.k \in Nat /\ accepted[s] \in Nat
  BY CarriedFacts DEF IInv, TypeOK, Message
<1>1. /\ Queued' = Queued \ (Taker(s, m) \union Probes(s, m))
      /\ UNCHANGED posts
      /\ took' = took \union {[seq |-> r.seq, s |-> s, k |-> m.k] : r \in Taker(s, m)}
      /\ accepted'[s] = accepted[s] + 1
      /\ IF Taker(s, m) = {} THEN Keep(s, m) ELSE UNCHANGED unexpected
  <2>1. /\ UNCHANGED posts
        /\ took' = took \union {[seq |-> r.seq, s |-> s, k |-> m.k] : r \in Taker(s, m)}
        /\ accepted' = [accepted EXCEPT ![s] = @ + 1]
        /\ IF Taker(s, m) = {} THEN Keep(s, m) ELSE UNCHANGED unexpected
    BY DEF match_one, LetIn
  <2>2. Queued' = Queued \ (Taker(s, m) \union Probes(s, m))
    BY <1>0, MatchReceives
  <2>. QED BY <1>0, <2>1, <2>2 DEF TypeOK
<1>2. Posted' = Posted \ Taker(s, m)
  <2>1. \A r \in Probes(s, m) : r.probe
    BY <1>0, EarliestFacts
  <2>. QED BY <1>1, <2>1 DEF Posted
<1>. HIDE DEF s
<1>3. CASE Taker(s, m) = {}
  <2>1. \A p \in Senders : Untaken(p)' = Untaken(p)
    BY <1>0, <1>1, <1>3, UntakenMoved DEF s
  <2>2. Posted' = Posted /\ took' = took
    BY <1>1, <1>2, <1>3
  <2>. QED BY <1>1, <2>1, <2>2, Nothing
<1>4. ASSUME NEW r \in Taker(s, m) PROVE [MPI!Next]_(MPI!vars)
  <2>1. /\ r \in Able(s, m) /\ r \in Receive /\ r \in specific[s] \union wild /\ ~r.probe
        /\ Taker(s, m) \subseteq Able(s, m) /\ Able(s, m) \subseteq specific[s] \union wild
        /\ Able(s, m) \subseteq Receive
    BY <1>0, <1>4, EarliestFacts
  <2>2. r \in Posted /\ \A q \in Able(s, m) : q \in Queued
    BY <1>0, <2>1, QueuedCases DEF Posted
  <2>3. Taker(s, m) = {r}
    <3>. SUFFICES ASSUME NEW q \in Taker(s, m) PROVE q = r
      BY <1>4
    <3>1. q.seq <= r.seq /\ r.seq <= q.seq /\ q \in Able(s, m)
      BY <1>4, <2>1 DEF Taker, Earliest
    <3>2. q.seq \in Nat /\ r.seq \in Nat
      BY <2>1, <3>1 DEF Receive
    <3>. QED BY <1>0, <2>1, <2>2, <3>1, <3>2 DEF ReceivesOK
  <2>4. PICK y : y = [tag |-> m.tag, k |-> m.k]
    OBVIOUS
  <2>5. PICK g : g = [seq |-> r.seq, src |-> r.src, tag |-> r.tag]
    OBVIOUS
  <2>6. y.tag = m.tag /\ y.k = m.k /\ g.seq = r.seq /\ g.src = r.src /\ g.tag = r.tag
    BY <2>4, <2>5
  <2>7. m.k > accepted[s] /\ m.k <= accepted'[s] /\ UNCHANGED unexpected
    BY <1>0, <1>1, <1>4 DEF s
  <2>8. /\ m \in Untaken(s) /\ Untaken(s)' = Untaken(s) \ {m}
        /\ \A p \in Senders : p # s => Untaken(p)' = Untaken(p)
    BY <1>0, <2>7, UntakenTaken DEF s
  <2>9. queue' = [queue EXCEPT ![s] = @ \ {y}]
    BY <1>0, <2>4, <2>8, QueueLoses
  <2>10. y \in queue[s] /\ g \in posted
    BY <1>0, <2>2, <2>4, <2>5, <2>8 DEF queue, posted
  <2>11. posted' = posted \ {g}
    BY <1>0, <1>2, <2>2, <2>3, <2>5, PostedLoses
  <2>12. took' = took \union {[seq |-> g.seq, s |-> s, k |-> y.k]}
    BY <1>1, <2>3, <2>6
  <2>13. MPI!Accepts(g, s, y)
    <3>1. Accepts(r, s, m)
      BY <2>1 DEF Able
    <3>. QED BY <2>6, <3>1 DEF MPI!Accepts, Accepts
  <2>14. ASSUME NEW z \in queue[s], z.k < y.k, MPI!Accepts(g, s, z) PROVE FALSE
    <3>1. PICK x \in Untaken(s) : z = [tag |-> x.tag, k |-> x.k]
      BY <1>0 DEF queue
    <3>2. z.tag = x.tag /\ z.k = x.k
      BY <3>1
    <3>3. Accepts(r, s, x)
      BY <2>6, <2>14, <3>2 DEF MPI!Accepts, Accepts
    <3>4. x \notin Carried \/ x.s # s
      <4>. SUFFICES ASSUME x \in Carried, x.s = s PROVE FALSE
        OBVIOUS
      <4>1. x.k > accepted[s] /\ x.k \in Nat
        BY <1>0, CarriedFacts DEF Message
      <4>. QED BY <1>0, <2>6, <2>14, <3>2, <4>1 DEF s
    <3>5. PICK e \in unexpected[s] : e.m = x
      BY <1>0, <3>4, UntakenParts
    <3>6. r \in Queued
      BY <2>1, <2>2
    <3>. QED BY <1>0, <3>3, <3>5, <3>6 DEF NoMissedMatch
  <2>15. ASSUME NEW h \in posted, h.seq < g.seq, MPI!Accepts(h, s, y) PROVE FALSE
    <3>1. PICK q \in Posted : h = [seq |-> q.seq, src |-> q.src, tag |-> q.tag]
      BY DEF posted
    <3>2. h.seq = q.seq /\ h.src = q.src /\ h.tag = q.tag
      BY <3>1
    <3>3. Accepts(q, s, m) /\ q.src \in {s, AnySource}
      BY <2>6, <2>15, <3>2 DEF MPI!Accepts, Accepts
    <3>4. q \in Queued /\ ~q.probe /\ \A p \in Senders : p # AnySource
      BY SenderFacts DEF Posted
    <3>5. q \in specific[s] \union wild
      BY <1>0, <3>3, <3>4, QueuedCases DEF ReceivesOK
    <3>6. q \in Able(s, m)
      BY <3>3, <3>5 DEF Able
    <3>7. r.seq <= q.seq /\ r.seq \in Nat /\ q.seq \in Nat
      BY <1>4, <2>1, <3>4, <3>6 DEF Taker, Earliest, Receive
    <3>. QED BY <2>6, <2>15, <3>2, <3>7
  <2>16. MPI!MayTake(posted, g, s, y)
    BY <2>13, <2>14, <2>15 DEF MPI!MayTake, queue
  <2>17. MPI!Match(g, s, y)
    BY <1>1, <2>9, <2>11, <2>12, <2>16 DEF MPI!Match, MPI!Take, queue, posted
  <2>. QED BY <1>0, <2>10, <2>17 DEF MPI!Next, queue, posted
<1>. QED BY <1>3, <1>4

-----------------------------------------------------------------------------
(* Where the messages that were not let in are after a step.               *)

\* What a thread has in its hands.
Held(t) == IF t \in Slow THEN {pc[t].m} ELSE {}

\* A step in which only thread t moves, and only message m.
LEMMA CarriedMoves ==
  ASSUME TypeOK, NEW t \in Threads, NEW place \in Place, Goto(t, place), NEW m,
         m \in (UNION {net[p] : p \in Senders}) \union (UNION {cant[p] : p \in Senders})
               \union pending \union Held(t),
         \A p \in Senders : net'[p] \union {m} = net[p] \union {m},
         \A p \in Senders : cant'[p] \union {m} = cant[p] \union {m},
         pending' \union {m} = pending \union {m},
         Held(t) \subseteq {m}, place.at = "slow" => place.m = m
  PROVE  /\ Carried' \union {m} = Carried
         /\ (\/ \E p \in Senders : m \in net'[p]
             \/ \E p \in Senders : m \in cant'[p]
             \/ m \in pending'
             \/ place.at = "slow")
            => m \in Carried'
<1>1. /\ pc'[t] = place /\ \A u \in Threads : u # t => pc'[u] = pc[u]
      /\ \A u \in Threads : u # t => (u \in Slow' <=> u \in Slow)
      /\ t \in Slow' <=> place.at = "slow"
  BY SlowAfter DEF Slow
<1>2. Slow \subseteq Threads /\ Slow' \subseteq Threads
  BY DEF Slow
<1>3. ASSUME NEW x \in Carried' PROVE x \in Carried \/ x = m
  <2>1. CASE \E u \in Slow' : x = pc'[u].m
    BY <1>1, <1>2, <2>1 DEF Carried
  <2>2. CASE \E p \in Senders : x \in net'[p]
    BY <2>2 DEF Carried
  <2>3. CASE \E p \in Senders : x \in cant'[p]
    BY <2>3 DEF Carried
  <2>4. CASE x \in pending'
    BY <2>4 DEF Carried
  <2>. QED BY <1>3, <2>1, <2>2, <2>3, <2>4 DEF Carried
<1>4. ASSUME NEW x \in Carried, x # m PROVE x \in Carried'
  <2>1. CASE \E u \in Slow : x = pc[u].m
    <3>1. PICK u \in Slow : x = pc[u].m
      BY <2>1
    <3>2. u # t
      BY <1>4, <3>1 DEF Held
    <3>. QED BY <1>1, <1>2, <3>1, <3>2 DEF Carried
  <2>2. CASE \E p \in Senders : x \in net[p]
    BY <1>4, <2>2 DEF Carried
  <2>3. CASE \E p \in Senders : x \in cant[p]
    BY <1>4, <2>3 DEF Carried
  <2>4. CASE x \in pending
    BY <1>4, <2>4 DEF Carried
  <2>. QED BY <1>4, <2>1, <2>2, <2>3, <2>4 DEF Carried
<1>5. m \in Carried
  <2>1. CASE m \in Held(t)
    BY <2>1 DEF Held, Carried
  <2>2. CASE m \notin Held(t)
    BY <2>2 DEF Carried
  <2>. QED BY <2>1, <2>2
<1>6. ASSUME place.at = "slow" PROVE m \in Carried'
  BY <1>1, <1>6 DEF Carried
<1>7. ASSUME \/ \E p \in Senders : m \in net'[p]
             \/ \E p \in Senders : m \in cant'[p]
             \/ m \in pending'
      PROVE  m \in Carried'
  BY <1>7 DEF Carried
<1>. QED BY <1>3, <1>4, <1>5, <1>6, <1>7

\* A step in which thread t moves and no message does.
LEMMA CarriedStays ==
  ASSUME TypeOK, NEW t \in Threads, NEW place \in Place, Goto(t, place),
         t \notin Slow, place.at # "slow", UNCHANGED <<net, cant, pending>>
  PROVE  Carried' = Carried
<1>1. \A u \in Threads : u # t => pc'[u] = pc[u]
  BY SlowAfter
<1>2. Slow' = Slow
  BY SlowAfter
<1>3. \A u \in Slow : pc'[u] = pc[u]
  BY <1>1 DEF Slow
<1>. QED BY <1>2, <1>3 DEF Carried

LEMMA QuietImplements ==
  ASSUME IInv, IInv', Carried' = Carried, UNCHANGED <<unexpected, sends, posts, took>>,
         Posted' = Posted
  PROVE  [MPI!Next]_(MPI!vars)
<1>0. TypeOK /\ MessagesOK /\ TypeOK' /\ MessagesOK'
  BY DEF IInv
<1>1. \A s \in Senders : Untaken(s)' = Untaken(s)
  BY <1>0, UntakenParts, UntakenPartsNext
<1>. QED BY <1>1, Nothing

LEMMA MoveImplements ==
  ASSUME IInv, IInv', NEW m \in Carried, Carried' \union {m} = Carried,
         \/ m \in Carried' /\ UNCHANGED unexpected
         \/ Keep(m.s, m),
         UNCHANGED <<sends, posts, took>>, Posted' = Posted
  PROVE  [MPI!Next]_(MPI!vars)
<1>1. m \in Message /\ m.s \in Senders
  BY CarriedFacts DEF IInv
<1>. QED BY <1>1, UntakenMoved, Nothing

LEMMA ReceivesStay ==
  ASSUME UNCHANGED receives
  PROVE  Posted' = Posted /\ UNCHANGED <<specific, wild, posts, last_probed, took, marked, cancelled>>
BY DEF receives, Posted, Queued

-----------------------------------------------------------------------------
(* Each step of the layer is a step of the abstract one, or none.          *)

LEMMA SendImplements ==
  ASSUME IInv, NEW s \in Senders, Send(s) PROVE [MPI!Next]_(MPI!vars)
<1>0. /\ TypeOK /\ sends' = [sends EXCEPT ![s] = @ + 1]
      /\ UNCHANGED <<pending, cant, unexpected, pc>> /\ UNCHANGED receives
  BY DEF IInv, Send
<1>1. Posted' = Posted /\ UNCHANGED <<posts, took>>
  BY <1>0, ReceivesStay
<1>2. posted' = posted
  BY <1>1 DEF posted
<1>3. ASSUME NEW tag \in MessageTags,
             net' = [net EXCEPT ![s] = @ \union {[s |-> s, tag |-> tag, k |-> sends'[s]]}]
      PROVE  MPI!Send(s)
  <2>1. PICK m : m = [s |-> s, tag |-> tag, k |-> sends'[s]]
    OBVIOUS
  <2>2. m.s = s /\ m.tag = tag /\ m.k = sends'[s]
    BY <2>1
  <2>3. \A p \in Senders : net'[p] = IF p = s THEN net[p] \union {m} ELSE net[p]
    BY <1>0, <1>3, <2>1 DEF TypeOK
  <2>4. Untaken(s)' = Untaken(s) \union {m}
    <3>. DEFINE rest == cant[s] \union {e.m : e \in unexpected[s]}
                        \union {x \in pending \union {pc[t].m : t \in Slow} : x.s = s}
    <3>1. Untaken(s) = net[s] \union rest
      BY DEF Untaken
    <3>2. Untaken(s)' = net'[s] \union rest
      BY <1>0 DEF Untaken, Slow
    <3>. HIDE DEF rest
    <3>. QED BY <2>3, <3>1, <3>2
  <2>5. \A p \in Senders : p # s => Untaken(p)' = Untaken(p)
    BY <1>0, <2>3 DEF Untaken, Slow
  <2>6. queue' = [queue EXCEPT ![s] = @ \union {[tag |-> m.tag, k |-> m.k]}]
    BY <2>4, <2>5, QueueGains
  <2>7. queue' = [queue EXCEPT ![s] = @ \union {[tag |-> tag, k |-> sends'[s]]}]
    BY <2>2, <2>6
  <2>. QED BY <1>0, <1>1, <1>2, <2>7 DEF MPI!Send, queue, posted
<1>4. CASE UNCHANGED net
  <2>1. \A p \in Senders : Untaken(p)' = Untaken(p)
    BY <1>0, <1>4 DEF Untaken, Slow
  <2>2. queue' = queue
    BY <2>1, QueueSame
  <2>. QED BY <1>0, <1>1, <1>2, <2>2 DEF MPI!SendFails, MPI!Next, queue, posted
<1>. QED BY <1>3, <1>4 DEF Send, MPI!Next

LEMMA CallbackImplements ==
  ASSUME IInv, IInv', NEW t \in Threads, Callback(t) PROVE [MPI!Next]_(MPI!vars)
<1>0. TypeOK /\ MessagesOK
  BY DEF IInv
<1>1. PICK s \in Senders : \E m \in net[s] :
        CallbackMatch(t, s, m) \/ CallbackRndv(t, s, m) \/ CallbackTooEarly(t, s, m)
  BY DEF Callback
<1>2. PICK m \in net[s] :
        CallbackMatch(t, s, m) \/ CallbackRndv(t, s, m) \/ CallbackTooEarly(t, s, m)
  BY <1>1
<1>3. /\ net' = [net EXCEPT ![s] = @ \ {m}] /\ pc[t] = Idle
      /\ UNCHANGED sends
  BY <1>2 DEF CallbackMatch, CallbackRndv, CallbackTooEarly, Arrive, Free
<1>4. /\ m \in Carried /\ m.s = s /\ m \in Message /\ Held(t) = {}
      /\ m \in UNION {net[p] : p \in Senders}
      /\ \A p \in Senders : net'[p] \union {m} = net[p] \union {m}
  BY <1>0, <1>3, IdlePlace DEF Carried, MessagesOK, TypeOK, Held, Slow
<1>5. CASE /\ hdr_seq(m) = expected_sequence(s) /\ match_one(s, m)
           /\ Progress(t, s, Matched, "idle") /\ UNCHANGED <<cant, marked>> /\ UNCHANGED pending
  <2>. DEFINE place == [at |-> "progress", s |-> s, matched |-> {x.seq : x \in Matched},
                        next |-> "idle"]
  <2>1. place \in Place /\ place.at # "slow"
    BY <1>0, <1>4, <1>5, MatchOneTypes, PlaceTypes
  <2>2. Goto(t, place)
    BY <1>5 DEF Progress
  <2>. HIDE DEF place
  <2>3. Carried' \union {m} = Carried
    BY <1>0, <1>4, <1>5, <2>1, <2>2, CarriedMoves
  <2>4. m.k = accepted[s] + 1
    BY <1>0, <1>4, <1>5, CarriedFacts
  <2>. QED BY <1>3, <1>4, <1>5, <2>3, <2>4, MatchImplements
<1>6. CASE /\ Goto(t, [at |-> "slow", s |-> s, m |-> m]) /\ UNCHANGED <<cant, unexpected, pending>>
           /\ UNCHANGED receives
  <2>. DEFINE place == [at |-> "slow", s |-> s, m |-> m]
  <2>1. place \in Place /\ place.at = "slow" /\ place.m = m
    BY <1>4, PlaceTypes
  <2>2. Goto(t, place)
    BY <1>6
  <2>. HIDE DEF place
  <2>3. Carried' \union {m} = Carried /\ m \in Carried'
    BY <1>0, <1>4, <1>6, <2>1, <2>2, CarriedMoves
  <2>. QED BY <1>3, <1>4, <1>6, <2>3, MoveImplements, ReceivesStay
<1>7. CASE /\ pending' = pending \union {m} /\ UNCHANGED <<cant, unexpected, pc>>
           /\ UNCHANGED receives
  <2>1. Goto(t, Idle)
    BY <1>0, <1>3, <1>7 DEF Goto, TypeOK
  <2>2. Carried' \union {m} = Carried /\ m \in Carried'
    BY <1>0, <1>4, <1>7, <2>1, IdlePlace, CarriedMoves
  <2>. QED BY <1>3, <1>4, <1>7, <2>2, MoveImplements, ReceivesStay
<1>8. CASE CallbackMatch(t, s, m)
  BY <1>5, <1>6, <1>8, Zenon DEF CallbackMatch, Arrive
<1>9. CASE CallbackRndv(t, s, m)
  BY <1>6, <1>9, Zenon DEF CallbackRndv, Arrive
<1>10. CASE CallbackTooEarly(t, s, m)
  BY <1>7, <1>10 DEF CallbackTooEarly
<1>. QED BY <1>2, <1>8, <1>9, <1>10

LEMMA RecvFragImplements ==
  ASSUME IInv, IInv', NEW t \in Threads, RecvFragMatch(t) PROVE [MPI!Next]_(MPI!vars)
<1>0. TypeOK /\ MessagesOK /\ ThreadOK(t, pc[t]) /\ pc[t] \in Place
  BY ThreadFacts
<1>1. PICK s \in Senders, m \in Message : s = pc[t].s /\ m = pc[t].m /\ m.s = s
  BY <1>0, PlaceFields DEF RecvFragMatch, ThreadOK
<1>2. /\ Held(t) = {m} /\ m \in Carried
      /\ UNCHANGED <<pending, net, sends>>
  BY <1>1 DEF RecvFragMatch, Held, Slow, Carried
<1>3. CASE /\ hdr_seq(m) = expected_sequence(s) /\ match_one(s, m)
           /\ Progress(t, s, Matched, "check") /\ UNCHANGED <<cant, marked>>
  <2>. DEFINE place == [at |-> "progress", s |-> s, matched |-> {x.seq : x \in Matched},
                        next |-> "check"]
  <2>1. place \in Place /\ place.at # "slow"
    BY <1>0, <1>3, MatchOneTypes, PlaceTypes
  <2>2. Goto(t, place)
    BY <1>3 DEF Progress
  <2>. HIDE DEF place
  <2>3. Carried' \union {m} = Carried
    BY <1>0, <1>2, <1>3, <2>1, <2>2, CarriedMoves
  <2>4. m.k = accepted[s] + 1
    BY <1>0, <1>1, <1>2, <1>3, CarriedFacts
  <2>. QED BY <1>1, <1>2, <1>3, <2>3, <2>4, MatchImplements
<1>4. CASE /\ cant' = [cant EXCEPT ![s] = @ \union {m}] /\ Goto(t, Idle)
           /\ UNCHANGED unexpected /\ UNCHANGED receives
  <2>1. /\ \A p \in Senders : cant'[p] \union {m} = cant[p] \union {m}
        /\ m \in cant'[s]
    BY <1>0, <1>4 DEF TypeOK
  <2>2. Carried' \union {m} = Carried /\ m \in Carried'
    BY <1>0, <1>2, <1>4, <2>1, IdlePlace, CarriedMoves
  <2>. QED BY <1>2, <1>4, <2>2, MoveImplements, ReceivesStay
<1>. QED BY <1>1, <1>3, <1>4, Zenon DEF RecvFragMatch

LEMMA SearchImplements ==
  ASSUME IInv, IInv', NEW t \in Threads, SearchCantMatch(t) PROVE [MPI!Next]_(MPI!vars)
<1>0. TypeOK /\ MessagesOK /\ pc[t] \in Place
  BY ThreadFacts
<1>1. PICK s \in Senders : s = pc[t].s /\ pc[t].at = "search"
  BY <1>0, PlaceFields DEF SearchCantMatch
<1>2. Held(t) = {} /\ t \notin Slow /\ UNCHANGED <<pending, net, sends>>
  BY <1>1 DEF SearchCantMatch, Held, Slow
<1>3. ASSUME NEW m \in NextOf(s), cant' = [cant EXCEPT ![s] = @ \ {m}], match_one(s, m),
             Progress(t, s, Matched, "check"), UNCHANGED marked
      PROVE  [MPI!Next]_(MPI!vars)
  <2>0. /\ m \in Message /\ m.s = s /\ m \in Carried /\ hdr_seq(m) = expected_sequence(s)
        /\ m \in UNION {cant[p] : p \in Senders}
        /\ \A p \in Senders : cant'[p] \union {m} = cant[p] \union {m}
    BY <1>0, <1>3 DEF NextOf, Carried, MessagesOK, TypeOK
  <2>. DEFINE place == [at |-> "progress", s |-> s, matched |-> {x.seq : x \in Matched},
                        next |-> "check"]
  <2>1. place \in Place /\ place.at # "slow"
    BY <1>0, <1>3, <2>0, MatchOneTypes, PlaceTypes
  <2>2. Goto(t, place)
    BY <1>3 DEF Progress
  <2>. HIDE DEF place
  <2>3. Carried' \union {m} = Carried
    BY <1>0, <1>2, <2>0, <2>1, <2>2, CarriedMoves
  <2>4. m.k = accepted[s] + 1
    BY <1>0, <2>0, CarriedFacts
  <2>. QED BY <1>2, <1>3, <2>0, <2>3, <2>4, MatchImplements
<1>4. CASE Goto(t, Idle) /\ UNCHANGED <<cant, unexpected>> /\ UNCHANGED receives
  <2>1. Carried' = Carried
    BY <1>0, <1>2, <1>4, IdlePlace, CarriedStays
  <2>. QED BY <1>2, <1>4, <2>1, QuietImplements, ReceivesStay
<1>. QED BY <1>1, <1>3, <1>4, Zenon DEF SearchCantMatch

LEMMA AddFragmentImplements ==
  ASSUME IInv, IInv', NEW t \in Threads, AddFragment(t) PROVE [MPI!Next]_(MPI!vars)
<1>0. TypeOK /\ MessagesOK /\ pc[t] \in Place
  BY ThreadFacts
<1>1. PICK m \in pending :
        /\ \/ /\ Keep(m.s, m)
              /\ Goto(t, [at |-> "adding next", s |-> m.s])
              /\ UNCHANGED cant
           \/ /\ cant' = [cant EXCEPT ![m.s] = @ \union {m}]
              /\ UNCHANGED <<unexpected, pc>>
        /\ pending' = pending \ {m}
  BY DEF AddFragment
<1>2. /\ pc[t].at = "adding" /\ Held(t) = {} /\ m \in Carried /\ m \in Message /\ m.s \in Senders
      /\ UNCHANGED <<net, sends>> /\ UNCHANGED receives
      /\ pending' \union {m} = pending \union {m}
  BY <1>0, <1>1 DEF AddFragment, Held, Slow, Carried, TypeOK, Message
<1>3. CASE Keep(m.s, m) /\ Goto(t, [at |-> "adding next", s |-> m.s]) /\ UNCHANGED cant
  <2>. DEFINE place == [at |-> "adding next", s |-> m.s]
  <2>1. place \in Place /\ place.at # "slow" /\ Goto(t, place)
    BY <1>2, <1>3, PlaceTypes
  <2>. HIDE DEF place
  <2>2. Carried' \union {m} = Carried
    BY <1>0, <1>2, <1>3, <2>1, CarriedMoves
  <2>. QED BY <1>2, <1>3, <2>2, MoveImplements, ReceivesStay
<1>4. CASE cant' = [cant EXCEPT ![m.s] = @ \union {m}] /\ UNCHANGED <<unexpected, pc>>
  <2>1. Goto(t, pc[t]) /\ pc[t].at # "slow"
    BY <1>0, <1>2, <1>4 DEF Goto, TypeOK
  <2>2. /\ \A p \in Senders : cant'[p] \union {m} = cant[p] \union {m}
        /\ m \in cant'[m.s]
    BY <1>0, <1>2, <1>4 DEF TypeOK
  <2>3. PICK place \in Place : place = pc[t]
    BY <1>0
  <2>4. Carried' \union {m} = Carried /\ m \in Carried'
    BY <1>0, <1>2, <1>4, <2>1, <2>2, <2>3, CarriedMoves
  <2>. QED BY <1>2, <1>4, <2>4, MoveImplements, ReceivesStay
<1>. QED BY <1>1, <1>3, <1>4

LEMMA AddNextImplements ==
  ASSUME IInv, IInv', NEW t \in Threads, AddNext(t) PROVE [MPI!Next]_(MPI!vars)
<1>0. TypeOK /\ MessagesOK /\ pc[t] \in Place
  BY ThreadFacts
<1>1. PICK s \in Senders : s = pc[t].s /\ pc[t].at = "adding next"
  BY <1>0, PlaceFields DEF AddNext
<1>2. /\ Held(t) = {} /\ t \notin Slow /\ UNCHANGED <<net, sends, pending>> /\ UNCHANGED receives
  BY <1>1 DEF AddNext, Held, Slow
<1>3. ASSUME NEW m \in NextOf(s), Keep(s, m), cant' = [cant EXCEPT ![s] = @ \ {m}], UNCHANGED pc
      PROVE  [MPI!Next]_(MPI!vars)
  <2>1. /\ m \in Message /\ m.s = s /\ m \in Carried
        /\ m \in UNION {cant[p] : p \in Senders}
        /\ \A p \in Senders : cant'[p] \union {m} = cant[p] \union {m}
    BY <1>0, <1>3 DEF NextOf, Carried, MessagesOK, TypeOK
  <2>2. PICK place \in Place : place = pc[t]
    BY <1>0
  <2>3. Goto(t, place) /\ place.at # "slow"
    BY <1>0, <1>1, <1>3, <2>2 DEF Goto, TypeOK
  <2>4. Carried' \union {m} = Carried
    BY <1>0, <1>2, <2>1, <2>3, CarriedMoves
  <2>. QED BY <1>2, <1>3, <2>1, <2>4, MoveImplements, ReceivesStay
<1>4. CASE Goto(t, [at |-> "adding"]) /\ UNCHANGED <<unexpected, cant>>
  <2>1. [at |-> "adding"] \in Place /\ [at |-> "adding"].at # "slow"
    BY PlaceTypes
  <2>2. Carried' = Carried
    BY <1>0, <1>2, <1>4, <2>1, CarriedStays
  <2>. QED BY <1>2, <1>4, <2>2, QuietImplements, ReceivesStay
<1>. QED BY <1>1, <1>3, <1>4, Zenon DEF AddNext

\* A receive that is posted takes the first message of a sender it accepts, and there
\* was none posted before it for that message.
LEMMA PostImplements ==
  ASSUME IInv, IInv', NEW t \in Threads, Post(t) PROVE [MPI!Next]_(MPI!vars)
<1>0. /\ TypeOK /\ MessagesOK /\ ReceivesOK /\ NoMissedMatch /\ posts' = posts + 1
      /\ UNCHANGED <<pending, net, sends, cant, pc>>
  BY DEF IInv, Post
<1>1. PICK r \in Receive :
        /\ r.seq = posts
        /\ \/ /\ Found(r) = {}
              /\ \/ /\ wild' = wild \union {r} /\ r.src = AnySource
                    /\ UNCHANGED specific
                 \/ /\ specific' = [specific EXCEPT ![r.src] = @ \union {r}]
                    /\ r.src # AnySource
                    /\ UNCHANGED wild
              /\ UNCHANGED <<unexpected, took, marked>>
           \/ UNCHANGED <<specific, wild, unexpected, took, marked>>
           \/ \E e \in Found(r) :
                /\ unexpected' = [unexpected EXCEPT ![e.m.s] = @ \ {e}]
                /\ took' = took \union {[seq |-> r.seq, s |-> e.m.s, k |-> e.m.k]}
                /\ marked' = marked \union {r.seq}
                /\ r.probe = FALSE
                /\ UNCHANGED <<specific, wild>>
  BY PostCases
<1>2. PICK g : g = [seq |-> posts, src |-> r.src, tag |-> r.tag]
  OBVIOUS
<1>3. /\ g.seq = r.seq /\ g.src = r.src /\ g.tag = r.tag
      /\ r.src \in Senders \union {AnySource} /\ r.tag \in ReceiveTags
  BY <1>1, <1>2 DEF Receive
<1>4. Carried' = Carried
  BY <1>0 DEF Carried, Slow
<1>5. CASE /\ \/ /\ wild' = wild \union {r} /\ r.src = AnySource
                 /\ UNCHANGED specific
              \/ /\ specific' = [specific EXCEPT ![r.src] = @ \union {r}]
                 /\ r.src # AnySource
                 /\ UNCHANGED wild
           /\ UNCHANGED <<unexpected, took>>
  <2>1. Queued' = Queued \union {r}
    <3>1. CASE wild' = wild \union {r} /\ UNCHANGED specific
      BY <3>1 DEF Queued
    <3>2. CASE specific' = [specific EXCEPT ![r.src] = @ \union {r}] /\ UNCHANGED wild
               /\ r.src \in Senders
      <4>1. \A p \in Senders : specific'[p] = IF p = r.src THEN specific[p] \union {r} ELSE specific[p]
        BY <1>0, <3>2 DEF TypeOK
      <4>2. \A q \in Queued' : q \in Queued \union {r}
        BY <3>2, <4>1 DEF Queued
      <4>3. \A q \in Queued \union {r} : q \in Queued'
        BY <3>2, <4>1 DEF Queued
      <4>. QED BY <4>2, <4>3
    <3>. QED BY <1>3, <1>5, <3>1, <3>2
  <2>2. \A s \in Senders : Untaken(s)' = Untaken(s)
    BY <1>0, <1>5 DEF Untaken, Slow
  <2>3. queue' = queue
    BY <2>2, QueueSame
  <2>4. CASE r.probe
    <3>1. posted' = posted
      BY <2>1, <2>4 DEF Posted, posted
    <3>. QED BY <1>0, <1>5, <2>3, <3>1 DEF MPI!Next, MPI!Probe, queue, posted
  <2>5. CASE ~r.probe
    <3>1. Posted' = Posted \union {r}
      BY <2>1, <2>5 DEF Posted
    <3>2. posted' = posted \union {g}
      <4>1. \A x \in posted' : x \in posted \/ x = g
        BY <1>1, <1>2, <3>1 DEF posted
      <4>2. posted \subseteq posted' /\ g \in posted'
        BY <1>1, <1>2, <3>1 DEF posted
      <4>. QED BY <4>1, <4>2
    <3>3. MPI!Post
      BY <1>0, <1>2, <1>3, <1>5, <2>3, <3>2 DEF MPI!Post, queue, posted
    <3>. QED BY <3>3 DEF MPI!Next
  <2>. QED BY <2>4, <2>5
<1>6. CASE UNCHANGED <<specific, wild, unexpected, took>>
  <2>1. \A s \in Senders : Untaken(s)' = Untaken(s)
    BY <1>0, <1>6 DEF Untaken, Slow
  <2>2. queue' = queue
    BY <2>1, QueueSame
  <2>3. posted' = posted
    BY <1>6 DEF posted, Posted, Queued
  <2>. QED BY <1>0, <1>6, <2>2, <2>3 DEF MPI!Next, MPI!Probe, queue, posted
<1>7. ASSUME NEW e \in Found(r),
             unexpected' = [unexpected EXCEPT ![e.m.s] = @ \ {e}],
             took' = took \union {[seq |-> r.seq, s |-> e.m.s, k |-> e.m.k]},
             UNCHANGED <<specific, wild>>
      PROVE  [MPI!Next]_(MPI!vars)
  <2>1. PICK s \in Senders : e \in OfSender(r, s)
    BY <1>0, <1>3, <1>7, FoundTypes DEF Found
  <2>2. /\ e \in unexpected[s] /\ Accepts(r, s, e.m) /\ e.m.s = s /\ e.m.k = e.n
        /\ e.m \in Message /\ e.n \in Nat /\ accepted[s] \in Nat /\ e.n <= accepted[s]
        /\ \A d \in unexpected[s] : Accepts(r, s, d.m) => e.n <= d.n
    BY <1>0, <2>1 DEF OfSender, MessagesOK, TypeOK
  <2>3. PICK y : y = [tag |-> e.m.tag, k |-> e.m.k]
    OBVIOUS
  <2>4. y.tag = e.m.tag /\ y.k = e.m.k
    BY <2>3
  <2>5. \A p \in Senders : unexpected'[p] = IF p = s THEN unexpected[p] \ {e} ELSE unexpected[p]
    BY <1>0, <1>7, <2>2 DEF TypeOK
  <2>6. \A p \in Senders :
          /\ Untaken(p) = {m \in Carried : m.s = p} \union {d.m : d \in unexpected[p]}
          /\ Untaken(p)' = {m \in Carried : m.s = p} \union {d.m : d \in unexpected'[p]}
    <3>1. TypeOK' /\ MessagesOK'
      BY DEF IInv
    <3>. QED BY <1>0, <1>4, <3>1, UntakenParts, UntakenPartsNext
  <2>7. e.m \notin Carried /\ \A d \in unexpected[s] : d.m = e.m => d = e
    <3>1. e.m \notin Carried
      <4>. SUFFICES ASSUME e.m \in Carried PROVE FALSE
        OBVIOUS
      <4>1. e.m.k > accepted[s]
        BY <1>0, <2>2, CarriedFacts
      <4>. QED BY <2>2, <4>1
    <3>2. ASSUME NEW d \in unexpected[s], d.m = e.m PROVE d = e
      <4>1. d.m.k = d.n /\ (d.n = e.n => d = e)
        BY <1>0, <2>2, <3>2 DEF MessagesOK
      <4>. QED BY <2>2, <3>2, <4>1
    <3>. QED BY <3>1, <3>2
  <2>8. e.m \in Untaken(s) /\ Untaken(s)' = Untaken(s) \ {e.m}
    <3>1. {d.m : d \in unexpected[s] \ {e}} = {d.m : d \in unexpected[s]} \ {e.m}
      <4>1. \A x \in {d.m : d \in unexpected[s] \ {e}} : x \in {d.m : d \in unexpected[s]} /\ x # e.m
        BY <2>7
      <4>2. \A x \in {d.m : d \in unexpected[s]} : x # e.m => x \in {d.m : d \in unexpected[s] \ {e}}
        OBVIOUS
      <4>. QED BY <4>1, <4>2
    <3>2. unexpected'[s] = unexpected[s] \ {e}
      BY <2>5
    <3>3. Untaken(s)' = {m \in Carried : m.s = s} \union {d.m : d \in unexpected[s] \ {e}}
      BY <2>6, <3>2
    <3>4. e.m \in {d.m : d \in unexpected[s]}
      BY <2>2
    <3>5. e.m \notin {m \in Carried : m.s = s}
      BY <2>7
    <3>. QED BY <2>6, <3>1, <3>3, <3>4, <3>5
  <2>9. \A p \in Senders : p # s => Untaken(p)' = Untaken(p)
    <3>. SUFFICES ASSUME NEW p \in Senders, p # s PROVE Untaken(p)' = Untaken(p)
      OBVIOUS
    <3>1. unexpected'[p] = unexpected[p]
      BY <2>5
    <3>. QED BY <2>6, <3>1
  <2>10. queue' = [queue EXCEPT ![s] = @ \ {y}]
    BY <1>0, <2>3, <2>8, <2>9, QueueLoses
  <2>11. y \in queue[s]
    BY <2>3, <2>8 DEF queue
  <2>12. took' = took \union {[seq |-> g.seq, s |-> s, k |-> y.k]}
    BY <1>3, <1>7, <2>2, <2>4
  <2>13. posted' = posted
    BY <1>7 DEF posted, Posted, Queued
  <2>14. MPI!Accepts(g, s, y)
    BY <1>3, <2>2, <2>4 DEF MPI!Accepts, Accepts
  <2>15. ASSUME NEW z \in queue[s], z.k < y.k, MPI!Accepts(g, s, z) PROVE FALSE
    <3>1. PICK x \in Untaken(s) : z = [tag |-> x.tag, k |-> x.k]
      BY DEF queue
    <3>2. z.tag = x.tag /\ z.k = x.k
      BY <3>1
    <3>3. Accepts(r, s, x)
      BY <1>3, <2>15, <3>2 DEF MPI!Accepts, Accepts
    <3>4. x \notin Carried \/ x.s # s
      <4>. SUFFICES ASSUME x \in Carried, x.s = s PROVE FALSE
        OBVIOUS
      <4>1. x.k > accepted[s] /\ x.k \in Nat
        BY <1>0, CarriedFacts DEF Message
      <4>. QED BY <2>2, <2>4, <2>15, <3>2, <4>1
    <3>5. PICK d \in unexpected[s] : d.m = x
      BY <2>6, <3>4
    <3>6. e.n <= d.n /\ d.m.k = d.n /\ d.n \in Nat
      BY <1>0, <2>2, <3>3, <3>5 DEF MessagesOK, TypeOK
    <3>. QED BY <2>2, <2>4, <2>15, <3>2, <3>5, <3>6
  <2>16. ASSUME NEW h \in posted \union {g}, h.seq < g.seq, MPI!Accepts(h, s, y) PROVE FALSE
    <3>1. g.seq \in Nat
      BY <1>3 DEF Receive
    <3>2. h \in posted
      BY <2>16, <3>1
    <3>3. PICK q \in Posted : h = [seq |-> q.seq, src |-> q.src, tag |-> q.tag]
      BY <3>2 DEF posted
    <3>4. h.seq = q.seq /\ h.src = q.src /\ h.tag = q.tag
      BY <3>3
    <3>5. Accepts(q, s, e.m)
      BY <2>4, <2>16, <3>4 DEF MPI!Accepts, Accepts
    <3>. QED BY <1>0, <2>2, <3>5 DEF NoMissedMatch, Posted
  <2>17. MPI!MayTake(posted \union {g}, g, s, y)
    BY <2>14, <2>15, <2>16 DEF MPI!MayTake, queue
  <2>18. MPI!Take(g, s, y)
    BY <2>10, <2>12 DEF MPI!Take, queue
  <2>19. MPI!Post
    BY <1>0, <1>2, <1>3, <2>11, <2>13, <2>17, <2>18 DEF MPI!Post, queue, posted
  <2>. QED BY <2>19 DEF MPI!Next
<1>. QED BY <1>1, <1>5, <1>6, <1>7

LEMMA CancelImplements ==
  ASSUME IInv, IInv', NEW t \in Threads, Cancel(t) PROVE [MPI!Next]_(MPI!vars)
<1>0. TypeOK /\ MessagesOK /\ ReceivesOK /\ pc[t].at = "cancel"
  BY DEF IInv, Cancel
<1>1. PICK n : n = pc[t].n
  OBVIOUS
<1>. DEFINE mine == {r \in Queued : r.seq = n}
<1>2. /\ specific' = [s \in Senders |-> specific[s] \ mine] /\ wild' = wild \ mine
      /\ Goto(t, Idle)
      /\ UNCHANGED <<pending, net, sends, cant, unexpected, posts, took>>
  BY <1>1 DEF Cancel, messages
<1>3. Queued' = Queued \ mine
  BY <1>2 DEF Queued
<1>4. Posted' = {r \in Posted : r.seq # n}
  BY <1>3 DEF Posted
<1>5. Carried' = Carried
  BY <1>0, <1>2, IdlePlace, CarriedStays, NotSlow
<1>6. CASE \A r \in Posted : r.seq # n
  <2>1. Posted' = Posted
    BY <1>4, <1>6
  <2>. QED BY <1>2, <1>5, <2>1, QuietImplements
<1>7. ASSUME NEW r \in Posted, r.seq = n PROVE [MPI!Next]_(MPI!vars)
  <2>1. \A q \in Posted : q.seq = n => q = r
    BY <1>0, <1>7 DEF Posted, ReceivesOK
  <2>2. Posted' = Posted \ {r}
    BY <1>4, <1>7, <2>1
  <2>3. posted' = posted \ {[seq |-> r.seq, src |-> r.src, tag |-> r.tag]}
    BY <1>0, <2>2, PostedLoses
  <2>4. PICK g : g = [seq |-> r.seq, src |-> r.src, tag |-> r.tag]
    OBVIOUS
  <2>5. g \in posted
    BY <2>4 DEF posted
  <2>6. \A s \in Senders : Untaken(s)' = Untaken(s)
    <3>1. TypeOK' /\ MessagesOK'
      BY DEF IInv
    <3>. QED BY <1>0, <1>2, <1>5, <3>1, UntakenParts, UntakenPartsNext
  <2>7. queue' = queue
    BY <2>6, QueueSame
  <2>8. MPI!Cancel(g)
    BY <1>2, <2>3, <2>4, <2>7 DEF MPI!Cancel, queue, posted
  <2>. QED BY <2>5, <2>8 DEF MPI!Next, queue, posted
<1>. QED BY <1>6, <1>7

LEMMA QuietStepImplements ==
  ASSUME IInv, IInv', NEW t \in Threads,
         Mark(t) \/ CheckCantMatch(t) \/ AddComm(t) \/ Added(t) \/ \E n : CancelCheck(t, n)
  PROVE  [MPI!Next]_(MPI!vars)
<1>0. TypeOK /\ pc[t] \in Place /\ pc' \in [Threads -> Place]
  BY DEF IInv, TypeOK
<1>1. PICK place : Goto(t, place) /\ place.at # "slow"
  <2>1. CASE Mark(t)
    <3>1. pc[t].next \in {"idle", "check"}
      BY <1>0, <2>1, PlaceFields DEF Mark
    <3>. DEFINE place == IF pc[t].next = "idle" THEN Idle ELSE [at |-> pc[t].next, s |-> pc[t].s]
    <3>2. place.at # "slow"
      BY <3>1, IdlePlace
    <3>. QED BY <2>1, <3>2 DEF Mark
  <2>2. CASE CheckCantMatch(t)
    <3>. DEFINE place == IF cant[pc[t].s] = {} THEN Idle ELSE [at |-> "search", s |-> pc[t].s]
    <3>1. place.at # "slow"
      BY IdlePlace
    <3>. QED BY <2>2, <3>1 DEF CheckCantMatch
  <2>3. CASE AddComm(t)
    BY <2>3 DEF AddComm
  <2>4. CASE Added(t)
    BY <2>4, IdlePlace DEF Added
  <2>5. CASE \E n : CancelCheck(t, n)
    <3>1. PICK n : CancelCheck(t, n)
      BY <2>5
    <3>2. [at |-> "cancel", n |-> n].at # "slow"
      OBVIOUS
    <3>. QED BY <3>1, <3>2 DEF CancelCheck
  <2>. QED BY <2>1, <2>2, <2>3, <2>4, <2>5
<1>2. /\ pc[t].at # "slow"
      /\ UNCHANGED <<pending, net, sends, cant, unexpected, specific, wild, posts, took>>
  BY IdlePlace DEF Mark, CheckCantMatch, AddComm, Added, CancelCheck, Free, messages, receives
<1>3. place \in Place
  <2>1. pc'[t] = place
    BY <1>0, <1>1 DEF Goto, TypeOK
  <2>. QED BY <1>0, <2>1
<1>4. Carried' = Carried
  BY <1>0, <1>1, <1>2, <1>3, NotSlow, CarriedStays
<1>5. Posted' = Posted
  BY <1>2 DEF Posted, Queued
<1>. QED BY <1>2, <1>4, <1>5, QuietImplements

\* Whatever order messages come in, and whichever threads handle them, the matches are
\* those MPI promises: a receive takes the first message of a sender it may take, a
\* message goes to the first receive that may take it, and no message is lost, kept
\* twice or taken twice.
THEOREM MatchesInOrder == Spec => ImplementsMatching
<1>1. Init => MPI!Init
  <2>. SUFFICES ASSUME Init PROVE MPI!Init
    OBVIOUS
  <2>1. \A s \in Senders : Untaken(s) = {}
    BY IdlePlace DEF Init, Untaken, Slow
  <2>2. queue = [s \in Senders |-> {}]
    BY <2>1 DEF queue
  <2>3. posted = {}
    BY DEF posted, Posted, Queued, Init
  <2>4. sends = [s \in Senders |-> 0] /\ posts = 0 /\ took = {}
    BY DEF Init
  <2>. QED BY <2>2, <2>3, <2>4 DEF MPI!Init, queue, posted
<1>2. IInv /\ IInv' /\ [Next]_vars => [MPI!Next]_(MPI!vars)
  <2>. SUFFICES ASSUME IInv, IInv', [Next]_vars PROVE [MPI!Next]_(MPI!vars)
    OBVIOUS
  <2>1. CASE UNCHANGED vars
    <3>1. /\ UNCHANGED <<pending, net, cant, unexpected, pc, sends, posts, took>>
          /\ UNCHANGED <<specific, wild>>
      BY <2>1 DEF vars, messages, receives
    <3>2. Carried' = Carried /\ Posted' = Posted
      BY <3>1 DEF Carried, Slow, Posted, Queued
    <3>. QED BY <3>1, <3>2, QuietImplements
  <2>2. ASSUME NEW s \in Senders, Send(s) PROVE [MPI!Next]_(MPI!vars)
    BY <2>2, SendImplements
  <2>3. ASSUME NEW t \in Threads, Step(t) PROVE [MPI!Next]_(MPI!vars)
    BY <2>3, RecvFragImplements, SearchImplements, AddFragmentImplements, AddNextImplements,
       CancelImplements, QuietStepImplements DEF Step
  <2>4. ASSUME NEW t \in Threads, Callback(t) PROVE [MPI!Next]_(MPI!vars)
    BY <2>4, CallbackImplements
  <2>5. ASSUME NEW t \in Threads, Post(t) PROVE [MPI!Next]_(MPI!vars)
    BY <2>5, PostImplements
  <2>6. ASSUME NEW t \in Threads, NEW n, CancelCheck(t, n) PROVE [MPI!Next]_(MPI!vars)
    BY <2>6, QuietStepImplements
  <2>. QED BY <2>1, <2>2, <2>3, <2>4, <2>5, <2>6 DEF Next
<1>. QED BY <1>1, <1>2, Invariance, PTL DEF Spec, ImplementsMatching, MPI!Spec
=============================================================================
