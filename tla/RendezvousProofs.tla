-------------------------- MODULE RendezvousProofs --------------------------
(***************************************************************************)
(* Proofs about module Rendezvous, for any number of threads, bytes and    *)
(* descriptors: of all the threads that run the callbacks of a request     *)
(* one at most schedules or completes it.                                  *)
(***************************************************************************)
EXTENDS Rendezvous, TLAPS

-----------------------------------------------------------------------------
(* Lists of steps.                                                         *)

LEMMA StepName ==
  ASSUME NEW step \in Steps
  PROVE  /\ step[1] \in {"return", "depth", "acked", "state", "lock", "more", "once", "unlock",
                         "complete", "start", "match", "ack", "progress", "unpark", "bytes",
                         "sent", "packets", "writes", "check", "claim", "throttle", "park",
                         "queue", "unpack", "range", "postpone", "write", "fin"}
         /\ step[1] \in {"bytes", "sent", "packets", "writes"} => step[2] \in Int
         /\ step[1] \in {"check", "claim"} => step[2] \in {<<>>, <<<<"lock">>>>, <<<<"more">>>>}
         /\ step[1] = "throttle" => step[2] \in BOOLEAN
         /\ step[1] = "park" => step[2] \in {"start", "schedule"} /\ step = <<"park", step[2]>>
         /\ step[1] = "queue" => step[2] \in Pending
         /\ step[1] \in {"unpack", "range", "postpone", "write", "fin"} =>
              step[2] \in Int /\ step[3] \in Int
         /\ step[1] = "write" => step[4] \in Int
         /\ step[1] = "fin" => step[4] \in BOOLEAN
         /\ step[1] = "start" => step = <<"start">>
BY DEF Steps

LEMMA Replaced ==
  ASSUME NEW old \in Seq(Steps), old # <<>>, NEW steps \in Seq(Steps)
  PROVE  /\ steps \o Tail(old) \in Seq(Steps)
         /\ Len(steps \o Tail(old)) = Len(steps) + Len(old) - 1
         /\ \A i \in 1 .. Len(steps) : (steps \o Tail(old))[i] = steps[i]
         /\ \A i \in 2 .. Len(old) : (steps \o Tail(old))[i + Len(steps) - 1] = old[i]
         /\ \A i \in 1 .. Len(steps \o Tail(old)) :
              \/ i \in 1 .. Len(steps)
              \/ i - Len(steps) + 1 \in 2 .. Len(old) /\ (steps \o Tail(old))[i] = old[i - Len(steps) + 1]
         /\ Head(old) = old[1] /\ 1 \in DOMAIN old
OBVIOUS

\* What becomes of the ownership when a step is replaced by others.
LEMMA ReplacedOwner ==
  ASSUME NEW old \in Seq(Steps), old # <<>>, NEW steps \in Seq(Steps)
  PROVE  /\ OwnsNothing(old) /\ OwnsNothing(steps) => OwnsNothing(steps \o Tail(old))
         /\ OwnsNothing(old) /\ OwnsOnce(steps) => OwnsOnce(steps \o Tail(old))
         /\ OwnsOnce(old) /\ ~Owns(Head(old)) /\ OwnsNothing(steps) => OwnsOnce(steps \o Tail(old))
         /\ OwnsOnce(old) /\ Owns(Head(old)) /\ OwnsNothing(steps) => OwnsNothing(steps \o Tail(old))
         /\ OwnsOnce(old) /\ Owns(Head(old)) /\ OwnsOnce(steps) => OwnsOnce(steps \o Tail(old))
<1> DEFINE new == steps \o Tail(old)
<1>1. /\ new \in Seq(Steps)
      /\ Len(new) = Len(steps) + Len(old) - 1
      /\ \A i \in 1 .. Len(steps) : new[i] = steps[i]
      /\ \A i \in 2 .. Len(old) : new[i + Len(steps) - 1] = old[i]
      /\ \A i \in 1 .. Len(new) : \/ i \in 1 .. Len(steps)
                                  \/ i - Len(steps) + 1 \in 2 .. Len(old) /\ new[i] = old[i - Len(steps) + 1]
      /\ Head(old) = old[1] /\ 1 \in DOMAIN old
  BY Replaced
<1> HIDE DEF new
<1>2. /\ DOMAIN new = 1 .. Len(new) /\ DOMAIN old = 1 .. Len(old) /\ DOMAIN steps = 1 .. Len(steps)
      /\ Len(old) \in Nat /\ Len(steps) \in Nat /\ Len(old) > 0
  BY <1>1
<1>3. ASSUME OwnsNothing(steps), NEW j \in DOMAIN new, Owns(new[j])
      PROVE  j - Len(steps) + 1 \in 2 .. Len(old) /\ Owns(old[j - Len(steps) + 1])
  <2>1. CASE j \in 1 .. Len(steps)
    <3>1. new[j] = steps[j]
      BY <2>1, <1>1
    <3> QED  BY <3>1, <1>2, <2>1, <1>3 DEF OwnsNothing
  <2>2. CASE j - Len(steps) + 1 \in 2 .. Len(old) /\ new[j] = old[j - Len(steps) + 1]
    BY <2>2, <1>3
  <2> QED  BY <2>1, <2>2, <1>1, <1>2
<1>4. ASSUME \A i \in 2 .. Len(old) : ~Owns(old[i]), NEW j \in DOMAIN new, Owns(new[j])
      PROVE  j \in 1 .. Len(steps) /\ Owns(steps[j])
  <2>1. CASE j \in 1 .. Len(steps)
    <3>1. new[j] = steps[j]
      BY <2>1, <1>1
    <3> QED  BY <3>1, <2>1, <1>4
  <2>2. CASE j - Len(steps) + 1 \in 2 .. Len(old) /\ new[j] = old[j - Len(steps) + 1]
    BY <2>2, <1>4
  <2> QED  BY <2>1, <2>2, <1>1, <1>2
<1>5. ASSUME OwnsNothing(old)
      PROVE  \A i \in 2 .. Len(old) : ~Owns(old[i])
  BY <1>5, <1>2 DEF OwnsNothing
<1>6. ASSUME OwnsOnce(old), Owns(Head(old))
      PROVE  \A i \in 2 .. Len(old) : ~Owns(old[i])
  <2>1. PICK k \in 1 .. Len(old) : Owns(old[k]) /\ \A j \in 1 .. Len(old) : Owns(old[j]) => j = k
    BY <1>6, <1>2 DEF OwnsOnce
  <2>2. k = 1
    BY <2>1, <1>1, <1>2, <1>6
  <2> QED  BY <2>1, <2>2
<1>7. ASSUME \A i \in 2 .. Len(old) : ~Owns(old[i]), OwnsNothing(steps)
      PROVE  OwnsNothing(new)
  BY <1>7, <1>3 DEF OwnsNothing
<1>8. ASSUME \A i \in 2 .. Len(old) : ~Owns(old[i]), OwnsOnce(steps)
      PROVE  OwnsOnce(new)
  <2>1. PICK k \in 1 .. Len(steps) : Owns(steps[k]) /\ \A j \in 1 .. Len(steps) : Owns(steps[j]) => j = k
    BY <1>8, <1>2 DEF OwnsOnce
  <2>2. k \in DOMAIN new /\ new[k] = steps[k]
    BY <2>1, <1>1, <1>2
  <2>3. Owns(new[k])
    BY <2>1, <2>2
  <2>4. \A j \in DOMAIN new : Owns(new[j]) => j = k
    BY <2>1, <1>4, <1>8
  <2> QED  BY <2>2, <2>3, <2>4 DEF OwnsOnce
<1>9. ASSUME OwnsOnce(old), ~Owns(Head(old)), OwnsNothing(steps)
      PROVE  OwnsOnce(new)
  <2>1. PICK k \in 1 .. Len(old) : Owns(old[k]) /\ \A j \in 1 .. Len(old) : Owns(old[j]) => j = k
    BY <1>9, <1>2 DEF OwnsOnce
  <2>2. k \in 2 .. Len(old)
    BY <2>1, <1>1, <1>2, <1>9
  <2>3. k + Len(steps) - 1 \in DOMAIN new /\ new[k + Len(steps) - 1] = old[k]
    BY <2>2, <1>1, <1>2
  <2>4. Owns(new[k + Len(steps) - 1])
    BY <2>1, <2>3
  <2>5. ASSUME NEW j \in DOMAIN new, Owns(new[j])
        PROVE  j = k + Len(steps) - 1
    <3>1. j - Len(steps) + 1 = k
      BY <2>1, <1>3, <2>5, <1>9, <1>2
    <3> QED  BY <3>1, <1>2
  <2> QED  BY <2>3, <2>4, <2>5 DEF OwnsOnce
<1> QED  BY <1>5, <1>6, <1>7, <1>8, <1>9 DEF new

-----------------------------------------------------------------------------
(* The steps that callbacks are made of.                                   *)

LEMMA StepsAre ==
  /\ \A name \in {"return", "depth", "acked", "state", "lock", "more", "once", "unlock",
                  "complete", "start", "match", "ack", "progress", "unpark"} :
       <<name>> \in Steps
  /\ \A n \in Int : /\ <<"bytes", n>> \in Steps /\ <<"sent", n>> \in Steps
                    /\ <<"packets", n>> \in Steps /\ <<"writes", n>> \in Steps
  /\ \A steps \in {<<>>, <<<<"lock">>>>, <<<<"more">>>>} :
       <<"check", steps>> \in Steps /\ <<"claim", steps>> \in Steps
  /\ \A flag \in BOOLEAN : <<"throttle", flag>> \in Steps
  /\ \A what \in {"start", "schedule"} : <<"park", what>> \in Steps
  /\ \A m \in Pending : <<"queue", m>> \in Steps
  /\ \A a, n \in Int : /\ <<"unpack", a, n>> \in Steps /\ <<"range", a, n>> \in Steps
                       /\ <<"postpone", a, n>> \in Steps
  /\ \A a, n, k \in Int : <<"write", a, n, k>> \in Steps
  /\ \A a, n \in Int, flag \in BOOLEAN : <<"fin", a, n, flag>> \in Steps
BY DEF Steps

LEMMA NoStep == <<>> \in Seq(Steps) /\ OwnsNothing(<<>>)
BY DEF OwnsNothing

LEMMA OneStep ==
  ASSUME NEW step \in Steps
  PROVE  /\ <<step>> \in Seq(Steps)
         /\ ~Owns(step) => OwnsNothing(<<step>>)
         /\ Owns(step) => OwnsOnce(<<step>>)
<1>1. <<step>> \in Seq(Steps) /\ DOMAIN <<step>> = {1} /\ <<step>>[1] = step
  OBVIOUS
<1> QED  BY <1>1 DEF OwnsNothing, OwnsOnce

\* What holds of each step of two lists holds of each step of both in a row.
LEMMA Joined ==
  ASSUME NEW a \in Seq(Steps), NEW b \in Seq(Steps), OwnsNothing(a)
  PROVE  /\ a \o b \in Seq(Steps)
         /\ OwnsNothing(b) => OwnsNothing(a \o b)
         /\ OwnsOnce(b) => OwnsOnce(a \o b)
         /\ \A i \in DOMAIN (a \o b) : \/ i \in DOMAIN a /\ (a \o b)[i] = a[i]
                                       \/ i - Len(a) \in DOMAIN b /\ (a \o b)[i] = b[i - Len(a)]
<1> DEFINE c == a \o b
<1>1. /\ c \in Seq(Steps) /\ DOMAIN c = 1 .. Len(c) /\ DOMAIN a = 1 .. Len(a) /\ DOMAIN b = 1 .. Len(b)
      /\ Len(c) = Len(a) + Len(b) /\ Len(a) \in Nat /\ Len(b) \in Nat
      /\ \A i \in 1 .. Len(b) : c[i + Len(a)] = b[i]
      /\ \A i \in DOMAIN c : \/ i \in DOMAIN a /\ c[i] = a[i]
                             \/ i - Len(a) \in DOMAIN b /\ c[i] = b[i - Len(a)]
  OBVIOUS
<1> HIDE DEF c
<1>2. ASSUME NEW i \in DOMAIN c, Owns(c[i])
      PROVE  i - Len(a) \in DOMAIN b /\ Owns(b[i - Len(a)])
  <2>1. CASE i \in DOMAIN a /\ c[i] = a[i]
    BY <2>1, <1>2 DEF OwnsNothing
  <2>2. CASE i - Len(a) \in DOMAIN b /\ c[i] = b[i - Len(a)]
    BY <2>2, <1>2
  <2> QED  BY <2>1, <2>2, <1>1
<1>3. OwnsNothing(b) => OwnsNothing(c)
  BY <1>2 DEF OwnsNothing
<1>4. ASSUME OwnsOnce(b)
      PROVE  OwnsOnce(c)
  <2>1. PICK k \in DOMAIN b : Owns(b[k]) /\ \A j \in DOMAIN b : Owns(b[j]) => j = k
    BY <1>4 DEF OwnsOnce
  <2>2. k + Len(a) \in DOMAIN c /\ c[k + Len(a)] = b[k]
    BY <1>1
  <2>3. Owns(c[k + Len(a)])
    BY <2>1, <2>2
  <2>4. ASSUME NEW i \in DOMAIN c, Owns(c[i])
        PROVE  i = k + Len(a)
    <3>1. i - Len(a) = k
      BY <2>1, <1>2, <2>4
    <3> QED  BY <3>1, <1>1
  <2> QED  BY <2>2, <2>3, <2>4 DEF OwnsOnce
<1> QED  BY <1>1, <1>3, <1>4 DEF c

LEMMA HandlerSteps ==
  ASSUME NEW m \in OnTheNet, job.length \in Int
  PROVE  Handler(m) \in Seq(Steps) /\ OwnsNothing(Handler(m))
<1>1. /\ m.type \in {"rndv", "ack", "frag", "put", "fin"}
      /\ m.at \in Int /\ m.len \in Int /\ m.flag \in BOOLEAN
  BY DEF OnTheNet, Messages
<1>2. CASE m.type = "rndv"
  BY <1>2, OneStep, StepsAre DEF Handler, Owns
<1>3. CASE m.type = "ack"
  <2>1. Handler(m) = << <<"throttle", m.flag>>, <<"range", m.at, job.length - m.at>>,
                        <<"acked">>, <<"check", <<<<"lock">>>>>> >>
    BY <1>3 DEF Handler, CheckOr
  <2>2. <<"throttle", m.flag>> \in Steps
    BY <1>1, StepsAre
  <2>3. <<"range", m.at, job.length - m.at>> \in Steps
    <3>1. job.length - m.at \in Int
      BY <1>1
    <3> QED  BY <3>1, <1>1, StepsAre
  <2>4. <<"acked">> \in Steps /\ <<"check", <<<<"lock">>>>>> \in Steps
    BY StepsAre
  <2> QED  BY <2>1, <2>2, <2>3, <2>4 DEF OwnsNothing, Owns
<1>4. CASE m.type = "frag"
  <2>1. Handler(m) = << <<"unpack", m.at, m.len>>, <<"bytes", m.len>>, <<"check", <<<<"more">>>>>> >>
    BY <1>4 DEF Handler, CheckOr
  <2>2. /\ <<"unpack", m.at, m.len>> \in Steps /\ <<"bytes", m.len>> \in Steps
        /\ <<"check", <<<<"more">>>>>> \in Steps
    BY <1>1, StepsAre
  <2> QED  BY <2>1, <2>2 DEF OwnsNothing, Owns
<1>5. CASE m.type = "put"
  <2> DEFINE first == IF m.flag THEN <<<<"state">>>> ELSE <<>>
             second == <<<<"write", m.at, m.len, 0>>>>
  <2>1. Handler(m) = first \o second
    BY <1>5 DEF Handler
  <2>2. first \in Seq(Steps) /\ OwnsNothing(first)
    <3>1. <<"state">> \in Steps /\ ~Owns(<<"state">>)
      BY StepsAre DEF Owns
    <3> QED  BY <3>1, OneStep, NoStep
  <2>3. second \in Seq(Steps) /\ OwnsNothing(second)
    <3>1. 0 \in Int
      OBVIOUS
    <3>2. <<"write", m.at, m.len, 0>> \in Steps
      BY <1>1, <3>1, StepsAre
    <3>3. ~Owns(<<"write", m.at, m.len, 0>>)
      BY DEF Owns
    <3> QED  BY <3>2, <3>3, OneStep
  <2> HIDE DEF first, second
  <2> QED  BY <2>1, <2>2, <2>3, Joined
<1>6. CASE m.type = "fin"
  <2>1. Handler(m) = << <<"depth">>, <<"bytes", IF m.flag THEN m.len ELSE 0>>,
                        <<"check", <<<<"more">>>>>>, <<"progress">> >>
    BY <1>6 DEF Handler, CheckOr
  <2>2. <<"depth">> \in Steps /\ <<"check", <<<<"more">>>>>> \in Steps /\ <<"progress">> \in Steps
    BY StepsAre
  <2>3. <<"bytes", IF m.flag THEN m.len ELSE 0>> \in Steps
    <3>1. (IF m.flag THEN m.len ELSE 0) \in Int
      BY <1>1
    <3> QED  BY <3>1, StepsAre
  <2> QED  BY <2>1, <2>2, <2>3 DEF OwnsNothing, Owns
<1> QED  BY <1>1, <1>2, <1>3, <1>4, <1>5, <1>6

LEMMA CallbackSteps ==
  ASSUME NEW m \in InUse
  PROVE  Callback(m) \in Seq(Steps) /\ OwnsNothing(Callback(m))
<1>1. /\ m.type \in {"rndv", "ack", "frag", "put", "fin", "write", "other"}
      /\ m.at \in Int /\ m.len \in Int /\ m.flag \in BOOLEAN
  BY DEF InUse, Messages
<1>2. /\ <<"bytes", m.len>> \in Steps /\ <<"state">> \in Steps /\ <<"check", <<>>>> \in Steps
      /\ <<"check", <<<<"lock">>>>>> \in Steps /\ <<"progress">> \in Steps /\ <<"depth">> \in Steps
      /\ <<"fin", m.at, m.len, TRUE>> \in Steps
  BY <1>1, StepsAre
<1>3. CASE m.type = "rndv"
  <2>1. Callback(m) = << <<"bytes", m.len>>, <<"state">>, <<"check", <<>>>>, <<"progress">> >>
    BY <1>3 DEF Callback, CheckOr
  <2> QED  BY <2>1, <1>2 DEF OwnsNothing, Owns
<1>4. CASE m.type = "frag"
  <2>1. Callback(m) = << <<"depth">>, <<"bytes", m.len>>, <<"check", <<<<"lock">>>>>>, <<"progress">> >>
    BY <1>4 DEF Callback, CheckOr
  <2> QED  BY <2>1, <1>2 DEF OwnsNothing, Owns
<1>5. CASE m.type = "write"
  <2>1. Callback(m) = << <<"fin", m.at, m.len, TRUE>>, <<"bytes", m.len>>, <<"check", <<>>>>, <<"progress">> >>
    BY <1>5 DEF Callback, CheckOr
  <2> QED  BY <2>1, <1>2 DEF OwnsNothing, Owns
<1>6. CASE m.type \notin {"rndv", "frag", "write"}
  <2>1. Callback(m) = << <<"progress">> >>
    BY <1>6 DEF Callback
  <2> QED  BY <2>1, <1>2 DEF OwnsNothing, Owns
<1> QED  BY <1>3, <1>4, <1>5, <1>6

-----------------------------------------------------------------------------
(* The threads.                                                            *)

LEMMA ThreadsStay == ASSUME job' = job PROVE Threads' = Threads
BY DEF Threads

LEMMA NotBoth == ASSUME NEW p \in Sides, OneThreadOwns(p) PROVE ~NoThreadOwns(p)
BY DEF OneThreadOwns, NoThreadOwns, OwnsOnce, OwnsNothing

\* A thread with a step that owns is the one that owns.
LEMMA OwnerIs ==
  ASSUME NEW p \in Sides, OneThreadOwns(p) \/ NoThreadOwns(p),
         NEW t \in Threads, Side(t) = p, NEW i \in DOMAIN todo[t], Owns(todo[t][i])
  PROVE  OneThreadOwns(p) /\ OwnsOnce(todo[t])
BY DEF OneThreadOwns, NoThreadOwns, OwnsNothing

\* The list of one thread changes.
LEMMA OwnersAfter ==
  ASSUME NEW t \in Threads, todo \in [Threads -> Seq(Steps)], NEW new \in Seq(Steps), job' = job,
         todo' = [todo EXCEPT ![t] = new], NEW p \in Sides
  PROVE  /\ (todo \in [Threads -> Seq(Steps)])'
         /\ p # Side(t) => /\ NoThreadOwns(p) => NoThreadOwns(p)'
                           /\ OneThreadOwns(p) => OneThreadOwns(p)'
         /\ NoThreadOwns(p) /\ OwnsNothing(new) => NoThreadOwns(p)'
         /\ NoThreadOwns(p) /\ p = Side(t) /\ OwnsOnce(new) => OneThreadOwns(p)'
         /\ /\ OneThreadOwns(p) /\ (OwnsOnce(todo[t]) => OwnsOnce(new))
            /\ OwnsNothing(todo[t]) => OwnsNothing(new)
            => OneThreadOwns(p)'
         /\ OneThreadOwns(p) /\ p = Side(t) /\ OwnsOnce(todo[t]) /\ OwnsNothing(new) => NoThreadOwns(p)'
<1>1. Threads' = Threads
  BY ThreadsStay
<1>2. \A u \in Threads : todo'[u] = IF u = t THEN new ELSE todo[u]
  OBVIOUS
<1>3. (todo \in [Threads -> Seq(Steps)])'
  BY <1>1
<1>4. ASSUME p # Side(t), NoThreadOwns(p) PROVE NoThreadOwns(p)'
  BY <1>1, <1>2, <1>4 DEF NoThreadOwns
<1>5. ASSUME NoThreadOwns(p), OwnsNothing(new) PROVE NoThreadOwns(p)'
  BY <1>1, <1>2, <1>5 DEF NoThreadOwns
<1>6. ASSUME NoThreadOwns(p), p = Side(t), OwnsOnce(new) PROVE OneThreadOwns(p)'
  <2>1. OwnsOnce(todo'[t])
    BY <1>2, <1>6
  <2>2. \A u \in Threads : Side(u) = p /\ u # t => OwnsNothing(todo'[u])
    BY <1>2, <1>6 DEF NoThreadOwns
  <2> QED  BY <1>1, <1>6, <2>1, <2>2 DEF OneThreadOwns
<1>7. ASSUME OneThreadOwns(p)
      PROVE  /\ p # Side(t) => OneThreadOwns(p)'
             /\ (OwnsOnce(todo[t]) => OwnsOnce(new)) /\ (OwnsNothing(todo[t]) => OwnsNothing(new))
                => OneThreadOwns(p)'
             /\ p = Side(t) /\ OwnsOnce(todo[t]) /\ OwnsNothing(new) => NoThreadOwns(p)'
  <2>1. PICK u \in Threads : /\ Side(u) = p /\ OwnsOnce(todo[u])
                             /\ \A v \in Threads : Side(v) = p /\ v # u => OwnsNothing(todo[v])
    BY <1>7 DEF OneThreadOwns
  <2>2. ASSUME p # Side(t) PROVE OneThreadOwns(p)'
    <3>1. OwnsOnce(todo'[u]) /\ \A v \in Threads : Side(v) = p /\ v # u => OwnsNothing(todo'[v])
      BY <1>2, <2>1, <2>2
    <3> QED  BY <1>1, <2>1, <3>1 DEF OneThreadOwns
  <2>3. ASSUME OwnsOnce(todo[t]) => OwnsOnce(new), OwnsNothing(todo[t]) => OwnsNothing(new)
        PROVE  OneThreadOwns(p)'
    <3>1. OwnsOnce(todo'[u]) /\ \A v \in Threads : Side(v) = p /\ v # u => OwnsNothing(todo'[v])
      BY <1>2, <2>1, <2>3
    <3> QED  BY <1>1, <2>1, <3>1 DEF OneThreadOwns
  <2>4. ASSUME p = Side(t), OwnsOnce(todo[t]), OwnsNothing(new) PROVE NoThreadOwns(p)'
    <3>1. t = u
      BY <2>1, <2>4 DEF OwnsOnce, OwnsNothing
    <3> QED  BY <1>1, <1>2, <2>1, <2>4, <3>1 DEF NoThreadOwns
  <2> QED  BY <2>2, <2>3, <2>4
<1> QED  BY <1>3, <1>4, <1>5, <1>6, <1>7

LEMMA StartsOwn == ASSUME NEW step, Starts(step) PROVE Owns(step)
BY DEF Starts, Owns

\* Where the steps come from when a thread goes on.
LEMMA StepsAfter ==
  ASSUME NEW t \in Threads, todo \in [Threads -> Seq(Steps)], todo[t] # <<>>,
         NEW steps \in Seq(Steps), job' = job, Goto(t, steps)
  PROVE  /\ \A u \in Threads : \A i \in DOMAIN todo'[u] :
              \/ u = t /\ \E k \in DOMAIN steps : todo'[u][i] = steps[k]
              \/ \E j \in DOMAIN todo[u] : (u = t => j # 1) /\ todo'[u][i] = todo[u][j]
         /\ \A u \in Threads : \A j \in DOMAIN todo[u] :
              (u = t /\ j = 1) \/ \E i \in DOMAIN todo'[u] : todo'[u][i] = todo[u][j]
<1> DEFINE old == todo[t]
           new == steps \o Tail(old)
<1>1. \A u \in Threads : todo'[u] = IF u = t THEN new ELSE todo[u]
  BY DEF Goto
<1>2. old \in Seq(Steps) /\ old # <<>> /\ DOMAIN old = 1 .. Len(old) /\ Len(old) \in Nat
      /\ DOMAIN steps = 1 .. Len(steps) /\ Len(steps) \in Nat
  OBVIOUS
<1>3. /\ new \in Seq(Steps) /\ DOMAIN new = 1 .. Len(new)
      /\ Len(new) = Len(steps) + Len(old) - 1
      /\ \A i \in 1 .. Len(steps) : new[i] = steps[i]
      /\ \A i \in 2 .. Len(old) : new[i + Len(steps) - 1] = old[i]
      /\ \A i \in 1 .. Len(new) : \/ i \in 1 .. Len(steps)
                                  \/ i - Len(steps) + 1 \in 2 .. Len(old) /\ new[i] = old[i - Len(steps) + 1]
  BY <1>2, Replaced
<1> HIDE DEF new, old
<1>4. ASSUME NEW i \in DOMAIN new
      PROVE  \/ \E k \in DOMAIN steps : new[i] = steps[k]
             \/ \E j \in DOMAIN old : j # 1 /\ new[i] = old[j]
  <2>1. CASE i \in 1 .. Len(steps)
    BY <2>1, <1>3, <1>2
  <2>2. CASE i - Len(steps) + 1 \in 2 .. Len(old) /\ new[i] = old[i - Len(steps) + 1]
    <3>1. i - Len(steps) + 1 \in DOMAIN old /\ i - Len(steps) + 1 # 1
      BY <2>2, <1>2
    <3> QED  BY <3>1, <2>2
  <2> QED  BY <2>1, <2>2, <1>3
<1>5. ASSUME NEW j \in DOMAIN old, j # 1
      PROVE  \E i \in DOMAIN new : new[i] = old[j]
  <2>1. j \in 2 .. Len(old) /\ j + Len(steps) - 1 \in DOMAIN new
    BY <1>5, <1>2, <1>3
  <2> QED  BY <2>1, <1>3
<1>6. ASSUME NEW u \in Threads, NEW i \in DOMAIN todo'[u]
      PROVE  \/ u = t /\ \E k \in DOMAIN steps : todo'[u][i] = steps[k]
             \/ \E j \in DOMAIN todo[u] : (u = t => j # 1) /\ todo'[u][i] = todo[u][j]
  <2>1. CASE u = t
    BY <2>1, <1>1, <1>4, <1>6 DEF old
  <2>2. CASE u # t
    BY <2>2, <1>1, <1>6
  <2> QED  BY <2>1, <2>2
<1>7. ASSUME NEW u \in Threads, NEW j \in DOMAIN todo[u], ~(u = t /\ j = 1)
      PROVE  \E i \in DOMAIN todo'[u] : todo'[u][i] = todo[u][j]
  <2>1. CASE u = t
    BY <2>1, <1>1, <1>5, <1>7 DEF old
  <2>2. CASE u # t
    BY <2>2, <1>1, <1>7
  <2> QED  BY <2>1, <2>2
<1> QED  BY <1>6, <1>7

\* A step that owns nothing makes way for others that own nothing.
LEMMA PlainStep ==
  ASSUME IInv, NEW t \in Threads, todo[t] # <<>>, ~Owns(Head(todo[t])),
         NEW steps \in Seq(Steps), OwnsNothing(steps), Goto(t, steps),
         UNCHANGED <<job, parked, completed>>,
         \A p \in Sides : lock'[p] > 0 <=> lock[p] > 0,
         ranges # <<>> => ranges' # <<>>
  PROVE  (todo \in [Threads -> Seq(Steps)])' /\ OneHolder' /\ RangeInHand' /\ (Starting' <=> Starting)
<1> DEFINE new == steps \o Tail(todo[t])
<1>1. todo \in [Threads -> Seq(Steps)]
  BY DEF IInv, TypeOK
<1>2. new \in Seq(Steps) /\ todo' = [todo EXCEPT ![t] = new] /\ todo[t] \in Seq(Steps)
  BY <1>1, Replaced DEF Goto
<1>3. (OwnsOnce(todo[t]) => OwnsOnce(new)) /\ (OwnsNothing(todo[t]) => OwnsNothing(new))
  BY <1>1, ReplacedOwner
<1> HIDE DEF new
<1>4. Threads' = Threads
  BY ThreadsStay
<1>5. Head(todo[t]) = todo[t][1]
  BY <1>1
<1>6. Starting' => Starting
  <2>0. \A u \in Threads : \A i \in DOMAIN todo'[u] :
          \/ u = t /\ \E k \in DOMAIN steps : todo'[u][i] = steps[k]
          \/ \E j \in DOMAIN todo[u] : (u = t => j # 1) /\ todo'[u][i] = todo[u][j]
    BY <1>1, StepsAfter
  <2>1. ASSUME NEW u \in Threads, NEW i \in DOMAIN todo'[u], Starts(todo'[u][i])
        PROVE  \E j \in DOMAIN todo[u] : Starts(todo[u][j])
    <3>1. Owns(todo'[u][i])
      BY <2>1, StartsOwn
    <3>2. ~(\E k \in DOMAIN steps : todo'[u][i] = steps[k])
      BY <3>1 DEF OwnsNothing
    <3>3. \E j \in DOMAIN todo[u] : todo'[u][i] = todo[u][j]
      BY <3>2, <2>1, <2>0
    <3> QED  BY <3>3, <2>1
  <2> QED  BY <2>1, <1>4 DEF Starting
<1>7. Starting => Starting'
  <2>1. ASSUME NEW u \in Threads, NEW j \in DOMAIN todo[u], Starts(todo[u][j])
        PROVE  \E i \in DOMAIN todo'[u] : Starts(todo'[u][i])
    <3>1. ~(u = t /\ j = 1)
      BY <2>1, <1>5, StartsOwn
    <3> QED  BY <3>1, <2>1, <1>1, StepsAfter
  <2> QED  BY <2>1, <1>4 DEF Starting
<1>8. RangeInHand'
  <2>1. ASSUME NEW u \in Threads, NEW i \in DOMAIN todo'[u], Side(u) = "s", todo'[u][i][1] = "sent"
        PROVE  ranges' # <<>>
    <3>1. Owns(todo'[u][i])
      BY <2>1 DEF Owns
    <3>2. ~(\E k \in DOMAIN steps : todo'[u][i] = steps[k])
      BY <3>1 DEF OwnsNothing
    <3>3. PICK j \in DOMAIN todo[u] : todo'[u][i] = todo[u][j]
      BY <3>2, <2>1, <1>1, StepsAfter
    <3> QED  BY <3>3, <2>1 DEF IInv, RangeInHand
  <2> QED  BY <2>1, <1>4 DEF RangeInHand
<1>9. OneHolder'
  <2>1. ASSUME NEW p \in Sides
        PROVE  (NoThreadOwns(p) => NoThreadOwns(p)') /\ (OneThreadOwns(p) => OneThreadOwns(p)')
    <3>1. CASE p # Side(t)
      BY <3>1, <1>1, <1>2, OwnersAfter
    <3>2. NoThreadOwns(p) /\ p = Side(t) => OwnsNothing(todo[t])
      BY DEF NoThreadOwns
    <3>3. NoThreadOwns(p) /\ p = Side(t) => NoThreadOwns(p)'
      BY <3>2, <1>1, <1>2, <1>3, OwnersAfter
    <3>4. OneThreadOwns(p) => OneThreadOwns(p)'
      BY <1>1, <1>2, <1>3, OwnersAfter
    <3> QED  BY <3>1, <3>3, <3>4
  <2>2. ASSUME NEW p \in Sides
        PROVE  /\ completed'[p] \in {0, 1}
               /\ \/ NoThreadOwns(p)' /\ (completed'[p] = 0 \/ parked'[p] = "none")
                  \/ OneThreadOwns(p)' /\ completed'[p] = 0 /\ parked'[p] = "none"
    BY <2>1 DEF IInv, OneHolder
  <2>3. ASSUME NEW p \in Sides
        PROVE  lock'[p] > 0 <=> /\ ~Starting'
                                /\ OneThreadOwns(p)' \/ parked'[p] # "none" \/ completed'[p] = 1
    <3>1. OneThreadOwns(p)' <=> OneThreadOwns(p)
      <4>1. NoThreadOwns(p)' => ~OneThreadOwns(p)'
        BY <1>4 DEF OneThreadOwns, NoThreadOwns, OwnsOnce, OwnsNothing
      <4>2. NoThreadOwns(p) \/ OneThreadOwns(p)
        BY DEF IInv, OneHolder
      <4> QED  BY <4>1, <4>2, <2>1
    <3> QED  BY <3>1, <1>6, <1>7 DEF IInv, OneHolder
  <2> QED  BY <2>2, <2>3 DEF OneHolder
<1>10. (todo \in [Threads -> Seq(Steps)])'
  BY <1>1, <1>2, <1>4
<1> QED  BY <1>6, <1>7, <1>8, <1>9, <1>10

\* The thread that owns a request goes on, and it still owns it.
LEMMA OwnerStep ==
  ASSUME IInv, NEW t \in Threads, todo[t] # <<>>, Owns(Head(todo[t])), ~Starting,
         NEW steps \in Seq(Steps), OwnsOnce(steps), Goto(t, steps),
         \A k \in DOMAIN steps : ~Starts(steps[k]),
         UNCHANGED <<job, parked, completed>>,
         \A p \in Sides : lock'[p] > 0 <=> lock[p] > 0,
         \A k \in DOMAIN steps : Side(t) = "s" /\ steps[k][1] = "sent" => ranges' # <<>>,
         Side(t) # "s" /\ ranges # <<>> => ranges' # <<>>
  PROVE  (todo \in [Threads -> Seq(Steps)])' /\ OneHolder' /\ RangeInHand' /\ ~Starting'
<1> DEFINE new == steps \o Tail(todo[t])
<1>1. todo \in [Threads -> Seq(Steps)]
  BY DEF IInv, TypeOK
<1>2. new \in Seq(Steps) /\ todo' = [todo EXCEPT ![t] = new] /\ todo[t] \in Seq(Steps)
  BY <1>1, Replaced DEF Goto
<1>3. Head(todo[t]) = todo[t][1] /\ 1 \in DOMAIN todo[t]
  BY <1>1
<1>4. Side(t) \in Sides
  BY DEF Threads, Side
<1>5. OneThreadOwns(Side(t)) /\ OwnsOnce(todo[t])
  BY <1>3, <1>4, OwnerIs DEF IInv, OneHolder
<1>6. OwnsOnce(new)
  BY <1>1, <1>5, ReplacedOwner
<1>7. ~OwnsNothing(todo[t])
  BY <1>3 DEF OwnsNothing
<1> HIDE DEF new
<1>8. Threads' = Threads
  BY ThreadsStay
<1>9. ~Starting'
  <2>1. ASSUME NEW u \in Threads, NEW i \in DOMAIN todo'[u]
        PROVE  ~Starts(todo'[u][i])
    BY <2>1, <1>1, StepsAfter DEF Starting
  <2> QED  BY <2>1, <1>8 DEF Starting
<1>10. RangeInHand'
  <2>1. ASSUME NEW u \in Threads, NEW i \in DOMAIN todo'[u], Side(u) = "s", todo'[u][i][1] = "sent"
        PROVE  ranges' # <<>>
    <3>1. CASE u = t /\ \E k \in DOMAIN steps : todo'[u][i] = steps[k]
      BY <3>1, <2>1
    <3>2. CASE \E j \in DOMAIN todo[u] : (u = t => j # 1) /\ todo'[u][i] = todo[u][j]
      <4>1. PICK j \in DOMAIN todo[u] : (u = t => j # 1) /\ todo'[u][i] = todo[u][j]
        BY <3>2
      <4>2. Owns(todo[u][j])
        BY <4>1, <2>1 DEF Owns
      <4>3. ranges # <<>>
        BY <4>1, <2>1 DEF IInv, RangeInHand
      <4>4. ~(Side(t) = "s")
        <5>1. SUFFICES ASSUME Side(t) = "s" PROVE FALSE
          OBVIOUS
        <5>2. PICK v \in Threads : /\ Side(v) = "s" /\ OwnsOnce(todo[v])
                                   /\ \A w \in Threads : Side(w) = "s" /\ w # v => OwnsNothing(todo[w])
          BY <1>5, <5>1 DEF OneThreadOwns
        <5>3. t = v
          BY <5>1, <5>2, <1>7
        <5>4. u = v
          BY <2>1, <4>2, <5>2 DEF OwnsNothing
        <5>5. j # 1 /\ Owns(todo[t][j]) /\ j \in DOMAIN todo[t]
          BY <4>1, <4>2, <5>3, <5>4
        <5> QED  BY <5>5, <1>3, <1>5 DEF OwnsOnce
      <4> QED  BY <4>3, <4>4
    <3> QED  BY <3>1, <3>2, <2>1, <1>1, StepsAfter
  <2> QED  BY <2>1, <1>8 DEF RangeInHand
<1>11. OneHolder'
  <2>1. ASSUME NEW p \in Sides
        PROVE  (NoThreadOwns(p) => NoThreadOwns(p)') /\ (OneThreadOwns(p) => OneThreadOwns(p)')
    <3>1. CASE p # Side(t)
      BY <3>1, <1>1, <1>2, OwnersAfter
    <3>2. CASE p = Side(t)
      BY <3>2, <1>1, <1>2, <1>5, <1>6, <1>7, OwnersAfter, NotBoth
    <3> QED  BY <3>1, <3>2
  <2>2. ASSUME NEW p \in Sides
        PROVE  /\ completed'[p] \in {0, 1}
               /\ \/ NoThreadOwns(p)' /\ (completed'[p] = 0 \/ parked'[p] = "none")
                  \/ OneThreadOwns(p)' /\ completed'[p] = 0 /\ parked'[p] = "none"
    BY <2>1 DEF IInv, OneHolder
  <2>3. ASSUME NEW p \in Sides
        PROVE  lock'[p] > 0 <=> /\ ~Starting'
                                /\ OneThreadOwns(p)' \/ parked'[p] # "none" \/ completed'[p] = 1
    <3>1. OneThreadOwns(p)' <=> OneThreadOwns(p)
      <4>1. NoThreadOwns(p)' => ~OneThreadOwns(p)'
        BY <1>8 DEF OneThreadOwns, NoThreadOwns, OwnsOnce, OwnsNothing
      <4>2. NoThreadOwns(p) \/ OneThreadOwns(p)
        BY DEF IInv, OneHolder
      <4> QED  BY <4>1, <4>2, <2>1
    <3> QED  BY <3>1, <1>9 DEF IInv, OneHolder
  <2> QED  BY <2>2, <2>3 DEF OneHolder
<1>12. (todo \in [Threads -> Seq(Steps)])'
  BY <1>1, <1>2, <1>8
<1> QED  BY <1>9, <1>10, <1>11, <1>12

\* Until the send is started, the threads have little to do.
LEMMA HasStarted ==
  ASSUME IInv, NEW t \in Threads, todo[t] # <<>>,
         Head(todo[t])[1] \notin {"return", "progress", "unpark", "start", "park"}
  PROVE  ~Starting
<1>1. todo[t] \in Seq(Steps)
  BY DEF IInv, TypeOK
<1>2. 1 \in DOMAIN todo[t] /\ Head(todo[t]) = todo[t][1]
  BY <1>1
<1> QED  BY <1>2 DEF IInv, Quiet, Starts

LEMMA StillStarted ==
  ASSUME todo \in [Threads -> Seq(Steps)], ~Starting, NEW t \in Threads, todo[t] # <<>>,
         NEW steps \in Seq(Steps), Goto(t, steps), job' = job,
         \A k \in DOMAIN steps : ~Starts(steps[k]), parked'["s"] # "start"
  PROVE  ~Starting'
<1>1. Threads' = Threads
  BY ThreadsStay
<1>2. ASSUME NEW u \in Threads, NEW i \in DOMAIN todo'[u]
      PROVE  ~Starts(todo'[u][i])
  BY <1>2, StepsAfter DEF Starting
<1> QED  BY <1>1, <1>2 DEF Starting

LEMMA StillInHand ==
  ASSUME todo \in [Threads -> Seq(Steps)], RangeInHand, NEW t \in Threads, todo[t] # <<>>,
         NEW steps \in Seq(Steps), Goto(t, steps), job' = job,
         \A k \in DOMAIN steps : steps[k][1] # "sent", ranges # <<>> => ranges' # <<>>
  PROVE  RangeInHand'
<1>1. Threads' = Threads
  BY ThreadsStay
<1>2. ASSUME NEW u \in Threads, NEW i \in DOMAIN todo'[u], Side(u) = "s", todo'[u][i][1] = "sent"
      PROVE  ranges' # <<>>
  <2>1. ~(\E k \in DOMAIN steps : todo'[u][i] = steps[k])
    BY <1>2
  <2>2. PICK j \in DOMAIN todo[u] : todo'[u][i] = todo[u][j]
    BY <2>1, <1>2, StepsAfter
  <2> QED  BY <2>2, <1>2 DEF RangeInHand
<1> QED  BY <1>1, <1>2 DEF RangeInHand

LEMMA SidesOf == ASSUME NEW t \in Threads PROVE Side(t) \in Sides
BY DEF Threads, Side

\* A thread becomes the one that owns a request, or gives it up.
LEMMA Takes ==
  ASSUME IInv, NEW t \in Threads, todo[t] # <<>>, NoThreadOwns(Side(t)),
         NEW steps \in Seq(Steps), OwnsOnce(steps), Goto(t, steps), job' = job
  PROVE  /\ (todo \in [Threads -> Seq(Steps)])' /\ OneThreadOwns(Side(t))'
         /\ \A q \in Sides \ {Side(t)} : /\ NoThreadOwns(q) => NoThreadOwns(q)'
                                         /\ OneThreadOwns(q) => OneThreadOwns(q)'
<1> DEFINE new == steps \o Tail(todo[t])
<1>1. todo \in [Threads -> Seq(Steps)]
  BY DEF IInv, TypeOK
<1>2. new \in Seq(Steps) /\ todo' = [todo EXCEPT ![t] = new] /\ todo[t] \in Seq(Steps)
  BY <1>1, Replaced DEF Goto
<1>3. OwnsNothing(todo[t])
  BY DEF NoThreadOwns
<1>4. OwnsOnce(new)
  BY <1>1, <1>3, ReplacedOwner
<1> HIDE DEF new
<1> QED  BY <1>1, <1>2, <1>4, OwnersAfter, SidesOf

LEMMA GivesUp ==
  ASSUME IInv, NEW t \in Threads, todo[t] # <<>>, Owns(Head(todo[t])),
         NEW steps \in Seq(Steps), OwnsNothing(steps), Goto(t, steps), job' = job
  PROVE  /\ OneThreadOwns(Side(t)) /\ completed[Side(t)] = 0 /\ parked[Side(t)] = "none"
         /\ (todo \in [Threads -> Seq(Steps)])' /\ NoThreadOwns(Side(t))'
         /\ \A q \in Sides \ {Side(t)} : /\ NoThreadOwns(q) => NoThreadOwns(q)'
                                         /\ OneThreadOwns(q) => OneThreadOwns(q)'
<1> DEFINE new == steps \o Tail(todo[t])
<1>1. todo \in [Threads -> Seq(Steps)]
  BY DEF IInv, TypeOK
<1>2. new \in Seq(Steps) /\ todo' = [todo EXCEPT ![t] = new] /\ todo[t] \in Seq(Steps)
  BY <1>1, Replaced DEF Goto
<1>3. Head(todo[t]) = todo[t][1] /\ 1 \in DOMAIN todo[t]
  BY <1>1
<1>4. Side(t) \in Sides
  BY SidesOf
<1>5. OneThreadOwns(Side(t)) /\ OwnsOnce(todo[t])
  BY <1>3, <1>4, OwnerIs DEF IInv, OneHolder
<1>6. OwnsNothing(new)
  BY <1>1, <1>5, ReplacedOwner
<1>7. completed[Side(t)] = 0 /\ parked[Side(t)] = "none"
  BY <1>4, <1>5, NotBoth DEF IInv, OneHolder
<1> HIDE DEF new
<1> QED  BY <1>1, <1>2, <1>4, <1>5, <1>6, <1>7, OwnersAfter

\* What OneHolder says of a request whose threads do what they did.
LEMMA SameOwner ==
  ASSUME IInv, NEW q \in Sides, job' = job,
         NoThreadOwns(q) => NoThreadOwns(q)', OneThreadOwns(q) => OneThreadOwns(q)',
         lock'[q] = lock[q], parked'[q] = parked[q], completed'[q] = completed[q],
         Starting' <=> Starting
  PROVE  /\ completed'[q] \in {0, 1}
         /\ \/ NoThreadOwns(q)' /\ (completed'[q] = 0 \/ parked'[q] = "none")
            \/ OneThreadOwns(q)' /\ completed'[q] = 0 /\ parked'[q] = "none"
         /\ lock'[q] > 0 <=> /\ ~Starting'
                             /\ OneThreadOwns(q)' \/ parked'[q] # "none" \/ completed'[q] = 1
<1>1. Threads' = Threads
  BY ThreadsStay
<1>2. NoThreadOwns(q)' => ~OneThreadOwns(q)'
  BY <1>1 DEF OneThreadOwns, NoThreadOwns, OwnsOnce, OwnsNothing
<1>3. NoThreadOwns(q) \/ OneThreadOwns(q)
  BY DEF IInv, OneHolder
<1>4. OneThreadOwns(q)' <=> OneThreadOwns(q)
  BY <1>2, <1>3
<1> QED  BY <1>4 DEF IInv, OneHolder

LEMMA NotBothAfter ==
  ASSUME NEW p \in Sides, OneThreadOwns(p)' PROVE ~NoThreadOwns(p)'
BY DEF OneThreadOwns, NoThreadOwns, OwnsOnce, OwnsNothing

-----------------------------------------------------------------------------
(* The BTL.                                                                *)

LEMMA PostedSteps ==
  ASSUME TypeOK, NEW t \in Threads, NEW m \in InUse, NEW next \in Seq(Steps), job' = job,
         Post(t, m, next)
  PROVE  /\ (busy \in [Sides -> SUBSET InUse])' /\ (free \in [Sides -> Nat])'
         /\ (errors \in 0 .. job.errors)'
         /\ \E steps \in Seq(Steps) :
              /\ Goto(t, steps)
              /\ OwnsNothing(next) => OwnsNothing(steps)
              /\ OwnsOnce(next) => OwnsOnce(steps)
              /\ \A i \in DOMAIN steps : ~Owns(steps[i]) \/ \E k \in DOMAIN next : steps[i] = next[k]
<1>1. Side(t) \in Sides
  BY SidesOf
<1>2. Callback(m) \in Seq(Steps) /\ OwnsNothing(Callback(m))
  BY CallbackSteps
<1>3. <<"return">> \in Steps /\ ~Owns(<<"return">>)
  BY StepsAre DEF Owns
<1>4. <<<<"return">>>> \in Seq(Steps) /\ OwnsNothing(<<<<"return">>>>)
  BY <1>3, OneStep
<1>5. /\ Callback(m) \o <<<<"return">>>> \in Seq(Steps)
      /\ OwnsNothing(Callback(m) \o <<<<"return">>>>)
  BY <1>2, <1>4, Joined
<1>6. /\ (busy \in [Sides -> SUBSET InUse])' /\ (free \in [Sides -> Nat])'
      /\ (errors \in 0 .. job.errors)'
  <2>1. busy \in [Sides -> SUBSET InUse] /\ free \in [Sides -> Nat] /\ errors \in 0 .. job.errors
    BY DEF TypeOK
  <2>2. /\ free[Side(t)] > 0 /\ errors' = errors
        /\ \/ /\ busy' = [busy EXCEPT ![Side(t)] = @ \union {m}]
              /\ free' = [free EXCEPT ![Side(t)] = @ - 1]
           \/ busy' = busy /\ free' = free
           \/ busy' = busy /\ free' = [free EXCEPT ![Side(t)] = @ - 1]
    BY DEF Post
  <2> QED  BY <1>1, <2>1, <2>2
<1>7. ASSUME NEW before \in Seq(Steps), OwnsNothing(before), Goto(t, before \o next)
      PROVE  \E steps \in Seq(Steps) :
               /\ Goto(t, steps)
               /\ OwnsNothing(next) => OwnsNothing(steps)
               /\ OwnsOnce(next) => OwnsOnce(steps)
               /\ \A i \in DOMAIN steps : ~Owns(steps[i]) \/ \E k \in DOMAIN next : steps[i] = next[k]
  <2> DEFINE all == before \o next
  <2>1. /\ all \in Seq(Steps)
        /\ OwnsNothing(next) => OwnsNothing(all)
        /\ OwnsOnce(next) => OwnsOnce(all)
        /\ \A i \in DOMAIN all : \/ i \in DOMAIN before /\ all[i] = before[i]
                                 \/ i - Len(before) \in DOMAIN next /\ all[i] = next[i - Len(before)]
    BY <1>7, Joined
  <2>2. Goto(t, all)
    BY <1>7
  <2> HIDE DEF all
  <2>3. \A i \in DOMAIN all : ~Owns(all[i]) \/ \E k \in DOMAIN next : all[i] = next[k]
    BY <2>1, <1>7 DEF OwnsNothing
  <2> QED  BY <2>1, <2>2, <2>3
<1>8. CASE Goto(t, next)
  <2>1. \A i \in DOMAIN next : ~Owns(next[i]) \/ \E k \in DOMAIN next : next[i] = next[k]
    OBVIOUS
  <2> QED  BY <1>6, <1>8, <2>1
<1>9. CASE Goto(t, Callback(m) \o next)
  BY <1>6, <1>9, <1>7, <1>2
<1>10. CASE Goto(t, Callback(m) \o <<<<"return">>>> \o next)
  BY <1>6, <1>10, <1>7, <1>5
<1>11. Goto(t, next) \/ Goto(t, Callback(m) \o next) \/ Goto(t, Callback(m) \o <<<<"return">>>> \o next)
  BY DEF Post
<1> QED  BY <1>6, <1>8, <1>9, <1>10, <1>11

LEMMA FailedSteps ==
  ASSUME TypeOK, NEW t \in Threads, NEW next, job' = job, Fails(t, next)
  PROVE  /\ (busy \in [Sides -> SUBSET InUse])' /\ (free \in [Sides -> Nat])'
         /\ (errors \in 0 .. job.errors)' /\ (net \subseteq OnTheNet)'
         /\ Goto(t, next) /\ net' = net /\ busy' = busy
<1>1. JobAssumption /\ job \in Job /\ job.errors \in Nat
  BY JobAssumption DEF TypeOK
<1> QED  BY <1>1 DEF Fails, Exhausted, Refused, btlVars, TypeOK

-----------------------------------------------------------------------------
(* The actions.                                                            *)

LEMMA HeadIs ==
  ASSUME IInv, NEW t \in Threads, NEW name, At(t, name)
  PROVE  todo[t] # <<>> /\ Head(todo[t]) \in Steps /\ Head(todo[t])[1] = name
<1>1. todo[t] \in Seq(Steps)
  BY DEF IInv, TypeOK
<1> QED  BY <1>1 DEF At, Idle

\* A step of a request that owns nothing makes way for others that own nothing.
LEMMA PlainAt ==
  ASSUME IInv, NEW t \in Threads, NEW name, At(t, name),
         name \notin {"return", "progress", "unpark", "start", "once", "sent", "unlock",
                      "complete", "park"},
         NEW steps \in Seq(Steps), OwnsNothing(steps), Goto(t, steps),
         UNCHANGED <<job, parked, completed>>,
         \A p \in Sides : lock'[p] > 0 <=> lock[p] > 0,
         ranges # <<>> => ranges' # <<>>
  PROVE  (todo \in [Threads -> Seq(Steps)])' /\ OneHolder' /\ RangeInHand' /\ ~Starting'
<1>1. todo[t] # <<>> /\ Head(todo[t])[1] = name
  BY HeadIs
<1>2. ~Owns(Head(todo[t]))
  BY <1>1 DEF Owns
<1>3. ~Starting
  BY <1>1, HasStarted
<1> QED  BY <1>1, <1>2, <1>3, PlainStep

LEMMA AddBytesKeeps == ASSUME IInv, NEW t \in Threads, AddBytes(t) PROVE IInv'
<1>1. At(t, "bytes") /\ Goto(t, <<>>)
  BY DEF AddBytes
<1>2. Argument(t, 1) \in Int
  BY <1>1, HeadIs, StepName DEF Argument
<1>3. (todo \in [Threads -> Seq(Steps)])' /\ OneHolder' /\ RangeInHand' /\ ~Starting'
  BY <1>1, NoStep, PlainAt DEF AddBytes, sendVars
<1>4. (bytes \in [Sides -> Int])'
  BY <1>2, SidesOf DEF AddBytes, IInv, TypeOK
<1>5. TypeOK'
  BY <1>3, <1>4 DEF AddBytes, IInv, TypeOK, Bytes, sendVars, recvVars, btlVars
<1> QED  BY <1>3, <1>5 DEF IInv

LEMMA DepthDownKeeps == ASSUME IInv, NEW t \in Threads, DepthDown(t) PROVE IInv'
<1>1. At(t, "depth") /\ Goto(t, <<>>)
  BY DEF DepthDown
<1>2. (todo \in [Threads -> Seq(Steps)])' /\ OneHolder' /\ RangeInHand' /\ ~Starting'
  BY <1>1, NoStep, PlainAt DEF DepthDown, sendVars
<1>3. TypeOK'
  BY <1>2, SidesOf DEF DepthDown, IInv, TypeOK, Bytes, sendVars, recvVars, btlVars
<1> QED  BY <1>2, <1>3 DEF IInv

\* What a check that fails goes on with owns nothing.
LEMMA Otherwise ==
  ASSUME NEW steps \in {<<>>, <<<<"lock">>>>, <<<<"more">>>>}
  PROVE  steps \in Seq(Steps) /\ OwnsNothing(steps)
<1>1. <<"lock">> \in Steps /\ ~Owns(<<"lock">>) /\ <<"more">> \in Steps /\ ~Owns(<<"more">>)
  BY StepsAre DEF Owns
<1> QED  BY <1>1, OneStep, NoStep

LEMMA CheckKeeps == ASSUME IInv, NEW t \in Threads, Check(t) PROVE IInv'
<1> DEFINE steps == IF Ready(Side(t)) THEN <<<<"claim", Argument(t, 1)>>>> ELSE Argument(t, 1)
<1>1. At(t, "check") /\ Goto(t, steps) /\ UNCHANGED <<job, sendVars, requestVars>>
  BY DEF Check
<1>2. Argument(t, 1) \in {<<>>, <<<<"lock">>>>, <<<<"more">>>>}
  BY <1>1, HeadIs, StepName DEF Argument
<1>3. steps \in Seq(Steps) /\ OwnsNothing(steps)
  <2>1. <<"claim", Argument(t, 1)>> \in Steps /\ ~Owns(<<"claim", Argument(t, 1)>>)
    BY <1>2, StepsAre DEF Owns
  <2> QED  BY <1>2, <2>1, OneStep, Otherwise
<1> HIDE DEF steps
<1>4. (todo \in [Threads -> Seq(Steps)])' /\ OneHolder' /\ RangeInHand' /\ ~Starting'
  BY <1>1, <1>3, PlainAt DEF sendVars, requestVars
<1>5. TypeOK'
  BY <1>4 DEF Check, IInv, TypeOK, Bytes, sendVars, recvVars, requestVars, btlVars
<1> QED  BY <1>4, <1>5 DEF IInv

\* Whoever finds the lock free owns the request.
LEMMA Acquires ==
  ASSUME IInv, NEW t \in Threads, NEW name \in {"claim", "lock"}, At(t, name),
         lock[Side(t)] = 0, lock' = [lock EXCEPT ![Side(t)] = @ + 1],
         NEW step \in Steps, step[1] \in {"once", "complete"}, Goto(t, <<step>>),
         UNCHANGED <<job, parked, completed, ranges>>
  PROVE  (todo \in [Threads -> Seq(Steps)])' /\ OneHolder' /\ RangeInHand' /\ ~Starting'
<1> DEFINE p == Side(t)
<1>1. todo[t] # <<>> /\ Head(todo[t])[1] = name
  BY HeadIs
<1>2. ~Starting
  BY <1>1, HasStarted
<1>3. p \in Sides /\ lock \in [Sides -> Nat] /\ todo \in [Threads -> Seq(Steps)]
  BY SidesOf DEF IInv, TypeOK
<1>4. ~OneThreadOwns(p) /\ parked[p] = "none" /\ completed[p] # 1
  BY <1>2, <1>3 DEF IInv, OneHolder
<1>5. NoThreadOwns(p) /\ completed[p] = 0
  BY <1>3, <1>4 DEF IInv, OneHolder
<1>6. <<step>> \in Seq(Steps) /\ OwnsOnce(<<step>>)
  BY OneStep DEF Owns
<1>7. \A k \in DOMAIN <<step>> : ~Starts(<<step>>[k]) /\ <<step>>[k][1] # "sent"
  BY StepName DEF Starts
<1>8. /\ (todo \in [Threads -> Seq(Steps)])' /\ OneThreadOwns(p)'
      /\ \A q \in Sides \ {p} : /\ NoThreadOwns(q) => NoThreadOwns(q)'
                                /\ OneThreadOwns(q) => OneThreadOwns(q)'
  BY <1>1, <1>5, <1>6, Takes
<1>9. parked["s"] # "start"
  BY <1>2 DEF Starting
<1>10. ~Starting'
  BY <1>1, <1>2, <1>3, <1>6, <1>7, <1>9, StillStarted
<1>11. RangeInHand'
  BY <1>1, <1>3, <1>6, <1>7, StillInHand DEF IInv
<1> HIDE DEF p
<1>12. \A q \in Sides \ {p} : lock'[q] = lock[q]
  BY <1>3 DEF p
<1>13. lock'[p] = 1
  BY <1>3 DEF p
<1>14. OneHolder'
  <2>1. ASSUME NEW q \in Sides
        PROVE  /\ completed'[q] \in {0, 1}
               /\ \/ NoThreadOwns(q)' /\ (completed'[q] = 0 \/ parked'[q] = "none")
                  \/ OneThreadOwns(q)' /\ completed'[q] = 0 /\ parked'[q] = "none"
               /\ lock'[q] > 0 <=> /\ ~Starting'
                                   /\ OneThreadOwns(q)' \/ parked'[q] # "none" \/ completed'[q] = 1
    <3>1. CASE q = p
      BY <3>1, <1>4, <1>5, <1>8, <1>10, <1>13
    <3>2. CASE q # p
      BY <3>2, <1>2, <1>8, <1>10, <1>12, SameOwner
    <3> QED  BY <3>1, <3>2
  <2> QED  BY <2>1 DEF OneHolder
<1> QED  BY <1>8, <1>10, <1>11, <1>14

LEMMA ClaimKeeps == ASSUME IInv, NEW t \in Threads, Claim(t) PROVE IInv'
<1> DEFINE p == Side(t)
<1>1. /\ At(t, "claim") /\ lock' = [lock EXCEPT ![p] = @ + 1]
      /\ Goto(t, IF lock[p] = 0 THEN <<<<"complete">>>> ELSE Argument(t, 1))
      /\ UNCHANGED <<job, sendVars, recvVars, depth, bytes, parked, completed, packets, btlVars>>
  BY DEF Claim
<1>2. Argument(t, 1) \in {<<>>, <<<<"lock">>>>, <<<<"more">>>>}
  BY <1>1, HeadIs, StepName DEF Argument
<1>3. p \in Sides /\ lock \in [Sides -> Nat]
  BY SidesOf DEF IInv, TypeOK
<1>4. (todo \in [Threads -> Seq(Steps)])' /\ OneHolder' /\ RangeInHand' /\ ~Starting'
  <2>1. CASE lock[p] = 0
    <3>1. <<"complete">> \in Steps /\ <<"complete">>[1] = "complete"
      BY StepsAre
    <3>2. Goto(t, <<<<"complete">>>>)
      BY <2>1, <1>1
    <3> QED  BY <1>1, <2>1, <3>1, <3>2, Acquires DEF sendVars
  <2>2. CASE lock[p] # 0
    <3>1. \A q \in Sides : lock'[q] > 0 <=> lock[q] > 0
      BY <2>2, <1>1, <1>3
    <3>2. Argument(t, 1) \in Seq(Steps) /\ OwnsNothing(Argument(t, 1))
      BY <1>2, Otherwise
    <3>3. Goto(t, Argument(t, 1))
      BY <2>2, <1>1
    <3> QED  BY <1>1, <3>1, <3>2, <3>3, PlainAt DEF sendVars
  <2> QED  BY <2>1, <2>2
<1>5. (lock \in [Sides -> Nat])'
  BY <1>1, <1>3
<1>6. TypeOK'
  BY <1>1, <1>4, <1>5 DEF IInv, TypeOK, Bytes, sendVars, recvVars, btlVars
<1> QED  BY <1>4, <1>6 DEF IInv

LEMMA LockKeeps == ASSUME IInv, NEW t \in Threads, Lock(t) PROVE IInv'
<1> DEFINE p == Side(t)
<1>1. /\ At(t, "lock") /\ lock' = [lock EXCEPT ![p] = @ + 1]
      /\ Goto(t, IF lock[p] = 0 THEN <<<<"once">>>> ELSE <<>>)
      /\ UNCHANGED <<job, sendVars, recvVars, depth, bytes, parked, completed, packets, btlVars>>
  BY DEF Lock
<1>2. p \in Sides /\ lock \in [Sides -> Nat]
  BY SidesOf DEF IInv, TypeOK
<1>3. (todo \in [Threads -> Seq(Steps)])' /\ OneHolder' /\ RangeInHand' /\ ~Starting'
  <2>1. CASE lock[p] = 0
    <3>1. <<"once">> \in Steps /\ <<"once">>[1] = "once"
      BY StepsAre
    <3>2. Goto(t, <<<<"once">>>>)
      BY <2>1, <1>1
    <3> QED  BY <1>1, <2>1, <3>1, <3>2, Acquires DEF sendVars
  <2>2. CASE lock[p] # 0
    <3>1. \A q \in Sides : lock'[q] > 0 <=> lock[q] > 0
      BY <2>2, <1>1, <1>2
    <3>2. Goto(t, <<>>)
      BY <2>2, <1>1
    <3> QED  BY <1>1, <3>1, <3>2, NoStep, PlainAt DEF sendVars
  <2> QED  BY <2>1, <2>2
<1>4. (lock \in [Sides -> Nat])'
  BY <1>1, <1>2
<1>5. TypeOK'
  BY <1>1, <1>3, <1>4 DEF IInv, TypeOK, Bytes, sendVars, recvVars, btlVars
<1> QED  BY <1>3, <1>5 DEF IInv

\* The thread that owns the request is done with it, for now or for good.
LEMMA Releases ==
  ASSUME IInv, NEW t \in Threads, todo[t] # <<>>, Owns(Head(todo[t])), ~Starting,
         NEW steps \in Seq(Steps), OwnsNothing(steps), Goto(t, steps), UNCHANGED <<job, ranges>>,
         \A q \in Sides \ {Side(t)} :
           lock'[q] = lock[q] /\ parked'[q] = parked[q] /\ completed'[q] = completed[q],
         completed'[Side(t)] \in {0, 1},
         completed'[Side(t)] = 0 \/ parked'[Side(t)] = "none",
         lock'[Side(t)] > 0 <=> parked'[Side(t)] # "none" \/ completed'[Side(t)] = 1,
         parked'["s"] # "start"
  PROVE  (todo \in [Threads -> Seq(Steps)])' /\ OneHolder' /\ RangeInHand' /\ ~Starting'
<1> DEFINE p == Side(t)
<1>1. p \in Sides /\ todo \in [Threads -> Seq(Steps)]
  BY SidesOf DEF IInv, TypeOK
<1>2. /\ (todo \in [Threads -> Seq(Steps)])' /\ NoThreadOwns(p)'
      /\ \A q \in Sides \ {p} : /\ NoThreadOwns(q) => NoThreadOwns(q)'
                                /\ OneThreadOwns(q) => OneThreadOwns(q)'
  BY GivesUp
<1>3. \A k \in DOMAIN steps : ~Starts(steps[k]) /\ steps[k][1] # "sent"
  BY StartsOwn DEF OwnsNothing, Owns
<1>4. ~Starting'
  BY <1>1, <1>3, StillStarted
<1>5. RangeInHand'
  BY <1>1, <1>3, StillInHand DEF IInv
<1>6. ~OneThreadOwns(p)'
  BY <1>1, <1>2, NotBothAfter
<1>7. /\ completed'[p] \in {0, 1}
      /\ completed'[p] = 0 \/ parked'[p] = "none"
      /\ lock'[p] > 0 <=> parked'[p] # "none" \/ completed'[p] = 1
      /\ \A q \in Sides \ {p} :
           lock'[q] = lock[q] /\ parked'[q] = parked[q] /\ completed'[q] = completed[q]
  OBVIOUS
<1> HIDE DEF p
<1>8. OneHolder'
  <2>1. ASSUME NEW q \in Sides
        PROVE  /\ completed'[q] \in {0, 1}
               /\ \/ NoThreadOwns(q)' /\ (completed'[q] = 0 \/ parked'[q] = "none")
                  \/ OneThreadOwns(q)' /\ completed'[q] = 0 /\ parked'[q] = "none"
               /\ lock'[q] > 0 <=> /\ ~Starting'
                                   /\ OneThreadOwns(q)' \/ parked'[q] # "none" \/ completed'[q] = 1
    <3>1. CASE q = p
      BY <3>1, <1>2, <1>4, <1>6, <1>7
    <3>2. CASE q # p
      BY <3>2, <1>2, <1>4, <1>7, SameOwner
    <3> QED  BY <3>1, <3>2
  <2> QED  BY <2>1 DEF OneHolder
<1> QED  BY <1>2, <1>4, <1>5, <1>8

\* The thread that owns a request has its lock.
LEMMA OwnerLocks ==
  ASSUME IInv, NEW t \in Threads, todo[t] # <<>>, Owns(Head(todo[t])), ~Starting
  PROVE  lock[Side(t)] > 0 /\ completed[Side(t)] = 0 /\ parked[Side(t)] = "none"
<1>1. Side(t) \in Sides /\ 1 \in DOMAIN todo[t] /\ Head(todo[t]) = todo[t][1]
  BY SidesOf DEF IInv, TypeOK
<1>2. OneThreadOwns(Side(t))
  BY <1>1, OwnerIs DEF IInv, OneHolder
<1> QED  BY <1>1, <1>2, NotBoth DEF IInv, OneHolder

LEMMA CompleteKeeps == ASSUME IInv, NEW t \in Threads, Complete(t) PROVE IInv'
<1> DEFINE p == Side(t)
<1>1. /\ At(t, "complete") /\ completed' = [completed EXCEPT ![p] = @ + 1] /\ Goto(t, <<>>)
      /\ UNCHANGED <<job, sendVars, recvVars, lock, depth, bytes, parked, packets, btlVars>>
  BY DEF Complete
<1>2. todo[t] # <<>> /\ Head(todo[t])[1] = "complete"
  BY <1>1, HeadIs
<1>3. Owns(Head(todo[t])) /\ ~Starting
  BY <1>2, HasStarted DEF Owns
<1>4. lock[p] > 0 /\ completed[p] = 0 /\ parked[p] = "none"
  BY <1>2, <1>3, OwnerLocks
<1>5. p \in Sides /\ completed \in [Sides -> Nat] /\ parked["s"] # "start"
  BY <1>3, SidesOf DEF IInv, TypeOK, Starting
<1>6. completed'[p] = 1 /\ \A q \in Sides \ {p} : completed'[q] = completed[q]
  BY <1>1, <1>4, <1>5
<1>7. (todo \in [Threads -> Seq(Steps)])' /\ OneHolder' /\ RangeInHand' /\ ~Starting'
  <2>1. UNCHANGED <<job, ranges, lock, parked>>
    BY <1>1 DEF sendVars
  <2> QED  BY <1>1, <1>2, <1>3, <1>4, <1>5, <1>6, <2>1, NoStep, Releases
<1>8. (completed \in [Sides -> Nat])'
  BY <1>1, <1>5
<1>9. TypeOK'
  BY <1>1, <1>7, <1>8 DEF IInv, TypeOK, Bytes, sendVars, recvVars, btlVars
<1> QED  BY <1>7, <1>9 DEF IInv

LEMMA UnlockKeeps == ASSUME IInv, NEW t \in Threads, Unlock(t) PROVE IInv'
<1> DEFINE p == Side(t)
<1>1. /\ At(t, "unlock") /\ lock' = [lock EXCEPT ![p] = @ - 1]
      /\ Goto(t, IF lock[p] = 1 THEN <<CheckOr(<<>>)>> ELSE <<<<"once">>>>)
      /\ UNCHANGED <<job, sendVars, recvVars, depth, bytes, parked, completed, packets, btlVars>>
  BY DEF Unlock
<1>2. todo[t] # <<>> /\ Head(todo[t])[1] = "unlock"
  BY <1>1, HeadIs
<1>3. Owns(Head(todo[t])) /\ ~Starting
  BY <1>2, HasStarted DEF Owns
<1>4. lock[p] > 0 /\ completed[p] = 0 /\ parked[p] = "none"
  BY <1>2, <1>3, OwnerLocks
<1>5. p \in Sides /\ lock \in [Sides -> Nat] /\ parked["s"] # "start"
  BY <1>3, SidesOf DEF IInv, TypeOK, Starting
<1>6. lock'[p] = lock[p] - 1 /\ \A q \in Sides \ {p} : lock'[q] = lock[q]
  BY <1>1, <1>5
<1>7. (todo \in [Threads -> Seq(Steps)])' /\ OneHolder' /\ RangeInHand' /\ ~Starting'
  <2>1. UNCHANGED <<job, ranges, completed, parked>>
    BY <1>1 DEF sendVars
  <2>2. CASE lock[p] = 1
    <3> DEFINE steps == <<CheckOr(<<>>)>>
    <3>1. CheckOr(<<>>) \in Steps /\ ~Owns(CheckOr(<<>>))
      BY StepsAre DEF CheckOr, Owns
    <3>2. steps \in Seq(Steps) /\ OwnsNothing(steps)
      BY <3>1, OneStep
    <3>3. Goto(t, steps)
      BY <1>1, <2>2
    <3>4. ~(lock'[p] > 0) /\ completed'[p] = 0 /\ parked'[p] = "none" /\ parked'["s"] # "start"
      BY <2>1, <2>2, <1>4, <1>5, <1>6
    <3>5. \A q \in Sides \ {p} :
            lock'[q] = lock[q] /\ parked'[q] = parked[q] /\ completed'[q] = completed[q]
      BY <2>1, <1>6
    <3>6. UNCHANGED <<job, ranges>>
      BY <2>1
    <3>7. lock'[p] > 0 <=> parked'[p] # "none" \/ completed'[p] = 1
      BY <3>4
    <3> HIDE DEF steps
    <3> QED  BY <1>2, <1>3, <3>2, <3>3, <3>4, <3>5, <3>6, <3>7, Releases
  <2>3. CASE lock[p] # 1
    <3>1. <<"once">> \in Steps /\ Owns(<<"once">>)
      BY StepsAre DEF Owns
    <3>2. <<<<"once">>>> \in Seq(Steps) /\ OwnsOnce(<<<<"once">>>>)
      BY <3>1, OneStep
    <3>3. Goto(t, <<<<"once">>>>)
      BY <1>1, <2>3
    <3>4. \A q \in Sides : lock'[q] > 0 <=> lock[q] > 0
      BY <2>3, <1>4, <1>5, <1>6
    <3>5. \A k \in DOMAIN <<<<"once">>>> : /\ ~Starts(<<<<"once">>>>[k])
                                           /\ <<<<"once">>>>[k][1] # "sent"
      BY DEF Starts
    <3> QED  BY <1>2, <1>3, <2>1, <3>2, <3>3, <3>4, <3>5, OwnerStep
  <2> QED  BY <2>2, <2>3
<1>8. (lock \in [Sides -> Nat])'
  BY <1>1, <1>4, <1>5
<1>9. TypeOK'
  BY <1>1, <1>7, <1>8 DEF IInv, TypeOK, Bytes, sendVars, recvVars, btlVars
<1> QED  BY <1>7, <1>9 DEF IInv

-----------------------------------------------------------------------------
(* The actions that are possible before the send is started.               *)

LEMMA QuietAfter ==
  ASSUME Quiet, todo \in [Threads -> Seq(Steps)], NEW t \in Threads, todo[t] # <<>>,
         NEW steps \in Seq(Steps), Goto(t, steps), UNCHANGED <<job, net, writes, packets, completed>>,
         \A p \in Sides : \A m \in busy'[p] : m.type = "other",
         parked'["r"] = "none",
         \A k \in DOMAIN steps : \/ steps[k][1] \in {"return", "progress"}
                                 \/ Side(t) = "s" /\ (Starts(steps[k]) \/ steps[k][1] = "unpark")
  PROVE  Quiet'
<1>1. Threads' = Threads
  BY ThreadsStay
<1>2. ASSUME NEW u \in Threads, NEW i \in DOMAIN todo'[u]
      PROVE  \/ todo'[u][i][1] \in {"return", "progress"}
             \/ Side(u) = "s" /\ (Starts(todo'[u][i]) \/ todo'[u][i][1] = "unpark")
  <2>1. CASE u = t /\ \E k \in DOMAIN steps : todo'[u][i] = steps[k]
    BY <2>1
  <2>2. CASE \E j \in DOMAIN todo[u] : todo'[u][i] = todo[u][j]
    BY <2>2 DEF Quiet
  <2> QED  BY <2>1, <2>2, <1>2, StepsAfter
<1> QED  BY <1>1, <1>2 DEF Quiet

\* A step that is no part of a request's protocol makes way for others like it.
LEMMA QuietStep ==
  ASSUME IInv, NEW t \in Threads, todo[t] # <<>>, ~Owns(Head(todo[t])),
         NEW steps \in Seq(Steps), OwnsNothing(steps), Goto(t, steps),
         UNCHANGED <<job, parked, completed, lock, ranges, net, writes, packets, busy>>,
         Starting => \A k \in DOMAIN steps : \/ steps[k][1] \in {"return", "progress"}
                                             \/ Side(t) = "s" /\ steps[k][1] = "unpark"
  PROVE  /\ (todo \in [Threads -> Seq(Steps)])' /\ OneHolder' /\ RangeInHand'
         /\ Starting' => Quiet'
<1>1. (todo \in [Threads -> Seq(Steps)])' /\ OneHolder' /\ RangeInHand' /\ (Starting' <=> Starting)
  BY PlainStep
<1>2. todo \in [Threads -> Seq(Steps)]
  BY DEF IInv, TypeOK
<1>3. ASSUME Starting
      PROVE  Quiet'
  <2>1. Quiet /\ \A p \in Sides : \A m \in busy'[p] : m.type = "other"
    BY <1>3 DEF IInv, Quiet
  <2>2. parked'["r"] = "none"
    BY <2>1 DEF Quiet
  <2> QED  BY <1>2, <1>3, <2>1, <2>2, QuietAfter
<1> QED  BY <1>1, <1>3

LEMMA ReturnDescriptorKeeps == ASSUME IInv, NEW t \in Threads, ReturnDescriptor(t) PROVE IInv'
<1>1. /\ At(t, "return") /\ free' = [free EXCEPT ![Side(t)] = @ + 1] /\ Goto(t, <<>>)
      /\ UNCHANGED <<job, sendVars, recvVars, requestVars, packets, net, busy, errors>>
  BY DEF ReturnDescriptor
<1>2. todo[t] # <<>> /\ ~Owns(Head(todo[t]))
  BY <1>1, HeadIs DEF Owns
<1>3. /\ (todo \in [Threads -> Seq(Steps)])' /\ OneHolder' /\ RangeInHand'
      /\ Starting' => Quiet'
  <2>1. UNCHANGED <<job, parked, completed, lock, ranges, net, writes, packets, busy>>
    BY <1>1 DEF sendVars, requestVars
  <2>2. DOMAIN <<>> = {}
    OBVIOUS
  <2> QED  BY <1>1, <1>2, <2>1, <2>2, NoStep, QuietStep
<1>4. TypeOK'
  BY <1>1, <1>3, SidesOf DEF IInv, TypeOK, Bytes, sendVars, recvVars, requestVars
<1> QED  BY <1>3, <1>4 DEF IInv

\* A list that may be left out.
LEMMA Perhaps ==
  ASSUME NEW step \in Steps, ~Owns(step), NEW so \in BOOLEAN
  PROVE  /\ (IF so THEN <<>> ELSE <<step>>) \in Seq(Steps)
         /\ OwnsNothing(IF so THEN <<>> ELSE <<step>>)
         /\ \A k \in DOMAIN (IF so THEN <<>> ELSE <<step>>) :
              ~so /\ (IF so THEN <<>> ELSE <<step>>)[k] = step
BY OneStep, NoStep

LEMMA ProgressKeeps == ASSUME IInv, NEW t \in Threads, Progress(t) PROVE IInv'
<1> DEFINE p == Side(t)
           first == IF packets[p] = <<>> THEN <<>> ELSE <<<<"packets", Len(packets[p])>>>>
           second == IF parked[p] = "none" THEN <<>> ELSE <<<<"unpark">>>>
           third == IF p = "r" \/ writes = <<>> THEN <<>> ELSE <<<<"writes", Len(writes)>>>>
           steps == first \o second \o third
<1>1. /\ At(t, "progress") /\ Goto(t, steps)
      /\ UNCHANGED <<job, sendVars, recvVars, requestVars, packets, btlVars>>
  BY DEF Progress
<1>2. todo[t] # <<>> /\ ~Owns(Head(todo[t]))
  BY <1>1, HeadIs DEF Owns
<1>3. p \in Sides
  BY SidesOf
<1>4. packets[p] \in Seq(Pending) /\ writes \in Seq(Int \X Int)
  BY <1>3 DEF IInv, TypeOK
<1>5. Len(packets[p]) \in Int /\ Len(writes) \in Int
  BY <1>4
<1>6. /\ first \in Seq(Steps) /\ OwnsNothing(first)
      /\ \A k \in DOMAIN first : packets[p] # <<>>
  <2>1. <<"packets", Len(packets[p])>> \in Steps /\ ~Owns(<<"packets", Len(packets[p])>>)
    BY <1>5, StepsAre DEF Owns
  <2> QED  BY <2>1, Perhaps
<1>7. /\ second \in Seq(Steps) /\ OwnsNothing(second)
      /\ \A k \in DOMAIN second : parked[p] # "none" /\ second[k] = <<"unpark">>
  <2>1. <<"unpark">> \in Steps /\ ~Owns(<<"unpark">>)
    BY StepsAre DEF Owns
  <2> QED  BY <2>1, Perhaps
<1>8. /\ third \in Seq(Steps) /\ OwnsNothing(third)
      /\ \A k \in DOMAIN third : writes # <<>>
  <2>1. <<"writes", Len(writes)>> \in Steps /\ ~Owns(<<"writes", Len(writes)>>)
    BY <1>5, StepsAre DEF Owns
  <2> QED  BY <2>1, Perhaps
<1> HIDE DEF first, second, third
<1>9. /\ first \o second \in Seq(Steps) /\ OwnsNothing(first \o second)
      /\ \A i \in DOMAIN (first \o second) : \/ i \in DOMAIN first
                                             \/ i - Len(first) \in DOMAIN second
                                                /\ (first \o second)[i] = second[i - Len(first)]
  BY <1>6, <1>7, Joined
<1>10. /\ steps \in Seq(Steps) /\ OwnsNothing(steps)
       /\ \A i \in DOMAIN steps : \/ i \in DOMAIN (first \o second) /\ steps[i] = (first \o second)[i]
                                  \/ i - Len(first \o second) \in DOMAIN third
  BY <1>8, <1>9, Joined
<1> HIDE DEF steps
<1>11. ASSUME Starting, NEW k \in DOMAIN steps
       PROVE  Side(t) = "s" /\ steps[k][1] = "unpark"
  <2>1. packets[p] = <<>> /\ writes = <<>> /\ parked["r"] = "none"
    BY <1>3, <1>11 DEF IInv, Quiet
  <2>2. k \in DOMAIN (first \o second) /\ steps[k] = (first \o second)[k]
    BY <1>8, <1>10, <1>11, <2>1
  <2>3. k - Len(first) \in DOMAIN second /\ (first \o second)[k] = second[k - Len(first)]
    BY <1>6, <1>9, <2>1, <2>2
  <2>4. parked[p] # "none" /\ steps[k] = <<"unpark">>
    BY <1>7, <2>2, <2>3
  <2> QED  BY <1>3, <2>1, <2>4 DEF Sides
<1>12. /\ (todo \in [Threads -> Seq(Steps)])' /\ OneHolder' /\ RangeInHand'
       /\ Starting' => Quiet'
  BY <1>1, <1>2, <1>10, <1>11, QuietStep DEF sendVars, requestVars, btlVars
<1>13. TypeOK'
  BY <1>1, <1>12 DEF IInv, TypeOK, Bytes, sendVars, recvVars, requestVars, btlVars
<1> QED  BY <1>12, <1>13 DEF IInv

LEMMA ParkKeeps == ASSUME IInv, NEW t \in Threads, Park(t) PROVE IInv'
<1> DEFINE p == Side(t)
           what == Argument(t, 1)
<1>1. /\ At(t, "park") /\ parked' = [parked EXCEPT ![p] = what] /\ Goto(t, <<>>)
      /\ UNCHANGED <<job, sendVars, recvVars, lock, depth, bytes, completed, packets, btlVars>>
  BY DEF Park
<1>2. todo[t] # <<>> /\ Head(todo[t]) \in Steps /\ Head(todo[t])[1] = "park"
  BY <1>1, HeadIs
<1>3. Owns(Head(todo[t])) /\ what \in {"start", "schedule"} /\ Head(todo[t]) = <<"park", what>>
  BY <1>2, StepName DEF Owns, Argument
<1>4. p \in Sides /\ todo \in [Threads -> Seq(Steps)] /\ parked \in [Sides -> {"none", "start", "schedule"}]
  BY SidesOf DEF IInv, TypeOK
<1>5. 1 \in DOMAIN todo[t] /\ Head(todo[t]) = todo[t][1]
  BY <1>2, <1>4
<1>6. (parked \in [Sides -> {"none", "start", "schedule"}])' /\ parked'[p] = what
      /\ \A q \in Sides \ {p} : parked'[q] = parked[q]
  BY <1>1, <1>3, <1>4
<1>7. /\ OneThreadOwns(p) /\ completed[p] = 0 /\ parked[p] = "none"
      /\ (todo \in [Threads -> Seq(Steps)])' /\ NoThreadOwns(p)'
      /\ \A q \in Sides \ {p} : /\ NoThreadOwns(q) => NoThreadOwns(q)'
                                /\ OneThreadOwns(q) => OneThreadOwns(q)'
  BY <1>1, <1>2, <1>3, NoStep, GivesUp
<1>8. OneHolder' /\ RangeInHand' /\ (Starting' => Quiet')
  <2>1. CASE Starting
    <3>1. Quiet /\ p = "s" /\ what = "start"
      BY <2>1, <1>3, <1>5 DEF IInv, Quiet, Starts
    <3>2. Starting'
      BY <3>1, <1>6 DEF Starting
    <3>3. Quiet'
      <4>1. UNCHANGED <<job, net, writes, packets, completed>> /\ busy' = busy
        BY <1>1 DEF sendVars, btlVars
      <4>2. parked'["r"] = "none" /\ \A q \in Sides : \A m \in busy'[q] : m.type = "other"
        BY <3>1, <1>6, <4>1 DEF Quiet, Sides
      <4>3. DOMAIN <<>> = {}
        OBVIOUS
      <4> QED  BY <1>1, <1>2, <1>4, <3>1, <4>1, <4>2, <4>3, NoStep, QuietAfter
    <3>4. RangeInHand'
      <4>1. job' = job /\ ranges' = ranges /\ DOMAIN <<>> = {}
        BY <1>1 DEF sendVars
      <4> QED  BY <1>1, <1>2, <1>4, <4>1, NoStep, StillInHand DEF IInv
    <3>5. OneHolder'
      <4>1. ASSUME NEW q \in Sides
            PROVE  /\ completed'[q] \in {0, 1}
                   /\ \/ NoThreadOwns(q)' /\ (completed'[q] = 0 \/ parked'[q] = "none")
                      \/ OneThreadOwns(q)' /\ completed'[q] = 0 /\ parked'[q] = "none"
                   /\ lock'[q] > 0 <=> /\ ~Starting'
                                       /\ OneThreadOwns(q)' \/ parked'[q] # "none" \/ completed'[q] = 1
        <5>1. CASE q = p
          <6>1. ~(lock[p] > 0)
            BY <2>1, <1>4 DEF IInv, OneHolder
          <6> QED  BY <5>1, <6>1, <1>1, <1>7, <3>2
        <5>2. CASE q # p
          BY <5>2, <1>1, <1>6, <1>7, <2>1, <3>2, SameOwner
        <5> QED  BY <5>1, <5>2
      <4> QED  BY <4>1 DEF OneHolder
    <3> QED  BY <3>3, <3>4, <3>5
  <2>2. CASE ~Starting
    <3>1. what = "schedule" /\ parked["s"] # "start"
      BY <2>2, <1>3, <1>5 DEF Starting, Starts
    <3>2. lock[p] > 0
      BY <1>2, <1>3, <2>2, OwnerLocks
    <3>3. /\ lock'[p] > 0 <=> parked'[p] # "none" \/ completed'[p] = 1
          /\ completed'[p] = 0 /\ parked'["s"] # "start" /\ UNCHANGED <<job, ranges>>
      BY <1>1, <1>4, <1>6, <1>7, <3>1, <3>2 DEF sendVars
    <3>4. \A q \in Sides \ {p} :
            lock'[q] = lock[q] /\ parked'[q] = parked[q] /\ completed'[q] = completed[q]
      BY <1>1, <1>6
    <3> QED  BY <1>1, <1>2, <1>3, <2>2, <3>3, <3>4, NoStep, Releases
  <2> QED  BY <2>1, <2>2
<1>9. parked'["r"] # "start"
  <2>1. CASE p = "r"
    <3>1. what # "start"
      <4>1. SUFFICES ASSUME what = "start" PROVE FALSE
        OBVIOUS
      <4>2. Starting
        BY <4>1, <1>3, <1>5 DEF Starting, Starts
      <4> QED  BY <2>1, <4>2, <1>2, <1>5 DEF IInv, Quiet
    <3> QED  BY <2>1, <3>1, <1>6
  <2>2. CASE p # "r"
    BY <2>2, <1>6 DEF IInv, TypeOK, Sides
  <2> QED  BY <2>1, <2>2
<1>10. TypeOK'
  BY <1>1, <1>6, <1>7, <1>9 DEF IInv, TypeOK, Bytes, sendVars, recvVars, btlVars
<1> QED  BY <1>8, <1>10 DEF IInv

LEMMA StartKeeps == ASSUME IInv, NEW t \in Threads, Start(t) PROVE IInv'
<1> DEFINE m == Message("rndv", 0, job.first, FALSE)
<1>1. /\ At(t, "start") /\ state' \in {state, 2}
      /\ \/ Send(t, m, <<>>)
         \/ Fails(t, <<<<"park", "start">>>>)
      /\ UNCHANGED <<job, throttle, ranges, writes, recvVars, requestVars, packets>>
  BY DEF Start, Fails
<1>2. todo[t] # <<>> /\ Head(todo[t]) \in Steps /\ Head(todo[t])[1] = "start"
  BY <1>1, HeadIs
<1>3. Owns(Head(todo[t])) /\ Starts(Head(todo[t]))
  BY <1>2, StepName DEF Owns, Starts
<1>4. todo \in [Threads -> Seq(Steps)] /\ TypeOK
  BY DEF IInv, TypeOK
<1>5. 1 \in DOMAIN todo[t] /\ Head(todo[t]) = todo[t][1]
  BY <1>2, <1>4
<1>6. Starting /\ Quiet
  BY <1>3, <1>5 DEF IInv, Starting
<1>7. Side(t) = "s"
  BY <1>2, <1>5, <1>6 DEF Quiet
<1>8. \A q \in Sides : ~(lock[q] > 0) /\ completed[q] = 0
  BY <1>6 DEF IInv, OneHolder, Quiet
<1>9. NoThreadOwns("r") /\ parked["r"] = "none"
  BY <1>6 DEF Quiet, NoThreadOwns, OwnsNothing, Owns
<1>10. m \in OnTheNet /\ m \in InUse
  BY JobAssumption, <1>4 DEF TypeOK, Message, OnTheNet, InUse, Messages
<1>11. CASE Send(t, m, <<>>)
  <2>1. Post(t, m, <<>>) /\ net' = net \union {m}
    BY <1>11 DEF Send
  <2>2. /\ (busy \in [Sides -> SUBSET InUse])' /\ (free \in [Sides -> Nat])'
        /\ (errors \in 0 .. job.errors)'
        /\ \E steps \in Seq(Steps) : Goto(t, steps) /\ OwnsNothing(steps)
    BY <1>1, <1>4, <1>10, <2>1, NoStep, PostedSteps
  <2>3. PICK steps \in Seq(Steps) : Goto(t, steps) /\ OwnsNothing(steps)
    BY <2>2
  <2>4. /\ parked["s"] = "none"
        /\ (todo \in [Threads -> Seq(Steps)])' /\ NoThreadOwns("s")'
        /\ NoThreadOwns("r")'
    BY <1>1, <1>2, <1>3, <1>7, <1>9, <2>3, GivesUp DEF Sides
  <2>5. ~Starting'
    <3>1. ASSUME NEW u \in Threads', NEW i \in DOMAIN todo'[u]
          PROVE  ~Starts(todo'[u][i])
      <4>1. Side(u) \in Sides
        BY <1>1, <3>1, ThreadsStay, SidesOf
      <4>2. ~Owns(todo'[u][i])
        BY <2>4, <3>1, <4>1 DEF NoThreadOwns, OwnsNothing, Sides
      <4> QED  BY <4>2, StartsOwn
    <3>2. parked'["s"] # "start"
      BY <1>1, <2>4 DEF requestVars
    <3> QED  BY <3>1, <3>2 DEF Starting
  <2>6. OneHolder'
    <3>1. ASSUME NEW q \in Sides
          PROVE  NoThreadOwns(q)' /\ completed'[q] = 0 /\ parked'[q] = "none" /\ ~(lock'[q] > 0)
      BY <1>1, <1>8, <1>9, <2>4 DEF requestVars, Sides
    <3>2. \A q \in Sides : ~OneThreadOwns(q)'
      BY <3>1, NotBothAfter
    <3> QED  BY <3>1, <3>2 DEF OneHolder
  <2>7. RangeInHand'
    <3>1. \A k \in DOMAIN steps : steps[k][1] # "sent"
      BY <2>3 DEF OwnsNothing, Owns
    <3> QED  BY <1>1, <1>2, <1>4, <2>3, <3>1, StillInHand DEF IInv
  <2>8. (net \subseteq OnTheNet)'
    BY <1>4, <1>10, <2>1 DEF TypeOK
  <2>9. TypeOK'
    <3>1. /\ state' \in {state, 2}
          /\ UNCHANGED <<job, throttle, ranges, writes, recvVars, requestVars, packets>>
      BY <1>1
    <3>2. (todo \in [Threads -> Seq(Steps)])'
      BY <2>4
    <3>3. /\ (busy \in [Sides -> SUBSET InUse])' /\ (free \in [Sides -> Nat])'
          /\ (errors \in 0 .. job.errors)'
      BY <2>2
    <3> QED  BY <1>4, <2>8, <3>1, <3>2, <3>3 DEF TypeOK, Bytes, recvVars, requestVars
  <2> QED  BY <2>5, <2>6, <2>7, <2>9 DEF IInv
<1>12. CASE Fails(t, <<<<"park", "start">>>>)
  <2> DEFINE step == <<"park", "start">>
  <2>1. /\ (busy \in [Sides -> SUBSET InUse])' /\ (free \in [Sides -> Nat])'
        /\ (errors \in 0 .. job.errors)' /\ (net \subseteq OnTheNet)'
        /\ Goto(t, <<step>>) /\ net' = net /\ busy' = busy
    BY <1>1, <1>4, <1>12, FailedSteps
  <2>2. step \in Steps /\ Owns(step) /\ Starts(step)
    BY StepsAre DEF Owns, Starts
  <2> HIDE DEF step
  <2>3. <<step>> \in Seq(Steps) /\ OwnsOnce(<<step>>) /\ DOMAIN <<step>> = {1} /\ <<step>>[1] = step
    BY <2>2, OneStep
  <2>4. Threads' = Threads
    BY <1>1, ThreadsStay
  <2>5. Quiet'
    <3>1. \A k \in DOMAIN <<step>> : Side(t) = "s" /\ Starts(<<step>>[k])
      BY <1>7, <2>2, <2>3
    <3>2. UNCHANGED <<job, net, writes, packets, completed>> /\ parked'["r"] = "none"
      BY <1>1, <1>9, <2>1 DEF requestVars
    <3>3. \A q \in Sides : \A x \in busy'[q] : x.type = "other"
      BY <1>6, <2>1 DEF Quiet
    <3> QED  BY <1>2, <1>4, <1>6, <2>1, <2>3, <3>1, <3>2, <3>3, QuietAfter
  <2>6. Starting'
    <3> DEFINE new == <<step>> \o Tail(todo[t])
    <3>1. todo'[t] = new
      BY <1>4, <2>1 DEF Goto
    <3>2. 1 \in DOMAIN new /\ new[1] = step
      BY <1>2, <1>4, <2>3
    <3> QED  BY <2>2, <2>4, <3>1, <3>2 DEF Starting
  <2>7. RangeInHand'
    <3>1. \A k \in DOMAIN <<step>> : <<step>>[k][1] # "sent"
      BY <2>3 DEF step
    <3> QED  BY <1>1, <1>2, <1>4, <2>1, <2>3, <3>1, StillInHand DEF IInv
  <2>8. (todo \in [Threads -> Seq(Steps)])' /\ OneHolder'
    <3> DEFINE new == <<step>> \o Tail(todo[t])
    <3>1. new \in Seq(Steps) /\ todo' = [todo EXCEPT ![t] = new]
      BY <1>2, <1>4, <2>1, <2>3, Replaced DEF Goto
    <3>2. "s" \in Sides
      BY DEF Sides
    <3>3. OneThreadOwns("s") /\ OwnsOnce(todo[t])
      BY <1>3, <1>5, <1>7, <3>2, OwnerIs DEF IInv, OneHolder
    <3>4. OwnsOnce(new)
      BY <1>2, <1>3, <1>4, <2>3, <3>3, ReplacedOwner
    <3>5. ~OwnsNothing(todo[t])
      BY <1>3, <1>5 DEF OwnsNothing
    <3> HIDE DEF new
    <3>6. OneThreadOwns("s")'
      BY <1>1, <1>4, <3>1, <3>2, <3>3, <3>4, <3>5, OwnersAfter
    <3>7. ~NoThreadOwns("s")
      BY <3>2, <3>3, NotBoth
    <3>8. "r" \in Sides /\ "r" # Side(t)
      BY <1>7 DEF Sides
    <3>9. (NoThreadOwns("r") => NoThreadOwns("r")') /\ (OneThreadOwns("r") => OneThreadOwns("r")')
      BY <1>1, <1>4, <3>1, <3>8, OwnersAfter
    <3>10. ASSUME NEW q \in Sides
           PROVE  /\ completed'[q] \in {0, 1}
                  /\ \/ NoThreadOwns(q)' /\ (completed'[q] = 0 \/ parked'[q] = "none")
                     \/ OneThreadOwns(q)' /\ completed'[q] = 0 /\ parked'[q] = "none"
                  /\ lock'[q] > 0 <=> /\ ~Starting'
                                      /\ OneThreadOwns(q)' \/ parked'[q] # "none" \/ completed'[q] = 1
      <4>1. lock'[q] = lock[q] /\ parked'[q] = parked[q] /\ completed'[q] = completed[q]
        BY <1>1 DEF requestVars
      <4>2. (NoThreadOwns(q) => NoThreadOwns(q)') /\ (OneThreadOwns(q) => OneThreadOwns(q)')
        BY <3>6, <3>7, <3>9 DEF Sides
      <4> QED  BY <1>1, <1>6, <2>6, <4>1, <4>2, SameOwner
    <3>11. (todo \in [Threads -> Seq(Steps)])'
      BY <1>4, <2>4, <3>1
    <3> QED  BY <3>10, <3>11 DEF OneHolder
  <2>9. TypeOK'
    BY <1>1, <1>4, <2>1, <2>8 DEF TypeOK, Bytes, recvVars, requestVars
  <2> QED  BY <2>5, <2>7, <2>8, <2>9 DEF IInv
<1> QED  BY <1>1, <1>11, <1>12

LEMMA UnparkKeeps == ASSUME IInv, NEW t \in Threads, Unpark(t) PROVE IInv'
<1> DEFINE p == Side(t)
<1>1. /\ At(t, "unpark") /\ parked' = [parked EXCEPT ![p] = "none"]
      /\ Goto(t, CASE parked[p] = "none" -> <<>>
                   [] parked[p] = "start" -> <<<<"start">>>>
                   [] parked[p] = "schedule" -> <<<<"once">>>>)
      /\ UNCHANGED <<job, sendVars, recvVars, lock, depth, bytes, completed, packets, btlVars>>
  BY DEF Unpark
<1>2. todo[t] # <<>> /\ Head(todo[t])[1] = "unpark"
  BY <1>1, HeadIs
<1>3. ~Owns(Head(todo[t]))
  BY <1>2 DEF Owns
<1>4. /\ p \in Sides /\ todo \in [Threads -> Seq(Steps)]
      /\ parked \in [Sides -> {"none", "start", "schedule"}]
  BY SidesOf DEF IInv, TypeOK
<1>5. /\ (parked \in [Sides -> {"none", "start", "schedule"}])' /\ parked'[p] = "none"
      /\ \A q \in Sides \ {p} : parked'[q] = parked[q]
  BY <1>1, <1>4
<1>6. UNCHANGED <<job, ranges, net, writes, packets, busy, completed, lock>>
  BY <1>1 DEF sendVars, btlVars
<1>7. (todo \in [Threads -> Seq(Steps)])' /\ OneHolder' /\ RangeInHand' /\ (Starting' => Quiet')
  <2>1. CASE parked[p] = "none"
    <3>1. parked' = parked /\ Goto(t, <<>>)
      BY <2>1, <1>1, <1>4
    <3>2. DOMAIN <<>> = {}
      OBVIOUS
    <3> QED  BY <1>2, <1>3, <1>6, <3>1, <3>2, NoStep, QuietStep
  <2>2. ASSUME parked[p] # "none"
        PROVE  NoThreadOwns(p) /\ completed[p] = 0
    BY <2>2, <1>4 DEF IInv, OneHolder
  <2>3. CASE parked[p] = "start"
    <3> DEFINE step == <<"start">>
    <3>1. Goto(t, <<step>>)
      BY <2>3, <1>1
    <3>2. step \in Steps /\ Owns(step) /\ Starts(step) /\ step[1] # "sent"
      BY StepsAre DEF Owns, Starts
    <3> HIDE DEF step
    <3>3. <<step>> \in Seq(Steps) /\ OwnsOnce(<<step>>) /\ DOMAIN <<step>> = {1} /\ <<step>>[1] = step
      BY <3>2, OneStep
    <3>4. p = "s" /\ Starting /\ Quiet
      BY <1>4, <2>3 DEF IInv, TypeOK, Starting, Sides
    <3>5. /\ (todo \in [Threads -> Seq(Steps)])' /\ OneThreadOwns(p)'
          /\ \A q \in Sides \ {p} : /\ NoThreadOwns(q) => NoThreadOwns(q)'
                                    /\ OneThreadOwns(q) => OneThreadOwns(q)'
      BY <1>2, <1>6, <2>2, <2>3, <3>1, <3>3, Takes
    <3>6. Starting'
      <4> DEFINE new == <<step>> \o Tail(todo[t])
      <4>1. todo'[t] = new /\ Threads' = Threads
        BY <1>4, <1>6, <3>1, ThreadsStay DEF Goto
      <4>2. 1 \in DOMAIN new /\ new[1] = step
        BY <1>2, <1>4, <3>3
      <4> QED  BY <3>2, <4>1, <4>2 DEF Starting
    <3>7. Quiet'
      <4>1. \A k \in DOMAIN <<step>> : Side(t) = "s" /\ Starts(<<step>>[k])
        BY <3>2, <3>3, <3>4
      <4>2. parked'["r"] = "none" /\ \A q \in Sides : \A x \in busy'[q] : x.type = "other"
        BY <1>5, <1>6, <3>4 DEF Quiet, Sides
      <4> QED  BY <1>2, <1>4, <1>6, <3>1, <3>3, <3>4, <4>1, <4>2, QuietAfter
    <3>8. RangeInHand'
      <4>1. \A k \in DOMAIN <<step>> : <<step>>[k][1] # "sent"
        BY <3>2, <3>3
      <4> QED  BY <1>2, <1>4, <1>6, <3>1, <3>3, <4>1, StillInHand DEF IInv
    <3>9. OneHolder'
      <4>1. ASSUME NEW q \in Sides
            PROVE  /\ completed'[q] \in {0, 1}
                   /\ \/ NoThreadOwns(q)' /\ (completed'[q] = 0 \/ parked'[q] = "none")
                      \/ OneThreadOwns(q)' /\ completed'[q] = 0 /\ parked'[q] = "none"
                   /\ lock'[q] > 0 <=> /\ ~Starting'
                                       /\ OneThreadOwns(q)' \/ parked'[q] # "none" \/ completed'[q] = 1
        <5>1. CASE q = p
          <6>1. ~(lock[p] > 0)
            BY <1>4, <3>4 DEF IInv, OneHolder
          <6> QED  BY <5>1, <6>1, <1>5, <1>6, <2>2, <2>3, <3>5, <3>6
        <5>2. CASE q # p
          BY <5>2, <1>5, <1>6, <3>4, <3>5, <3>6, SameOwner
        <5> QED  BY <5>1, <5>2
      <4> QED  BY <4>1 DEF OneHolder
    <3> QED  BY <3>5, <3>7, <3>8, <3>9
  <2>4. CASE parked[p] = "schedule"
    <3> DEFINE step == <<"once">>
    <3>1. Goto(t, <<step>>)
      BY <2>4, <1>1
    <3>2. step \in Steps /\ Owns(step) /\ ~Starts(step) /\ step[1] # "sent"
      BY StepsAre DEF Owns, Starts
    <3> HIDE DEF step
    <3>3. <<step>> \in Seq(Steps) /\ OwnsOnce(<<step>>) /\ DOMAIN <<step>> = {1} /\ <<step>>[1] = step
      BY <3>2, OneStep
    <3>4. ~Starting
      <4>1. SUFFICES ASSUME Starting PROVE FALSE
        OBVIOUS
      <4>2. p = "s"
        BY <1>4, <2>4, <4>1 DEF IInv, Quiet, Sides
      <4>3. PICK u \in Threads : \E i \in DOMAIN todo[u] : Starts(todo[u][i])
        BY <2>4, <4>1, <4>2 DEF Starting
      <4>4. PICK i \in DOMAIN todo[u] : Starts(todo[u][i])
        BY <4>3
      <4>5. Owns(todo[u][i])
        BY <4>4, StartsOwn
      <4>6. Side(u) = "s"
        BY <4>1, <4>4, <4>5 DEF IInv, Quiet, Owns
      <4> QED  BY <2>2, <2>4, <4>2, <4>5, <4>6 DEF NoThreadOwns, OwnsNothing
    <3>5. /\ (todo \in [Threads -> Seq(Steps)])' /\ OneThreadOwns(p)'
          /\ \A q \in Sides \ {p} : /\ NoThreadOwns(q) => NoThreadOwns(q)'
                                    /\ OneThreadOwns(q) => OneThreadOwns(q)'
      BY <1>2, <1>6, <2>2, <2>4, <3>1, <3>3, Takes
    <3>6. ~Starting'
      <4>1. parked'["s"] # "start"
        BY <1>5, <3>4 DEF Starting, Sides
      <4>2. \A k \in DOMAIN <<step>> : ~Starts(<<step>>[k])
        BY <3>2, <3>3
      <4> QED  BY <1>2, <1>4, <1>6, <3>1, <3>3, <3>4, <4>1, <4>2, StillStarted
    <3>7. RangeInHand'
      <4>1. \A k \in DOMAIN <<step>> : <<step>>[k][1] # "sent"
        BY <3>2, <3>3
      <4> QED  BY <1>2, <1>4, <1>6, <3>1, <3>3, <4>1, StillInHand DEF IInv
    <3>8. OneHolder'
      <4>1. ASSUME NEW q \in Sides
            PROVE  /\ completed'[q] \in {0, 1}
                   /\ \/ NoThreadOwns(q)' /\ (completed'[q] = 0 \/ parked'[q] = "none")
                      \/ OneThreadOwns(q)' /\ completed'[q] = 0 /\ parked'[q] = "none"
                   /\ lock'[q] > 0 <=> /\ ~Starting'
                                       /\ OneThreadOwns(q)' \/ parked'[q] # "none" \/ completed'[q] = 1
        <5>1. CASE q = p
          <6>1. lock[p] > 0
            BY <1>4, <2>4, <3>4 DEF IInv, OneHolder
          <6> QED  BY <5>1, <6>1, <1>5, <1>6, <2>2, <2>4, <3>5, <3>6
        <5>2. CASE q # p
          BY <5>2, <1>5, <1>6, <3>4, <3>5, <3>6, SameOwner
        <5> QED  BY <5>1, <5>2
      <4> QED  BY <4>1 DEF OneHolder
    <3> QED  BY <3>5, <3>6, <3>7, <3>8
  <2> QED  BY <2>1, <2>3, <2>4, <1>4
<1>8. TypeOK'
  <2>1. parked'["r"] # "start"
    BY <1>4, <1>5 DEF IInv, TypeOK, Sides
  <2> QED  BY <1>1, <1>5, <1>7, <2>1 DEF IInv, TypeOK, Bytes, sendVars, recvVars, btlVars
<1> QED  BY <1>7, <1>8 DEF IInv

-----------------------------------------------------------------------------
(* A thread begins a callback.                                             *)

LEMMA IdleStep ==
  ASSUME IInv, NEW t \in Threads, todo[t] = <<>>, NEW steps \in Seq(Steps), OwnsNothing(steps),
         todo' = [todo EXCEPT ![t] = steps], UNCHANGED <<job, parked, completed, lock, ranges>>
  PROVE  /\ (todo \in [Threads -> Seq(Steps)])' /\ OneHolder' /\ RangeInHand'
         /\ Starting' <=> Starting
<1>1. todo \in [Threads -> Seq(Steps)] /\ Threads' = Threads
  BY ThreadsStay DEF IInv, TypeOK
<1>2. OwnsNothing(todo[t]) /\ ~OwnsOnce(todo[t])
  BY DEF OwnsNothing, OwnsOnce
<1>3. \A u \in Threads : todo'[u] = IF u = t THEN steps ELSE todo[u]
  BY <1>1
<1>4. \A k \in DOMAIN steps : ~Starts(steps[k]) /\ steps[k][1] # "sent"
  BY StartsOwn DEF OwnsNothing, Owns
<1>5. Starting' <=> Starting
  <2>1. \A u \in Threads : (\E i \in DOMAIN todo'[u] : Starts(todo'[u][i])) <=>
                           (\E i \in DOMAIN todo[u] : Starts(todo[u][i]))
    BY <1>3, <1>4
  <2> QED  BY <1>1, <2>1 DEF Starting
<1>6. RangeInHand'
  BY <1>1, <1>3, <1>4 DEF IInv, RangeInHand
<1>7. OneHolder'
  <2>1. ASSUME NEW q \in Sides
        PROVE  (NoThreadOwns(q) => NoThreadOwns(q)') /\ (OneThreadOwns(q) => OneThreadOwns(q)')
    BY <1>1, <1>2, OwnersAfter
  <2>2. ASSUME NEW q \in Sides
        PROVE  /\ completed'[q] \in {0, 1}
               /\ \/ NoThreadOwns(q)' /\ (completed'[q] = 0 \/ parked'[q] = "none")
                  \/ OneThreadOwns(q)' /\ completed'[q] = 0 /\ parked'[q] = "none"
               /\ lock'[q] > 0 <=> /\ ~Starting'
                                   /\ OneThreadOwns(q)' \/ parked'[q] # "none" \/ completed'[q] = 1
    BY <2>1, <1>5, SameOwner
  <2> QED  BY <2>2 DEF OneHolder
<1> QED  BY <1>1, <1>5, <1>6, <1>7

LEMMA QuietIdle ==
  ASSUME Quiet, todo \in [Threads -> Seq(Steps)], NEW t \in Threads, NEW steps,
         todo' = [todo EXCEPT ![t] = steps],
         UNCHANGED <<job, net, writes, packets, completed, parked>>,
         \A p \in Sides : busy'[p] \subseteq busy[p],
         \A k \in DOMAIN steps : \/ steps[k][1] \in {"return", "progress"}
                                 \/ Side(t) = "s" /\ steps[k][1] = "unpark"
  PROVE  Quiet'
<1>1. Threads' = Threads
  BY ThreadsStay
<1>2. \A u \in Threads : todo'[u] = IF u = t THEN steps ELSE todo[u]
  OBVIOUS
<1>3. \A u \in Threads : \A i \in DOMAIN todo'[u] :
        \/ todo'[u][i][1] \in {"return", "progress"}
        \/ Side(u) = "s" /\ (Starts(todo'[u][i]) \/ todo'[u][i][1] = "unpark")
  BY <1>2 DEF Quiet
<1> QED  BY <1>1, <1>3 DEF Quiet

LEMMA ReceiveKeeps ==
  ASSUME IInv, NEW t \in Threads, NEW m \in net, Receive(t, m)
  PROVE  IInv'
<1>1. /\ todo[t] = <<>> /\ net' = net \ {m} /\ todo' = [todo EXCEPT ![t] = Handler(m)]
      /\ UNCHANGED <<job, sendVars, recvVars, requestVars, packets, busy, free, errors>>
  BY DEF Receive, Idle
<1>2. m \in OnTheNet /\ job.length \in Int
  BY JobAssumption DEF IInv, TypeOK
<1>3. Handler(m) \in Seq(Steps) /\ OwnsNothing(Handler(m))
  BY <1>2, HandlerSteps
<1>4. ~Starting
  BY DEF IInv, Quiet
<1>5. /\ (todo \in [Threads -> Seq(Steps)])' /\ OneHolder' /\ RangeInHand'
      /\ Starting' <=> Starting
  BY <1>1, <1>3, IdleStep DEF sendVars, requestVars
<1>6. TypeOK'
  BY <1>1, <1>5 DEF IInv, TypeOK, Bytes, sendVars, recvVars, requestVars
<1> QED  BY <1>4, <1>5, <1>6 DEF IInv

LEMMA WrittenType ==
  ASSUME TypeOK, NEW at, NEW len
  PROVE  Written(at, len) \in [Bytes -> Nat]
BY DEF TypeOK, Written

LEMMA FinishKeeps ==
  ASSUME IInv, NEW t \in Threads, NEW m \in busy[Side(t)], Finish(t, m)
  PROVE  IInv'
<1> DEFINE steps == Callback(m) \o <<<<"return">>>>
<1>1. /\ todo[t] = <<>> /\ busy' = [busy EXCEPT ![Side(t)] = @ \ {m}]
      /\ got' = IF m.type = "write" THEN Written(m.at, m.len) ELSE got
      /\ todo' = [todo EXCEPT ![t] = steps]
      /\ UNCHANGED <<job, sendVars, matched, ackSent, offset, requestVars, packets, net, free, errors>>
  BY DEF Finish, Idle
<1>2. Side(t) \in Sides /\ m \in InUse /\ TypeOK
  BY SidesOf DEF IInv, TypeOK
<1>3. Callback(m) \in Seq(Steps) /\ OwnsNothing(Callback(m))
  BY <1>2, CallbackSteps
<1>4. <<<<"return">>>> \in Seq(Steps) /\ OwnsNothing(<<<<"return">>>>)
      /\ DOMAIN <<<<"return">>>> = {1}
  <2>1. <<"return">> \in Steps /\ ~Owns(<<"return">>)
    BY StepsAre DEF Owns
  <2> QED  BY <2>1, OneStep
<1>5. /\ steps \in Seq(Steps) /\ OwnsNothing(steps)
      /\ \A i \in DOMAIN steps :
           \/ i \in DOMAIN Callback(m) /\ steps[i] = Callback(m)[i]
           \/ i - Len(Callback(m)) \in {1} /\ steps[i] = <<<<"return">>>>[i - Len(Callback(m))]
  BY <1>3, <1>4, Joined
<1> HIDE DEF steps
<1>6. /\ (todo \in [Threads -> Seq(Steps)])' /\ OneHolder' /\ RangeInHand'
      /\ Starting' <=> Starting
  BY <1>1, <1>5, IdleStep DEF sendVars, requestVars
<1>7. ASSUME Starting
      PROVE  Quiet'
  <2>1. Quiet /\ m.type = "other"
    BY <1>2, <1>7 DEF IInv, Quiet
  <2>2. Callback(m) = <<<<"progress">>>>
    BY <2>1 DEF Callback
  <2>3. \A k \in DOMAIN steps : steps[k][1] \in {"return", "progress"}
    <3>1. ASSUME NEW k \in DOMAIN steps
          PROVE  steps[k] \in {<<"return">>, <<"progress">>}
      BY <1>5, <2>2
    <3> QED  BY <3>1
  <2>4. \A q \in Sides : busy'[q] \subseteq busy[q]
    BY <1>1, <1>2 DEF TypeOK
  <2>5. UNCHANGED <<job, net, writes, packets, completed, parked>>
    BY <1>1 DEF sendVars, requestVars
  <2> QED  BY <1>1, <1>2, <2>1, <2>3, <2>4, <2>5, QuietIdle DEF TypeOK
<1>8. (busy \in [Sides -> SUBSET InUse])' /\ got' \in [Bytes -> Nat]
  BY <1>1, <1>2, WrittenType DEF TypeOK
<1>9. TypeOK'
  BY <1>1, <1>2, <1>6, <1>8 DEF TypeOK, Bytes, sendVars, requestVars
<1> QED  BY <1>6, <1>7, <1>9 DEF IInv

LEMMA PollKeeps == ASSUME IInv, NEW t \in Threads, Poll(t) PROVE IInv'
<1> DEFINE step == <<"unpark">>
<1>1. /\ todo[t] = <<>> /\ Side(t) = "s" /\ todo' = [todo EXCEPT ![t] = <<step>>]
      /\ UNCHANGED <<job, sendVars, recvVars, requestVars, packets, btlVars>>
  BY DEF Poll, Idle
<1>2. step \in Steps /\ ~Owns(step) /\ step[1] = "unpark"
  BY StepsAre DEF Owns
<1> HIDE DEF step
<1>3. <<step>> \in Seq(Steps) /\ OwnsNothing(<<step>>) /\ \A k \in DOMAIN <<step>> : <<step>>[k] = step
  BY <1>2, OneStep
<1>4. UNCHANGED <<job, net, writes, packets, completed, parked, busy, lock, ranges>>
  BY <1>1 DEF sendVars, requestVars, btlVars
<1>5. /\ (todo \in [Threads -> Seq(Steps)])' /\ OneHolder' /\ RangeInHand'
      /\ Starting' <=> Starting
  BY <1>1, <1>3, <1>4, IdleStep
<1>6. Starting => Quiet'
  <2>1. \A q \in Sides : busy'[q] \subseteq busy[q]
    BY <1>4
  <2>2. todo \in [Threads -> Seq(Steps)] /\ (Starting => Quiet)
    BY DEF IInv, TypeOK
  <2>3. \A k \in DOMAIN <<step>> : Side(t) = "s" /\ <<step>>[k][1] = "unpark"
    BY <1>1, <1>2, <1>3
  <2> QED  BY <1>1, <1>4, <2>1, <2>2, <2>3, QuietIdle
<1>7. TypeOK'
  BY <1>1, <1>5 DEF IInv, TypeOK, Bytes, sendVars, recvVars, requestVars, btlVars
<1> QED  BY <1>5, <1>6, <1>7 DEF IInv

-----------------------------------------------------------------------------
(* The send request.                                                       *)

LEMMA StateKeeps == ASSUME IInv, NEW t \in Threads, StateDown(t) \/ StateKept(t) PROVE IInv'
<1>1. /\ At(t, "state") \/ At(t, "acked")
      /\ Goto(t, <<>>) /\ state' \in {state, state - 1}
      /\ UNCHANGED <<job, throttle, ranges, writes, recvVars, requestVars, packets, btlVars>>
  BY DEF StateDown, StateKept, sendVars
<1>2. (todo \in [Threads -> Seq(Steps)])' /\ OneHolder' /\ RangeInHand' /\ ~Starting'
  BY <1>1, NoStep, PlainAt DEF requestVars
<1>3. TypeOK'
  BY <1>1, <1>2 DEF IInv, TypeOK, Bytes, recvVars, requestVars, btlVars
<1> QED  BY <1>2, <1>3 DEF IInv

LEMMA ThrottleKeeps == ASSUME IInv, NEW t \in Threads, Throttle(t) PROVE IInv'
<1>1. /\ At(t, "throttle") /\ Goto(t, <<>>) /\ throttle' \in BOOLEAN
      /\ UNCHANGED <<job, state, ranges, writes, recvVars, requestVars, packets, btlVars>>
  BY DEF Throttle
<1>2. (todo \in [Threads -> Seq(Steps)])' /\ OneHolder' /\ RangeInHand' /\ ~Starting'
  BY <1>1, NoStep, PlainAt DEF requestVars
<1>3. TypeOK'
  BY <1>1, <1>2 DEF IInv, TypeOK, Bytes, recvVars, requestVars, btlVars
<1> QED  BY <1>2, <1>3 DEF IInv

LEMMA AddRangeKeeps == ASSUME IInv, NEW t \in Threads, AddRange(t) PROVE IInv'
<1>1. /\ At(t, "range") /\ Goto(t, <<>>)
      /\ ranges' = IF Argument(t, 2) = 0 THEN ranges
                   ELSE Append(ranges, <<Argument(t, 1), Argument(t, 2)>>)
      /\ UNCHANGED <<job, state, throttle, writes, recvVars, requestVars, packets, btlVars>>
  BY DEF AddRange
<1>2. Argument(t, 1) \in Int /\ Argument(t, 2) \in Int
  BY <1>1, HeadIs, StepName DEF Argument
<1>3. ranges' \in Seq(Int \X Int) /\ (ranges # <<>> => ranges' # <<>>)
  <2>1. ranges \in Seq(Int \X Int)
    BY DEF IInv, TypeOK
  <2>2. \A range \in Int \X Int : /\ Append(ranges, range) \in Seq(Int \X Int)
                                   /\ Len(Append(ranges, range)) = Len(ranges) + 1
    BY <2>1
  <2>3. ASSUME Argument(t, 2) # 0
        PROVE  ranges' \in Seq(Int \X Int) /\ Len(ranges') = Len(ranges) + 1
    BY <1>1, <1>2, <2>2, <2>3
  <2>4. Argument(t, 2) = 0 => ranges' = ranges
    BY <1>1
  <2> QED  BY <2>1, <2>3, <2>4
<1>4. (todo \in [Threads -> Seq(Steps)])' /\ OneHolder' /\ RangeInHand' /\ ~Starting'
  BY <1>1, <1>3, NoStep, PlainAt DEF requestVars
<1>5. TypeOK'
  BY <1>1, <1>3, <1>4 DEF IInv, TypeOK, Bytes, recvVars, requestVars, btlVars
<1> QED  BY <1>4, <1>5 DEF IInv

LEMMA PostponeKeeps == ASSUME IInv, NEW t \in Threads, Postpone(t) PROVE IInv'
<1>1. /\ At(t, "postpone") /\ Goto(t, <<>>)
      /\ writes' = Append(writes, <<Argument(t, 1), Argument(t, 2)>>)
      /\ UNCHANGED <<job, state, throttle, ranges, recvVars, requestVars, packets, btlVars>>
  BY DEF Postpone
<1>2. Argument(t, 1) \in Int /\ Argument(t, 2) \in Int /\ writes \in Seq(Int \X Int)
  <2>1. Argument(t, 1) \in Int /\ Argument(t, 2) \in Int
    BY <1>1, HeadIs, StepName DEF Argument
  <2>2. writes \in Seq(Int \X Int)
    BY DEF IInv, TypeOK
  <2> QED  BY <2>1, <2>2
<1>3. writes' \in Seq(Int \X Int)
  BY <1>1, <1>2
<1>4. (todo \in [Threads -> Seq(Steps)])' /\ OneHolder' /\ RangeInHand' /\ ~Starting'
  BY <1>1, NoStep, PlainAt DEF requestVars
<1>5. TypeOK'
  BY <1>1, <1>3, <1>4 DEF IInv, TypeOK, Bytes, recvVars, requestVars, btlVars
<1> QED  BY <1>4, <1>5 DEF IInv

\* What there is to say about net after a send, or an attempt.
LEMMA SendSteps ==
  ASSUME TypeOK, NEW t \in Threads, NEW m \in OnTheNet, NEW next \in Seq(Steps), job' = job,
         Send(t, m, next)
  PROVE  /\ (busy \in [Sides -> SUBSET InUse])' /\ (free \in [Sides -> Nat])'
         /\ (errors \in 0 .. job.errors)' /\ (net \subseteq OnTheNet)'
         /\ \E steps \in Seq(Steps) :
              /\ Goto(t, steps)
              /\ OwnsNothing(next) => OwnsNothing(steps)
              /\ OwnsOnce(next) => OwnsOnce(steps)
              /\ \A i \in DOMAIN steps : ~Owns(steps[i]) \/ \E k \in DOMAIN next : steps[i] = next[k]
<1>1. Post(t, m, next) /\ net' = net \union {m}
  BY DEF Send
<1>2. m \in InUse
  BY DEF OnTheNet, InUse, Messages
<1>3. (net \subseteq OnTheNet)'
  BY <1>1 DEF TypeOK
<1> QED  BY <1>1, <1>2, <1>3, PostedSteps

\* A step that owns nothing sends a message, or does something else instead.
LEMMA PlainSend ==
  ASSUME IInv, NEW t \in Threads, NEW name, At(t, name),
         name \notin {"return", "progress", "unpark", "start", "once", "sent", "unlock",
                      "complete", "park"},
         NEW m \in OnTheNet, NEW next \in Seq(Steps), OwnsNothing(next),
         NEW other \in Seq(Steps), OwnsNothing(other),
         Send(t, m, next) \/ Fails(t, other),
         UNCHANGED <<job, parked, completed, lock, ranges>>
  PROVE  /\ (busy \in [Sides -> SUBSET InUse])' /\ (free \in [Sides -> Nat])'
         /\ (errors \in 0 .. job.errors)' /\ (net \subseteq OnTheNet)'
         /\ (todo \in [Threads -> Seq(Steps)])' /\ OneHolder' /\ RangeInHand' /\ ~Starting'
<1>1. TypeOK
  BY DEF IInv
<1>2. /\ (busy \in [Sides -> SUBSET InUse])' /\ (free \in [Sides -> Nat])'
      /\ (errors \in 0 .. job.errors)' /\ (net \subseteq OnTheNet)'
      /\ \E steps \in Seq(Steps) : Goto(t, steps) /\ OwnsNothing(steps)
  <2>1. CASE Send(t, m, next)
    BY <1>1, <2>1, SendSteps
  <2>2. CASE Fails(t, other)
    BY <1>1, <2>2, FailedSteps
  <2> QED  BY <2>1, <2>2
<1>3. PICK steps \in Seq(Steps) : Goto(t, steps) /\ OwnsNothing(steps)
  BY <1>2
<1>4. (todo \in [Threads -> Seq(Steps)])' /\ OneHolder' /\ RangeInHand' /\ ~Starting'
  BY <1>3, PlainAt
<1> QED  BY <1>2, <1>4

LEMMA WriteKeeps == ASSUME IInv, NEW t \in Threads, Write(t) PROVE IInv'
<1> DEFINE at == Argument(t, 1)
           len == Argument(t, 2)
           m == Message("write", at, len, FALSE)
           next == <<<<"writes", Argument(t, 3)>>>>
           later == <<<<"postpone", at, len>>>>
           instead == << <<"fin", at, len, FALSE>>, <<"range", at, len>>, <<"lock">> >>
<1>1. /\ At(t, "write")
      /\ \/ Post(t, m, next) /\ net' = net
         \/ Fails(t, later)
         \/ Fails(t, instead)
      /\ UNCHANGED <<job, sendVars, recvVars, requestVars, packets>>
  BY DEF Write, Fails
<1>2. at \in Int /\ len \in Int /\ Argument(t, 3) \in Int
  <2>1. Head(todo[t]) \in Steps /\ Head(todo[t])[1] = "write"
    BY <1>1, HeadIs
  <2> QED  BY <2>1, StepName DEF Argument
<1> HIDE DEF at, len
<1>3. m \in InUse /\ TypeOK
  BY <1>2 DEF InUse, Messages, Message, IInv
<1>4. next \in Seq(Steps) /\ OwnsNothing(next)
  <2>1. <<"writes", Argument(t, 3)>> \in Steps /\ ~Owns(<<"writes", Argument(t, 3)>>)
    BY <1>2, StepsAre DEF Owns
  <2> QED  BY <2>1, OneStep
<1>5. later \in Seq(Steps) /\ OwnsNothing(later)
  <2>1. <<"postpone", at, len>> \in Steps /\ ~Owns(<<"postpone", at, len>>)
    BY <1>2, StepsAre DEF Owns
  <2> QED  BY <2>1, OneStep
<1>6. instead \in Seq(Steps) /\ OwnsNothing(instead)
  <2>1. /\ <<"fin", at, len, FALSE>> \in Steps /\ <<"range", at, len>> \in Steps
        /\ <<"lock">> \in Steps
    BY <1>2, StepsAre
  <2> QED  BY <2>1 DEF OwnsNothing, Owns
<1> HIDE DEF m, next, later, instead
<1>7. /\ (busy \in [Sides -> SUBSET InUse])' /\ (free \in [Sides -> Nat])'
      /\ (errors \in 0 .. job.errors)' /\ (net \subseteq OnTheNet)'
      /\ \E steps \in Seq(Steps) : Goto(t, steps) /\ OwnsNothing(steps)
  <2>1. CASE Post(t, m, next) /\ net' = net
    <3>1. (net \subseteq OnTheNet)'
      BY <1>3, <2>1 DEF TypeOK
    <3> QED  BY <1>1, <1>3, <1>4, <2>1, <3>1, PostedSteps
  <2>2. CASE Fails(t, later)
    BY <1>1, <1>3, <1>5, <2>2, FailedSteps
  <2>3. CASE Fails(t, instead)
    BY <1>1, <1>3, <1>6, <2>3, FailedSteps
  <2> QED  BY <1>1, <2>1, <2>2, <2>3
<1>8. PICK steps \in Seq(Steps) : Goto(t, steps) /\ OwnsNothing(steps)
  BY <1>7
<1>9. (todo \in [Threads -> Seq(Steps)])' /\ OneHolder' /\ RangeInHand' /\ ~Starting'
  BY <1>1, <1>8, PlainAt DEF sendVars, requestVars
<1>10. TypeOK'
  BY <1>1, <1>3, <1>7, <1>9 DEF TypeOK, Bytes, sendVars, recvVars, requestVars
<1> QED  BY <1>9, <1>10 DEF IInv

\* A message waits for a descriptor.
LEMMA QueueStep ==
  ASSUME NEW m \in Pending
  PROVE  <<<<"queue", m>>>> \in Seq(Steps) /\ OwnsNothing(<<<<"queue", m>>>>) /\ m \in OnTheNet
<1>1. <<"queue", m>> \in Steps /\ ~Owns(<<"queue", m>>)
  BY StepsAre DEF Owns
<1>2. m \in OnTheNet
  BY DEF Pending, OnTheNet, Messages
<1> QED  BY <1>1, <1>2, OneStep

LEMMA SendFinKeeps == ASSUME IInv, NEW t \in Threads, SendFin(t) PROVE IInv'
<1> DEFINE m == Message("fin", Argument(t, 1), Argument(t, 2), Argument(t, 3))
<1>1. /\ At(t, "fin")
      /\ Send(t, m, <<>>) \/ Fails(t, <<<<"queue", m>>>>)
      /\ UNCHANGED <<job, sendVars, recvVars, requestVars, packets>>
  BY DEF SendFin
<1>2. Argument(t, 1) \in Int /\ Argument(t, 2) \in Int /\ Argument(t, 3) \in BOOLEAN
  <2>1. Head(todo[t]) \in Steps /\ Head(todo[t])[1] = "fin"
    BY <1>1, HeadIs
  <2> QED  BY <2>1, StepName DEF Argument
<1>3. m \in Pending
  BY <1>2 DEF Message, Pending, Messages
<1> HIDE DEF m
<1>4. /\ (busy \in [Sides -> SUBSET InUse])' /\ (free \in [Sides -> Nat])'
      /\ (errors \in 0 .. job.errors)' /\ (net \subseteq OnTheNet)'
      /\ (todo \in [Threads -> Seq(Steps)])' /\ OneHolder' /\ RangeInHand' /\ ~Starting'
  BY <1>1, <1>3, QueueStep, NoStep, PlainSend DEF sendVars, requestVars
<1>5. TypeOK'
  BY <1>1, <1>4 DEF IInv, TypeOK, Bytes, sendVars, recvVars, requestVars
<1> QED  BY <1>4, <1>5 DEF IInv

LEMMA SendAckKeeps == ASSUME IInv, NEW t \in Threads, SendAck(t) PROVE IInv'
<1> DEFINE Ack(flag) == Message("ack", job.split, 0, flag)
<1>1. /\ At(t, "ack")
      /\ \/ Send(t, Ack(job.split = job.first), <<>>)
         \/ \E flag \in BOOLEAN : Fails(t, <<<<"queue", Ack(flag)>>>>)
      /\ UNCHANGED <<job, sendVars, recvVars, requestVars, packets>>
  BY DEF SendAck
<1>2. job.split \in Int
  BY JobAssumption DEF IInv, TypeOK
<1>3. \A flag \in BOOLEAN : Ack(flag) \in Pending
  BY <1>2 DEF Message, Pending, Messages
<1> HIDE DEF Ack
<1>4. \E m, k \in Pending : Send(t, m, <<>>) \/ Fails(t, <<<<"queue", k>>>>)
  BY <1>1, <1>3
<1>5. PICK m \in Pending, k \in Pending : Send(t, m, <<>>) \/ Fails(t, <<<<"queue", k>>>>)
  BY <1>4
<1>6. /\ (busy \in [Sides -> SUBSET InUse])' /\ (free \in [Sides -> Nat])'
      /\ (errors \in 0 .. job.errors)' /\ (net \subseteq OnTheNet)'
      /\ (todo \in [Threads -> Seq(Steps)])' /\ OneHolder' /\ RangeInHand' /\ ~Starting'
  BY <1>1, <1>5, QueueStep, NoStep, PlainSend DEF sendVars, requestVars
<1>7. TypeOK'
  BY <1>1, <1>6 DEF IInv, TypeOK, Bytes, sendVars, recvVars, requestVars
<1> QED  BY <1>6, <1>7 DEF IInv

LEMMA PacketsKeeps == ASSUME IInv, NEW t \in Threads, Packets(t) PROVE IInv'
<1> DEFINE p == Side(t)
           left == Argument(t, 1)
           m == Head(packets[p])
<1>1. /\ At(t, "packets")
      /\ IF left = 0 \/ packets[p] = <<>>
         THEN Goto(t, <<>>) /\ UNCHANGED <<btlVars, packets>>
         ELSE /\ Send(t, m, <<<<"packets", left - 1>>>>) \/ Fails(t, <<<<"queue", m>>>>)
              /\ packets' = [packets EXCEPT ![p] = Tail(@)]
      /\ UNCHANGED <<job, sendVars, recvVars, requestVars>>
  BY DEF Packets
<1>2. p \in Sides /\ packets \in [Sides -> Seq(Pending)] /\ left \in Int
  <2>1. Head(todo[t]) \in Steps /\ Head(todo[t])[1] = "packets"
    BY <1>1, HeadIs
  <2>2. left \in Int
    BY <2>1, StepName DEF Argument
  <2> QED  BY <2>2, SidesOf DEF IInv, TypeOK
<1> HIDE DEF left
<1>3. CASE left = 0 \/ packets[p] = <<>>
  <2>1. (todo \in [Threads -> Seq(Steps)])' /\ OneHolder' /\ RangeInHand' /\ ~Starting'
    BY <1>1, <1>3, NoStep, PlainAt DEF sendVars, requestVars
  <2>2. TypeOK'
    BY <1>1, <1>3, <2>1 DEF IInv, TypeOK, Bytes, sendVars, recvVars, requestVars, btlVars
  <2> QED  BY <2>1, <2>2 DEF IInv
<1>4. CASE ~(left = 0 \/ packets[p] = <<>>)
  <2>1. m \in Pending /\ Tail(packets[p]) \in Seq(Pending)
    BY <1>2, <1>4
  <2>2. (packets \in [Sides -> Seq(Pending)])'
    BY <1>1, <1>2, <1>4, <2>1
  <2> DEFINE next == <<<<"packets", left - 1>>>>
  <2>3. next \in Seq(Steps) /\ OwnsNothing(next)
    <3>1. left - 1 \in Int
      BY <1>2
    <3>2. <<"packets", left - 1>> \in Steps /\ ~Owns(<<"packets", left - 1>>)
      BY <3>1, StepsAre DEF Owns
    <3> QED  BY <3>2, OneStep
  <2>4. Send(t, m, next) \/ Fails(t, <<<<"queue", m>>>>)
    BY <1>1, <1>4
  <2> HIDE DEF m, next
  <2>5. /\ (busy \in [Sides -> SUBSET InUse])' /\ (free \in [Sides -> Nat])'
        /\ (errors \in 0 .. job.errors)' /\ (net \subseteq OnTheNet)'
        /\ (todo \in [Threads -> Seq(Steps)])' /\ OneHolder' /\ RangeInHand' /\ ~Starting'
    BY <1>1, <2>1, <2>3, <2>4, QueueStep, PlainSend DEF sendVars, requestVars
  <2>6. TypeOK'
    BY <1>1, <2>2, <2>5 DEF IInv, TypeOK, Bytes, sendVars, recvVars, requestVars
  <2> QED  BY <2>5, <2>6 DEF IInv
<1> QED  BY <1>3, <1>4

LEMMA QueueKeeps == ASSUME IInv, NEW t \in Threads, Queue(t) PROVE IInv'
<1>1. /\ At(t, "queue") /\ Goto(t, <<>>)
      /\ packets' = [packets EXCEPT ![Side(t)] = Append(@, Argument(t, 1))]
      /\ UNCHANGED <<job, sendVars, recvVars, requestVars, btlVars>>
  BY DEF Queue
<1>2. Argument(t, 1) \in Pending
  <2>1. Head(todo[t]) \in Steps /\ Head(todo[t])[1] = "queue"
    BY <1>1, HeadIs
  <2> QED  BY <2>1, StepName DEF Argument
<1>3. Side(t) \in Sides /\ packets \in [Sides -> Seq(Pending)]
  BY SidesOf DEF IInv, TypeOK
<1>4. (packets \in [Sides -> Seq(Pending)])'
  <2>1. Append(packets[Side(t)], Argument(t, 1)) \in Seq(Pending)
    BY <1>2, <1>3
  <2> QED  BY <1>1, <1>3, <2>1
<1>5. (todo \in [Threads -> Seq(Steps)])' /\ OneHolder' /\ RangeInHand' /\ ~Starting'
  BY <1>1, NoStep, PlainAt DEF sendVars, requestVars
<1>6. TypeOK'
  BY <1>1, <1>4, <1>5 DEF IInv, TypeOK, Bytes, sendVars, recvVars, requestVars, btlVars
<1> QED  BY <1>5, <1>6 DEF IInv

LEMMA WritesKeeps == ASSUME IInv, NEW t \in Threads, Writes(t) PROVE IInv'
<1> DEFINE left == Argument(t, 1)
           step == <<"write", Head(writes)[1], Head(writes)[2], left - 1>>
<1>1. /\ At(t, "writes")
      /\ IF left = 0 \/ writes = <<>> THEN Goto(t, <<>>) /\ writes' = writes
         ELSE Goto(t, <<step>>) /\ writes' = Tail(writes)
      /\ UNCHANGED <<job, state, throttle, ranges, recvVars, requestVars, packets, btlVars>>
  BY DEF Writes
<1>2. left \in Int /\ writes \in Seq(Int \X Int)
  <2>1. Head(todo[t]) \in Steps /\ Head(todo[t])[1] = "writes"
    BY <1>1, HeadIs
  <2>2. left \in Int
    BY <2>1, StepName DEF Argument
  <2> QED  BY <2>2 DEF IInv, TypeOK
<1> HIDE DEF left
<1>3. writes' \in Seq(Int \X Int) /\ \E steps \in Seq(Steps) : Goto(t, steps) /\ OwnsNothing(steps)
  <2>1. CASE left = 0 \/ writes = <<>>
    BY <1>1, <1>2, <2>1, NoStep
  <2>2. CASE ~(left = 0 \/ writes = <<>>)
    <3>1. Head(writes) \in Int \X Int /\ Tail(writes) \in Seq(Int \X Int) /\ left - 1 \in Int
      BY <1>2, <2>2
    <3>2. Head(writes)[1] \in Int /\ Head(writes)[2] \in Int
      BY <3>1
    <3>3. step \in Steps /\ ~Owns(step)
      BY <3>1, <3>2, StepsAre DEF Owns
    <3>4. Goto(t, <<step>>) /\ writes' = Tail(writes)
      BY <1>1, <2>2
    <3> HIDE DEF step
    <3> QED  BY <3>1, <3>3, <3>4, OneStep
  <2> QED  BY <2>1, <2>2
<1>4. PICK steps \in Seq(Steps) : Goto(t, steps) /\ OwnsNothing(steps)
  BY <1>3
<1>5. (todo \in [Threads -> Seq(Steps)])' /\ OneHolder' /\ RangeInHand' /\ ~Starting'
  BY <1>1, <1>4, PlainAt DEF requestVars
<1>6. TypeOK'
  BY <1>1, <1>3, <1>5 DEF IInv, TypeOK, Bytes, recvVars, requestVars, btlVars
<1> QED  BY <1>5, <1>6 DEF IInv

-----------------------------------------------------------------------------
(* The receive request.                                                    *)

LEMMA MatchKeeps == ASSUME IInv, NEW t \in Threads, Match(t) PROVE IInv'
<1> DEFINE acks == job.split < job.length \/ job.first = job.length
           first == IF acks THEN <<<<"ack">>>> ELSE <<>>
           second == << <<"unpack", 0, job.first>>, <<"bytes", job.first>>, CheckOr(<<<<"more">>>>) >>
           steps == first \o second
<1>1. /\ At(t, "match") /\ Goto(t, steps)
      /\ matched' = TRUE /\ offset' = job.first /\ ackSent' = acks
      /\ UNCHANGED <<job, sendVars, got, requestVars, packets, btlVars>>
  BY DEF Match
<1>2. job.first \in Int
  BY JobAssumption DEF IInv, TypeOK
<1>3. acks \in BOOLEAN
  OBVIOUS
<1>4. first \in Seq(Steps) /\ OwnsNothing(first)
  <2>1. <<"ack">> \in Steps /\ ~Owns(<<"ack">>)
    BY StepsAre DEF Owns
  <2> QED  BY <2>1, OneStep, NoStep
<1>5. second \in Seq(Steps) /\ OwnsNothing(second)
  <2>1. <<"unpack", 0, job.first>> \in Steps
    <3>1. 0 \in Int
      OBVIOUS
    <3> QED  BY <1>2, <3>1, StepsAre
  <2>2. <<"bytes", job.first>> \in Steps
    BY <1>2, StepsAre
  <2>3. CheckOr(<<<<"more">>>>) \in Steps /\ ~Owns(CheckOr(<<<<"more">>>>))
    BY StepsAre DEF CheckOr, Owns
  <2> QED  BY <2>1, <2>2, <2>3 DEF OwnsNothing, Owns
<1> HIDE DEF first, second, acks
<1>6. steps \in Seq(Steps) /\ OwnsNothing(steps)
  BY <1>4, <1>5, Joined
<1> HIDE DEF steps
<1>7. (todo \in [Threads -> Seq(Steps)])' /\ OneHolder' /\ RangeInHand' /\ ~Starting'
  BY <1>1, <1>6, PlainAt DEF sendVars, requestVars
<1>8. TypeOK'
  BY <1>1, <1>2, <1>3, <1>7 DEF IInv, TypeOK, Bytes, sendVars, requestVars, btlVars
<1> QED  BY <1>7, <1>8 DEF IInv

LEMMA UnpackKeeps == ASSUME IInv, NEW t \in Threads, Unpack(t) PROVE IInv'
<1>1. /\ At(t, "unpack") /\ Goto(t, <<>>) /\ got' = Written(Argument(t, 1), Argument(t, 2))
      /\ UNCHANGED <<job, sendVars, matched, ackSent, offset, requestVars, packets, btlVars>>
  BY DEF Unpack
<1>2. got' \in [Bytes -> Nat]
  BY <1>1, WrittenType DEF IInv
<1>3. (todo \in [Threads -> Seq(Steps)])' /\ OneHolder' /\ RangeInHand' /\ ~Starting'
  BY <1>1, NoStep, PlainAt DEF sendVars, requestVars
<1>4. TypeOK'
  BY <1>1, <1>2, <1>3 DEF IInv, TypeOK, Bytes, sendVars, requestVars, btlVars
<1> QED  BY <1>3, <1>4 DEF IInv

LEMMA MoreKeeps == ASSUME IInv, NEW t \in Threads, More(t) PROVE IInv'
<1> DEFINE steps == IF offset < job.split THEN <<<<"lock">>>> ELSE <<>>
<1>1. /\ At(t, "more") /\ Goto(t, steps)
      /\ UNCHANGED <<job, sendVars, recvVars, requestVars, packets, btlVars>>
  BY DEF More
<1>2. steps \in Seq(Steps) /\ OwnsNothing(steps)
  BY Otherwise
<1> HIDE DEF steps
<1>3. (todo \in [Threads -> Seq(Steps)])' /\ OneHolder' /\ RangeInHand' /\ ~Starting'
  BY <1>1, <1>2, PlainAt DEF sendVars, requestVars
<1>4. TypeOK'
  BY <1>1, <1>3 DEF IInv, TypeOK, Bytes, sendVars, recvVars, requestVars, btlVars
<1> QED  BY <1>3, <1>4 DEF IInv

-----------------------------------------------------------------------------
(* Rounds of scheduling.                                                   *)

\* The owner of a request goes on with one step, for which there may be the steps
\* of a callback first.
LEMMA OwnerAt ==
  ASSUME IInv, NEW t \in Threads, NEW name \in {"once", "sent"}, At(t, name),
         NEW step \in Steps, Owns(step), ~Starts(step),
         NEW steps \in Seq(Steps), OwnsOnce(steps), Goto(t, steps),
         \A i \in DOMAIN steps : ~Owns(steps[i]) \/ steps[i] = step,
         UNCHANGED <<job, parked, completed, lock>>,
         Side(t) = "s" /\ step[1] = "sent" => ranges' # <<>>,
         Side(t) # "s" /\ ranges # <<>> => ranges' # <<>>
  PROVE  (todo \in [Threads -> Seq(Steps)])' /\ OneHolder' /\ RangeInHand' /\ ~Starting'
<1>1. todo[t] # <<>> /\ Head(todo[t])[1] = name
  BY HeadIs
<1>2. Owns(Head(todo[t])) /\ ~Starting
  BY <1>1, HasStarted DEF Owns
<1>3. \A k \in DOMAIN steps : ~Starts(steps[k])
  BY StartsOwn
<1>4. \A k \in DOMAIN steps : Side(t) = "s" /\ steps[k][1] = "sent" => ranges' # <<>>
  <2>1. \A k \in DOMAIN steps : steps[k][1] = "sent" => Owns(steps[k])
    BY DEF Owns
  <2> QED  BY <2>1
<1>5. \A q \in Sides : lock'[q] > 0 <=> lock[q] > 0
  OBVIOUS
<1> QED  BY <1>1, <1>2, <1>3, <1>4, <1>5, OwnerStep

\* One step, as a list of its own.
LEMMA OwnerList ==
  ASSUME NEW step \in Steps, Owns(step)
  PROVE  /\ <<step>> \in Seq(Steps) /\ OwnsOnce(<<step>>)
         /\ \A i \in DOMAIN <<step>> : <<step>>[i] = step
BY OneStep

LEMMA OwnerSteps ==
  /\ <<"unlock">> \in Steps /\ Owns(<<"unlock">>) /\ ~Starts(<<"unlock">>) /\ <<"unlock">>[1] # "sent"
  /\ <<"once">> \in Steps /\ Owns(<<"once">>) /\ ~Starts(<<"once">>) /\ <<"once">>[1] # "sent"
  /\ <<"park", "schedule">> \in Steps /\ Owns(<<"park", "schedule">>)
     /\ ~Starts(<<"park", "schedule">>) /\ <<"park", "schedule">>[1] # "sent"
  /\ \A n \in Int : <<"sent", n>> \in Steps /\ Owns(<<"sent", n>>) /\ ~Starts(<<"sent", n>>)
BY StepsAre DEF Owns, Starts

\* The owner sends a message and counts it, or has its request wait.
LEMMA OwnerSend ==
  ASSUME IInv, NEW t \in Threads, At(t, "once"), NEW m \in OnTheNet, NEW n \in Int,
         Send(t, m, <<<<"sent", n>>>>) \/ Fails(t, <<<<"park", "schedule">>>>),
         UNCHANGED <<job, parked, completed, lock, ranges>>,
         Side(t) = "s" => ranges # <<>>
  PROVE  /\ (busy \in [Sides -> SUBSET InUse])' /\ (free \in [Sides -> Nat])'
         /\ (errors \in 0 .. job.errors)' /\ (net \subseteq OnTheNet)'
         /\ (todo \in [Threads -> Seq(Steps)])' /\ OneHolder' /\ RangeInHand' /\ ~Starting'
<1> DEFINE sent == <<"sent", n>>
           park == <<"park", "schedule">>
<1>1. /\ sent \in Steps /\ Owns(sent) /\ ~Starts(sent)
      /\ park \in Steps /\ Owns(park) /\ ~Starts(park) /\ park[1] # "sent"
  BY OwnerSteps
<1>2. TypeOK
  BY DEF IInv
<1>3. Send(t, m, <<sent>>) \/ Fails(t, <<park>>)
  OBVIOUS
<1> HIDE DEF sent, park
<1>4. CASE Send(t, m, <<sent>>)
  <2>1. <<sent>> \in Seq(Steps) /\ OwnsOnce(<<sent>>) /\ \A i \in DOMAIN <<sent>> : <<sent>>[i] = sent
    BY <1>1, OwnerList
  <2>2. /\ (busy \in [Sides -> SUBSET InUse])' /\ (free \in [Sides -> Nat])'
        /\ (errors \in 0 .. job.errors)' /\ (net \subseteq OnTheNet)'
        /\ \E steps \in Seq(Steps) :
             /\ Goto(t, steps) /\ OwnsOnce(steps)
             /\ \A i \in DOMAIN steps : ~Owns(steps[i]) \/ \E k \in DOMAIN <<sent>> : steps[i] = <<sent>>[k]
    BY <1>2, <1>4, <2>1, SendSteps
  <2>3. PICK steps \in Seq(Steps) :
          /\ Goto(t, steps) /\ OwnsOnce(steps)
          /\ \A i \in DOMAIN steps : ~Owns(steps[i]) \/ \E k \in DOMAIN <<sent>> : steps[i] = <<sent>>[k]
    BY <2>2
  <2>4. \A i \in DOMAIN steps : ~Owns(steps[i]) \/ steps[i] = sent
    BY <2>1, <2>3
  <2>5. (todo \in [Threads -> Seq(Steps)])' /\ OneHolder' /\ RangeInHand' /\ ~Starting'
    BY <1>1, <2>3, <2>4, OwnerAt
  <2> QED  BY <2>2, <2>5
<1>5. CASE Fails(t, <<park>>)
  <2>1. <<park>> \in Seq(Steps) /\ OwnsOnce(<<park>>) /\ \A i \in DOMAIN <<park>> : <<park>>[i] = park
    BY <1>1, OwnerList
  <2>2. /\ (busy \in [Sides -> SUBSET InUse])' /\ (free \in [Sides -> Nat])'
        /\ (errors \in 0 .. job.errors)' /\ (net \subseteq OnTheNet)' /\ Goto(t, <<park>>)
    BY <1>2, <1>5, FailedSteps
  <2>3. (todo \in [Threads -> Seq(Steps)])' /\ OneHolder' /\ RangeInHand' /\ ~Starting'
    BY <1>1, <2>1, <2>2, OwnerAt
  <2> QED  BY <2>2, <2>3
<1> QED  BY <1>3, <1>4, <1>5

\* The owner goes on with one step and sends nothing.
LEMMA OwnerGoes ==
  ASSUME IInv, NEW t \in Threads, NEW name \in {"once", "sent"}, At(t, name),
         NEW step \in {<<"unlock">>, <<"once">>}, Goto(t, <<step>>),
         UNCHANGED <<job, parked, completed, lock>>,
         Side(t) # "s" /\ ranges # <<>> => ranges' # <<>>
  PROVE  (todo \in [Threads -> Seq(Steps)])' /\ OneHolder' /\ RangeInHand' /\ ~Starting'
<1>1. step \in Steps /\ Owns(step) /\ ~Starts(step) /\ step[1] # "sent"
  BY OwnerSteps
<1>2. <<step>> \in Seq(Steps) /\ OwnsOnce(<<step>>) /\ \A i \in DOMAIN <<step>> : <<step>>[i] = step
  BY <1>1, OwnerList
<1> QED  BY <1>1, <1>2, OwnerAt

LEMMA SmallerIsInt == ASSUME NEW a \in Int, NEW b \in Int PROVE Smaller(a, b) \in Int
BY DEF Smaller

LEMMA SendOnceKeeps == ASSUME IInv, NEW t \in Threads, SendOnce(t) PROVE IInv'
<1> DEFINE range == Head(ranges)
           n == Smaller(range[2], job.frag)
           m == Message("frag", range[1], n, FALSE)
<1>1. /\ At(t, "once") /\ Side(t) = "s"
      /\ IF ranges = <<>> \/ (throttle /\ Full("s"))
         THEN Goto(t, <<<<"unlock">>>>) /\ UNCHANGED btlVars
         ELSE Send(t, m, <<<<"sent", n>>>>) \/ Fails(t, <<<<"park", "schedule">>>>)
      /\ UNCHANGED <<job, sendVars, recvVars, requestVars, packets>>
  BY DEF SendOnce
<1>2. UNCHANGED <<job, parked, completed, lock, ranges>>
  BY <1>1 DEF sendVars, requestVars
<1>3. CASE ranges = <<>> \/ (throttle /\ Full("s"))
  <2>1. (todo \in [Threads -> Seq(Steps)])' /\ OneHolder' /\ RangeInHand' /\ ~Starting'
    BY <1>1, <1>2, <1>3, OwnerGoes
  <2>2. TypeOK'
    BY <1>1, <1>3, <2>1 DEF IInv, TypeOK, Bytes, sendVars, recvVars, requestVars, btlVars
  <2> QED  BY <2>1, <2>2 DEF IInv
<1>4. CASE ~(ranges = <<>> \/ (throttle /\ Full("s")))
  <2>1. range \in Int \X Int /\ job.frag \in Int
    BY <1>4, JobAssumption DEF IInv, TypeOK
  <2>2. range[1] \in Int /\ n \in Int
    BY <2>1, SmallerIsInt
  <2>3. Send(t, m, <<<<"sent", n>>>>) \/ Fails(t, <<<<"park", "schedule">>>>)
    BY <1>1, <1>4
  <2> HIDE DEF n
  <2>4. m \in OnTheNet
    BY <2>2 DEF Message, OnTheNet, Messages
  <2> HIDE DEF m
  <2>5. /\ (busy \in [Sides -> SUBSET InUse])' /\ (free \in [Sides -> Nat])'
        /\ (errors \in 0 .. job.errors)' /\ (net \subseteq OnTheNet)'
        /\ (todo \in [Threads -> Seq(Steps)])' /\ OneHolder' /\ RangeInHand' /\ ~Starting'
    BY <1>1, <1>2, <1>4, <2>2, <2>3, <2>4, OwnerSend
  <2>6. TypeOK'
    BY <1>1, <2>5 DEF IInv, TypeOK, Bytes, sendVars, recvVars, requestVars
  <2> QED  BY <2>5, <2>6 DEF IInv
<1> QED  BY <1>3, <1>4

LEMMA FragSentKeeps == ASSUME IInv, NEW t \in Threads, FragSent(t) PROVE IInv'
<1> DEFINE n == Argument(t, 1)
           range == Head(ranges)
           rest == IF range[2] = n THEN <<>> ELSE <<<<range[1] + n, range[2] - n>>>>
           left == rest \o Tail(ranges)
           step == IF left = <<>> THEN <<"unlock">> ELSE <<"once">>
<1>1. /\ At(t, "sent") /\ Side(t) = "s" /\ ranges' = left
      /\ depth' = [depth EXCEPT !["s"] = @ + 1]
      /\ Goto(t, <<step>>)
      /\ UNCHANGED <<job, state, throttle, writes, recvVars, lock, bytes, parked, completed,
                     packets, btlVars>>
  BY DEF FragSent
<1>2. todo[t] # <<>> /\ Head(todo[t]) \in Steps /\ Head(todo[t])[1] = "sent"
  BY <1>1, HeadIs
<1>3. n \in Int
  BY <1>2, StepName DEF Argument
<1>4. 1 \in DOMAIN todo[t] /\ Head(todo[t]) = todo[t][1]
  BY <1>2 DEF IInv, TypeOK
<1>5. ranges \in Seq(Int \X Int) /\ ranges # <<>>
  BY <1>1, <1>2, <1>4 DEF IInv, TypeOK, RangeInHand
<1>6. left \in Seq(Int \X Int)
  <2>1. range \in Int \X Int /\ Tail(ranges) \in Seq(Int \X Int)
    BY <1>5
  <2>2. <<range[1] + n, range[2] - n>> \in Int \X Int
    BY <1>3, <2>1
  <2>3. rest \in Seq(Int \X Int)
    BY <2>2
  <2> HIDE DEF rest
  <2> QED  BY <2>1, <2>3
<1> HIDE DEF left, n
<1>7. (todo \in [Threads -> Seq(Steps)])' /\ OneHolder' /\ RangeInHand' /\ ~Starting'
  <2>1. step \in {<<"unlock">>, <<"once">>}
    OBVIOUS
  <2> HIDE DEF step
  <2> QED  BY <1>1, <2>1, OwnerGoes
<1>8. TypeOK'
  <2>1. (depth \in [Sides -> Int])'
    <3>1. depth \in [Sides -> Int]
      BY DEF IInv, TypeOK
    <3> QED  BY <1>1, <3>1 DEF Sides
  <2> QED  BY <1>1, <1>6, <1>7, <2>1 DEF IInv, TypeOK, Bytes, recvVars, btlVars
<1> QED  BY <1>7, <1>8 DEF IInv

LEMMA RecvOnceKeeps == ASSUME IInv, NEW t \in Threads, RecvOnce(t) PROVE IInv'
<1> DEFINE n == Smaller(job.split - offset, job.put)
           m == Message("put", offset, n, ~ackSent)
<1>1. /\ At(t, "once") /\ Side(t) = "r" /\ ackSent' \in {ackSent, TRUE}
      /\ \/ Goto(t, <<<<"unlock">>>>) /\ UNCHANGED btlVars
         \/ Send(t, m, <<<<"sent", n>>>>)
         \/ Fails(t, <<<<"park", "schedule">>>>)
      /\ UNCHANGED <<job, sendVars, matched, offset, got, requestVars, packets>>
  BY DEF RecvOnce, Fails
<1>2. UNCHANGED <<job, parked, completed, lock, ranges>> /\ ranges' = ranges
  BY <1>1 DEF sendVars, requestVars
<1>3. CASE Goto(t, <<<<"unlock">>>>) /\ UNCHANGED btlVars
  <2>1. (todo \in [Threads -> Seq(Steps)])' /\ OneHolder' /\ RangeInHand' /\ ~Starting'
    BY <1>1, <1>2, <1>3, OwnerGoes
  <2>2. TypeOK'
    BY <1>1, <1>3, <2>1 DEF IInv, TypeOK, Bytes, sendVars, requestVars, btlVars
  <2> QED  BY <2>1, <2>2 DEF IInv
<1>4. CASE Send(t, m, <<<<"sent", n>>>>) \/ Fails(t, <<<<"park", "schedule">>>>)
  <2>1. job.split - offset \in Int /\ job.put \in Int /\ offset \in Int /\ ackSent \in BOOLEAN
    BY JobAssumption DEF IInv, TypeOK
  <2>2. n \in Int
    BY <2>1, SmallerIsInt
  <2> HIDE DEF n
  <2>3. m \in OnTheNet
    BY <2>1, <2>2 DEF Message, OnTheNet, Messages
  <2> HIDE DEF m
  <2>4. /\ (busy \in [Sides -> SUBSET InUse])' /\ (free \in [Sides -> Nat])'
        /\ (errors \in 0 .. job.errors)' /\ (net \subseteq OnTheNet)'
        /\ (todo \in [Threads -> Seq(Steps)])' /\ OneHolder' /\ RangeInHand' /\ ~Starting'
    BY <1>1, <1>2, <1>4, <2>2, <2>3, OwnerSend
  <2>5. TypeOK'
    BY <1>1, <2>1, <2>4 DEF IInv, TypeOK, Bytes, sendVars, requestVars
  <2> QED  BY <2>4, <2>5 DEF IInv
<1> QED  BY <1>1, <1>3, <1>4

LEMMA PutSentKeeps == ASSUME IInv, NEW t \in Threads, PutSent(t) PROVE IInv'
<1>1. /\ At(t, "sent") /\ Side(t) = "r" /\ offset' = offset + Argument(t, 1)
      /\ depth' = [depth EXCEPT !["r"] = @ + 1] /\ Goto(t, <<<<"once">>>>)
      /\ UNCHANGED <<job, sendVars, matched, ackSent, got, lock, bytes, parked, completed,
                     packets, btlVars>>
  BY DEF PutSent
<1>2. Argument(t, 1) \in Int
  <2>1. Head(todo[t]) \in Steps /\ Head(todo[t])[1] = "sent"
    BY <1>1, HeadIs
  <2> QED  BY <2>1, StepName DEF Argument
<1>3. (todo \in [Threads -> Seq(Steps)])' /\ OneHolder' /\ RangeInHand' /\ ~Starting'
  BY <1>1, OwnerGoes DEF sendVars
<1>4. TypeOK'
  <2>1. (depth \in [Sides -> Int])' /\ offset' \in Int
    <3>1. depth \in [Sides -> Int] /\ offset \in Int
      BY DEF IInv, TypeOK
    <3> QED  BY <1>1, <1>2, <3>1 DEF Sides
  <2> QED  BY <1>1, <1>3, <2>1 DEF IInv, TypeOK, Bytes, sendVars, btlVars
<1> QED  BY <1>3, <1>4 DEF IInv

-----------------------------------------------------------------------------
(* The theorems.                                                           *)

LEMMA InitOK == ASSUME Init PROVE IInv
<1>1. job \in Job /\ JobAssumption
  BY JobAssumption DEF Init
<1>2. /\ \A p \in Sides : job.descriptors[p] - job.others[p] \in Nat
      /\ job.errors \in Nat /\ <<"s", 1>> \in Threads
  <2>1. \A p \in Sides : job.threads[p] \in Nat /\ 1 \in 1 .. job.threads[p]
    BY <1>1 DEF JobAssumption
  <2>2. {"s"} \X (1 .. job.threads["s"]) \subseteq Threads
    BY DEF Threads, Sides
  <2> QED  BY <1>1, <2>1, <2>2 DEF JobAssumption, Sides
<1>3. <<<<"start">>>> \in Seq(Steps) /\ OwnsOnce(<<<<"start">>>>) /\ DOMAIN <<<<"start">>>> = {1}
  <2>1. <<"start">> \in Steps /\ Owns(<<"start">>)
    BY StepsAre DEF Owns
  <2> QED  BY <2>1, OneStep
<1>4. todo = [t \in Threads |-> IF t = <<"s", 1>> THEN <<<<"start">>>> ELSE <<>>]
  BY DEF Init
<1>5. TypeOK
  <2>1. todo \in [Threads -> Seq(Steps)]
    BY <1>3, <1>4, NoStep
  <2>2. busy \in [Sides -> SUBSET InUse]
    <3>1. ASSUME NEW p \in Sides
          PROVE  {Message("other", n, 0, FALSE) : n \in 1 .. job.others[p]} \subseteq InUse
      <4>1. \A n \in Int : Message("other", n, 0, FALSE) \in InUse
        BY DEF Message, InUse, Messages
      <4>2. 1 .. job.others[p] \subseteq Int
        OBVIOUS
      <4> QED  BY <4>1, <4>2, Zenon
    <3> QED  BY <3>1 DEF Init
  <2>3. free \in [Sides -> Nat]
    BY <1>2 DEF Init
  <2>4. packets \in [Sides -> Seq(Pending)]
    BY DEF Init
  <2>5. got \in [Bytes -> Nat]
    BY DEF Init
  <2>6. parked \in [Sides -> {"none", "start", "schedule"}] /\ parked["r"] # "start"
    BY DEF Init, Sides
  <2>7. /\ lock \in [Sides -> Nat] /\ depth \in [Sides -> Int] /\ bytes \in [Sides -> Int]
        /\ completed \in [Sides -> Nat]
    BY DEF Init
  <2>8. ranges \in Seq(Int \X Int) /\ writes \in Seq(Int \X Int) /\ net \subseteq OnTheNet
    BY DEF Init
  <2>9. /\ state \in Int /\ throttle \in BOOLEAN /\ offset \in Int
        /\ matched \in BOOLEAN /\ ackSent \in BOOLEAN /\ errors \in 0 .. job.errors
    <3>1. errors = 0 /\ state = 0 /\ offset = 0
      BY DEF Init
    <3>2. errors \in 0 .. job.errors
      BY <1>2, <3>1
    <3>3. throttle \in BOOLEAN /\ matched \in BOOLEAN /\ ackSent \in BOOLEAN
      BY DEF Init
    <3>4. state \in Int /\ offset \in Int
      BY <3>1
    <3> QED  BY <3>2, <3>3, <3>4
  <2> QED  BY <1>1, <2>1, <2>2, <2>3, <2>4, <2>5, <2>6, <2>7, <2>8, <2>9 DEF TypeOK
<1>6. Starting
  BY <1>2, <1>3, <1>4 DEF Starting, Starts
<1>7. Quiet
  <2>1. \A p \in Sides : \A m \in busy[p] : m.type = "other"
    BY DEF Init, Message
  <2>2. \A t \in Threads : \A i \in DOMAIN todo[t] : Side(t) = "s" /\ Starts(todo[t][i])
    BY <1>3, <1>4 DEF Side, Starts
  <2> QED  BY <2>1, <2>2 DEF Init, Quiet, Sides
<1>8. OneHolder
  <2>1. \A p \in Sides : completed[p] = 0 /\ parked[p] = "none" /\ ~(lock[p] > 0)
    BY DEF Init
  <2>2. OneThreadOwns("s")
    <3>1. OwnsOnce(todo[<<"s", 1>>]) /\ Side(<<"s", 1>>) = "s"
      BY <1>2, <1>3, <1>4 DEF Side
    <3>2. \A u \in Threads : Side(u) = "s" /\ u # <<"s", 1>> => OwnsNothing(todo[u])
      BY <1>4, NoStep
    <3> QED  BY <1>2, <3>1, <3>2 DEF OneThreadOwns
  <2>3. NoThreadOwns("r")
    BY <1>4, NoStep DEF NoThreadOwns, Side
  <2> QED  BY <1>6, <2>1, <2>2, <2>3 DEF OneHolder, Sides
<1>9. RangeInHand
  BY <1>3, <1>4 DEF RangeInHand
<1> QED  BY <1>5, <1>7, <1>8, <1>9 DEF IInv

LEMMA StutterKeeps == ASSUME IInv, UNCHANGED vars PROVE IInv'
<1>1. Threads' = Threads
  BY ThreadsStay DEF vars
<1>2. Starting' <=> Starting
  BY <1>1 DEF Starting, vars, requestVars
<1>3. Quiet => Quiet'
  BY <1>1 DEF Quiet, vars, requestVars, sendVars, btlVars
<1>4. OneHolder'
  <2>1. ASSUME NEW q \in Sides
        PROVE  (NoThreadOwns(q)' <=> NoThreadOwns(q)) /\ (OneThreadOwns(q)' <=> OneThreadOwns(q))
    BY <1>1 DEF NoThreadOwns, OneThreadOwns, vars
  <2>2. lock' = lock /\ parked' = parked /\ completed' = completed
    BY DEF vars, requestVars
  <2> QED  BY <1>2, <2>1, <2>2 DEF IInv, OneHolder
<1>5. RangeInHand'
  BY <1>1 DEF IInv, RangeInHand, vars, sendVars
<1>6. TypeOK'
  BY <1>1 DEF IInv, TypeOK, Bytes, vars, sendVars, recvVars, requestVars, btlVars
<1> QED  BY <1>2, <1>3, <1>4, <1>5, <1>6 DEF IInv

\* Any step of any thread keeps the invariant.
LEMMA StepKeeps == ASSUME IInv, NEW t \in Threads, Step(t) PROVE IInv'
BY ReturnDescriptorKeeps, AddBytesKeeps, DepthDownKeeps, CheckKeeps, ClaimKeeps, CompleteKeeps,
   LockKeeps, UnlockKeeps, ParkKeeps, StartKeeps, StateKeeps, ThrottleKeeps, AddRangeKeeps,
   SendOnceKeeps, FragSentKeeps, WriteKeeps, PostponeKeeps, SendFinKeeps, MatchKeeps,
   SendAckKeeps, UnpackKeeps, MoreKeeps, RecvOnceKeeps, PutSentKeeps, ProgressKeeps,
   PacketsKeeps, QueueKeeps, UnparkKeeps, WritesKeeps, PollKeeps DEF Step

\* For every transfer of every length, with any number of threads in the callbacks
\* of both processes, with few descriptors and with errors of the BTL: at any time
\* one of all the threads at most is scheduling or completing a request, nobody is
\* once it has been completed, and the lock says so.
THEOREM Invariance == Spec => []IInv
<1>1. Init => IInv
  BY InitOK
<1>2. IInv /\ [Next]_vars => IInv'
  <2> SUFFICES ASSUME IInv, [Next]_vars PROVE IInv'
    OBVIOUS
  <2>1. ASSUME NEW t \in Threads, Step(t) PROVE IInv'
    BY <2>1, StepKeeps
  <2>2. ASSUME NEW t \in Threads, NEW m \in net, Receive(t, m) PROVE IInv'
    BY <2>2, ReceiveKeeps
  <2>3. ASSUME NEW t \in Threads, NEW m \in busy[Side(t)], Finish(t, m) PROVE IInv'
    BY <2>3, FinishKeeps
  <2>4. CASE Finished \/ UNCHANGED vars
    BY <2>4, StutterKeeps DEF Finished
  <2> QED  BY <2>1, <2>2, <2>3, <2>4 DEF Next
<1> QED  BY <1>1, <1>2, PTL DEF Spec

\* "Only one thread can be inside this function", and the lock tells whether one is.
THEOREM OneAtATime == Spec => []OneHolder
<1>1. IInv => OneHolder
  BY DEF IInv
<1> QED  BY <1>1, Invariance, PTL

=============================================================================
