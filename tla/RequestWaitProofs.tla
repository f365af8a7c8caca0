-------------------------- MODULE RequestWaitProofs --------------------------
(***************************************************************************)
(* Waiting for requests: the counters of the request layer agree with      *)
(* where the threads are, and a call returns what became of its own        *)
(* requests, for every number of threads and requests.                     *)
(***************************************************************************)
EXTENDS RequestWait, FiniteSetTheorems, TLAPS

Sleeping == {"wait"}
Inside == {"wait", "again"}
Places == {"start", "lock", "wait", "again", "finish", "finish failed", "done"}

\* The parts of TypeOK: what is counted, and the rest.
CountersOK == /\ waiting = Cardinality(At(Inside))
              /\ c_waiting = Cardinality(At(Sleeping))
              /\ c_signaled \in 0 .. c_waiting

TypesOK == /\ job \in Jobs
           /\ pc \in [Threads -> Places]
           /\ result \in [Threads -> {"none", "success", "error"}]
           /\ count \in [Threads -> [start : Nat, pending : Nat, start_failed : Nat]]
           /\ complete \subseteq Requests /\ active \subseteq Requests
           /\ error \subseteq complete \intersect job.fail

TotalsOK == completed = Cardinality(complete) /\ failed = Cardinality(error)

LEMMA TypeParts == TypeOK <=> TypesOK /\ CountersOK /\ TotalsOK
BY DEF TypeOK, TypesOK, CountersOK, TotalsOK, Places, Inside, Sleeping

LEMMA FiniteParts ==
  ASSUME TypesOK
  PROVE  /\ \A W : IsFiniteSet(At(W)) /\ Cardinality(At(W)) \in Nat
         /\ IsFiniteSet(complete) /\ IsFiniteSet(error)
         /\ Cardinality(complete) \in Nat /\ Cardinality(error) \in Nat
<1>1. ASSUME NEW W PROVE IsFiniteSet(At(W)) /\ Cardinality(At(W)) \in Nat
  <2>1. At(W) \in SUBSET Threads
    BY DEF At
  <2>. QED BY <2>1, FiniteAssumption, FS_Subset, FS_CardinalityType
<1>2. complete \in SUBSET Requests /\ error \in SUBSET Requests
  BY DEF TypesOK
<1>. QED BY <1>1, <1>2, FiniteAssumption, FS_Subset, FS_CardinalityType

\* When a thread goes somewhere else, it is counted there.
LEMMA Moved ==
  ASSUME TypesOK, NEW t \in Threads, NEW place, Goto(t, place), NEW W
  PROVE  Cardinality(At(W)') = Cardinality(At(W)) - (IF pc[t] \in W THEN 1 ELSE 0)
                                                  + (IF place \in W THEN 1 ELSE 0)
<1>. DEFINE others == {u \in Threads \ {t} : pc[u] \in W}
<1>1. others \in SUBSET Threads
  OBVIOUS
<1>2. IsFiniteSet(others) /\ Cardinality(others) \in Nat
  BY <1>1, FiniteAssumption, FS_Subset, FS_CardinalityType
<1>3. t \notin others
  OBVIOUS
<1>4. At(W) = IF pc[t] \in W THEN others \cup {t} ELSE others
  BY DEF At
<1>5. At(W)' = IF place \in W THEN others \cup {t} ELSE others
  BY DEF At, Goto, TypesOK
<1>6. Cardinality(others \cup {t}) = Cardinality(others) + 1
  BY <1>2, <1>3, FS_AddElement
<1>. QED BY <1>2, <1>4, <1>5, <1>6

LEMMA MovedCounts ==
  ASSUME TypesOK, CountersOK, NEW t \in Threads, NEW place \in Places, Goto(t, place)
  PROVE  /\ Cardinality(At(Inside)') = waiting - (IF pc[t] \in Inside THEN 1 ELSE 0)
                                               + (IF place \in Inside THEN 1 ELSE 0)
         /\ Cardinality(At(Sleeping)') = c_waiting - (IF pc[t] = "wait" THEN 1 ELSE 0)
                                                   + (IF place = "wait" THEN 1 ELSE 0)
         /\ waiting \in Nat /\ c_waiting \in Nat /\ c_signaled \in Nat
         /\ pc[t] = "wait" => c_waiting > 0
<1>1. waiting \in Nat /\ c_waiting \in Nat /\ c_signaled \in Nat
  BY FiniteParts DEF CountersOK
<1>2. pc[t] = "wait" => c_waiting > 0
  <2>1. SUFFICES ASSUME pc[t] = "wait", c_waiting = 0 PROVE FALSE
    BY <1>1
  <2>2. At(Sleeping) = {}
    BY <2>1, FiniteParts, FS_EmptySet DEF CountersOK
  <2>. QED BY <2>1, <2>2 DEF At, Sleeping
<1>. QED BY <1>1, <1>2, Moved DEF CountersOK, Sleeping

-----------------------------------------------------------------------------
(* The counters.                                                           *)

\* A thread that neither enters nor leaves the condition.
LEMMA QuietCounters ==
  ASSUME TypesOK, CountersOK, NEW t \in Threads, NEW place \in Places \ Inside,
         Goto(t, place), pc[t] \notin Inside, UNCHANGED <<waiting, condition>>
  PROVE  CountersOK'
<1>1. place \in Places /\ place # "wait" /\ pc[t] # "wait"
  BY DEF Inside
<1>2. /\ Cardinality(At(Inside)') = waiting
      /\ Cardinality(At(Sleeping)') = c_waiting
  BY <1>1, MovedCounts
<1>. QED BY <1>2 DEF CountersOK, condition

\* opal_condition_wait, and what opal_condition_wait is followed by.
LEMMA CondWaitCounters ==
  ASSUME TypesOK, CountersOK, NEW t \in Threads, NEW w \in Nat, NEW s \in 0 .. w,
         w = c_waiting - (IF pc[t] = "wait" THEN 1 ELSE 0),
         CondWait(t, w, s),
         waiting' = waiting + (IF pc[t] \in Inside THEN 0 ELSE 1)
  PROVE  CountersOK'
<1>1. CASE s > 0
  <2>1. Goto(t, "again") /\ c_signaled' = s /\ c_waiting' = w
    BY <1>1 DEF CondWait
  <2>2. "again" \in Places /\ "again" \in Inside
    BY DEF Places, Inside
  <2>3. /\ Cardinality(At(Inside)') = waiting - (IF pc[t] \in Inside THEN 1 ELSE 0) + 1
        /\ Cardinality(At(Sleeping)') = c_waiting - (IF pc[t] = "wait" THEN 1 ELSE 0)
        /\ waiting \in Nat
    BY <2>1, <2>2, MovedCounts
  <2>. QED BY <2>1, <2>3 DEF CountersOK
<1>2. CASE s = 0
  <2>1. Goto(t, "wait") /\ c_signaled' = s /\ c_waiting' = w + 1
    BY <1>2 DEF CondWait
  <2>2. "wait" \in Places /\ "wait" \in Inside
    BY DEF Places, Inside
  <2>3. /\ Cardinality(At(Inside)') = waiting - (IF pc[t] \in Inside THEN 1 ELSE 0) + 1
        /\ Cardinality(At(Sleeping)') = c_waiting - (IF pc[t] = "wait" THEN 1 ELSE 0) + 1
        /\ waiting \in Nat
    BY <2>1, <2>2, MovedCounts
  <2>. QED BY <1>2, <2>1, <2>3 DEF CountersOK
<1>. QED BY <1>1, <1>2

\* A thread that has been in the condition goes on.
LEMMA LeaveCounters ==
  ASSUME TypesOK, CountersOK, NEW t \in Threads, NEW w \in Nat, NEW s \in 0 .. w,
         w = c_waiting - (IF pc[t] = "wait" THEN 1 ELSE 0),
         NEW place \in Places \ Inside, Leave(t, w, s, place),
         pc[t] \in Inside, waiting' = waiting - 1
  PROVE  CountersOK'
<1>1. Goto(t, place) /\ c_signaled' = s /\ c_waiting' = w
  BY DEF Leave
<1>2. place \in Places /\ place # "wait"
  BY DEF Inside
<1>3. /\ Cardinality(At(Inside)') = waiting - 1
      /\ Cardinality(At(Sleeping)') = c_waiting - (IF pc[t] = "wait" THEN 1 ELSE 0)
  BY <1>1, <1>2, MovedCounts
<1>. QED BY <1>1, <1>3 DEF CountersOK

\* Wake and Again hand on what is left of the two counts.
LEMMA Resumes ==
  ASSUME TypesOK, CountersOK, NEW t \in Threads, Wake(t) \/ Again(t)
  PROVE  \E w \in Nat, s \in Nat :
           /\ s \in 0 .. w
           /\ w = c_waiting - (IF pc[t] = "wait" THEN 1 ELSE 0)
           /\ Resume(t, w, s)
           /\ pc[t] \in Inside
           /\ UNCHANGED <<job, requests, result>>
<1>0. c_waiting \in Nat /\ c_signaled \in Nat /\ c_signaled <= c_waiting
  BY FiniteParts DEF CountersOK
<1>1. CASE Wake(t)
  BY <1>0, <1>1 DEF Wake, Inside
<1>2. CASE Again(t)
  BY <1>0, <1>2 DEF Again, Inside
<1>. QED BY <1>1, <1>2

-----------------------------------------------------------------------------
(* What a step of a thread leaves alone.                                   *)

Results == {"none", "success", "error"}
CountRecords == [start : Nat, pending : Nat, start_failed : Nat]

LEMMA JobFacts ==
  ASSUME TypesOK, NEW t \in Threads
  PROVE  /\ job.kind[t] \in {"all", "any", "one"}
         /\ Mine(t) \subseteq Requests
         /\ \A u \in Threads \ {t} : Mine(t) \intersect Mine(u) = {}
BY JobsAssumption DEF TypesOK, Mine

LEMMA CountsType ==
  ASSUME TypesOK, TotalsOK, NEW t \in Threads
  PROVE  Counts(t) \in CountRecords
<1>1. Mine(t) \ complete \in SUBSET Requests
  BY JobFacts
<1>2. Cardinality(Mine(t) \ complete) \in Nat
  BY <1>1, FiniteAssumption, FS_Subset, FS_CardinalityType
<1>. QED BY <1>2, FiniteParts DEF Counts, TotalsOK, CountRecords

LEMMA InvParts ==
  IInv <=> /\ TypesOK /\ CountersOK /\ TotalsOK
           /\ Requests \ active \subseteq complete
           /\ \A t \in Threads : FindingsOK(t)
BY TypeParts DEF IInv

\* A thread's step gives back requests of its own, complete ones, or none: what
\* the other threads have found stays true.
LEMMA ThreadStep ==
  ASSUME IInv, NEW t \in Threads, NEW place \in Places, Goto(t, place),
         UNCHANGED <<job, complete, error, completed, failed>>,
         NEW D \in SUBSET (Mine(t) \intersect complete), active' = active \ D,
         result' \in [Threads -> Results], count' \in [Threads -> CountRecords],
         CountersOK', FindingsOK(t)'
  PROVE  IInv'
<1>0. TypesOK /\ TotalsOK
  BY InvParts
<1>1. TypesOK'
  BY <1>0 DEF TypesOK, Goto, Results, CountRecords
<1>2. TotalsOK'
  BY <1>0 DEF TotalsOK
<1>3. (Requests \ active \subseteq complete)'
  BY InvParts
<1>4. ASSUME NEW u \in Threads \ {t} PROVE FindingsOK(u)'
  <2>1. pc'[u] = pc[u]
    BY <1>0 DEF Goto, TypesOK
  <2>2. Mine(u)' = Mine(u) /\ job' = job
    BY DEF Mine
  <2>3. Mine(u) \intersect active' = Mine(u) \intersect active
    BY <1>0, JobFacts
  <2>4. Mine(u) \ active' = Mine(u) \ active
    BY <1>0, JobFacts
  <2>5. Served(u)' <=> Served(u)
    BY <2>2, <2>3 DEF Served
  <2>6. FindingsOK(u)
    BY InvParts
  <2>. QED BY <2>1, <2>2, <2>4, <2>5, <2>6 DEF FindingsOK
<1>5. \A u \in Threads : FindingsOK(u)'
  BY <1>4
<1>. QED BY <1>1, <1>2, <1>3, <1>5
        DEF IInv, TypeOK, TypesOK, CountersOK, TotalsOK, Places, Inside, Sleeping

\* The same for a step that gives nothing back.
LEMMA QuietStep ==
  ASSUME IInv, NEW t \in Threads, NEW place \in Places, Goto(t, place),
         UNCHANGED <<job, requests, result>>, count' \in [Threads -> CountRecords],
         CountersOK', FindingsOK(t)'
  PROVE  IInv'
<1>1. result' \in [Threads -> Results]
  BY InvParts DEF TypesOK, Results
<1>2. {} \in SUBSET (Mine(t) \intersect complete) /\ active' = active \ {}
  BY DEF requests
<1>3. UNCHANGED <<job, complete, error, completed, failed>>
  BY DEF requests
<1>. QED BY <1>1, <1>2, <1>3, ThreadStep

\* What a thread that does not finish must have found.
LEMMA NothingFound ==
  ASSUME IInv, NEW t \in Threads, NEW place \in {"start", "lock", "wait", "again"},
         Goto(t, place), pc[t] # "done", UNCHANGED <<job, requests>>
  PROVE  FindingsOK(t)'
<1>1. pc'[t] = place
  BY InvParts DEF Goto, TypesOK
<1>2. job.kind[t] = "any" => (Mine(t) \ active) \intersect error = {}
  BY InvParts DEF FindingsOK
<1>. QED BY <1>1, <1>2 DEF FindingsOK, requests, Mine

\* What one that finishes has found.
LEMMA AllFound ==
  ASSUME IInv, NEW t \in Threads, job.kind[t] = "all", pc[t] # "done", UNCHANGED <<job, requests>>,
         \/ Goto(t, "finish failed") /\ error # {}
         \/ Goto(t, "finish") /\ Mine(t) \subseteq complete
  PROVE  FindingsOK(t)'
<1>1. \/ pc'[t] = "finish failed" /\ error # {}
      \/ pc'[t] = "finish" /\ Mine(t) \subseteq complete
  BY InvParts DEF Goto, TypesOK
<1>. QED BY <1>1 DEF FindingsOK, requests, Mine

LEMMA OtherFound ==
  ASSUME IInv, NEW t \in Threads, job.kind[t] # "all", pc[t] # "done", UNCHANGED <<job, requests>>,
         Goto(t, "finish"), Served(t)
  PROVE  FindingsOK(t)'
<1>1. pc'[t] = "finish"
  BY InvParts DEF Goto, TypesOK
<1>2. Served(t)'
  BY DEF Served, requests, Mine
<1>3. job.kind[t] = "any" => (Mine(t) \ active) \intersect error = {}
  BY InvParts DEF FindingsOK
<1>. QED BY <1>1, <1>2, <1>3 DEF FindingsOK, requests, Mine

-----------------------------------------------------------------------------
(* The steps.                                                              *)

LEMMA StartInv ==
  ASSUME IInv, NEW t \in Threads, StartAll(t) \/ StartOther(t)
  PROVE  IInv'
<1>0. TypesOK /\ CountersOK
  BY InvParts
<1>1. PICK place \in {"finish failed", "finish", "lock"} :
        /\ Goto(t, place)
        /\ pc[t] = "start"
        /\ UNCHANGED <<job, requests, waiting, condition, count, result>>
        /\ place = "finish failed" => job.kind[t] = "all" /\ error # {}
        /\ place = "finish" => IF job.kind[t] = "all" THEN Mine(t) \subseteq complete
                               ELSE Served(t)
  BY DEF StartAll, StartOther, Served
<1>2. place \in Places \ Inside /\ pc[t] \notin Inside
  BY <1>1 DEF Places, Inside
<1>3. CountersOK'
  BY <1>0, <1>1, <1>2, QuietCounters
<1>4. FindingsOK(t)'
  BY <1>1, NothingFound, AllFound, OtherFound
<1>5. count' \in [Threads -> CountRecords]
  BY <1>0, <1>1 DEF TypesOK, CountRecords
<1>. QED BY <1>1, <1>2, <1>3, <1>4, <1>5, QuietStep

\* A thread that waits, or leaves the condition for what it has found.
LEMMA CondWaitInv ==
  ASSUME IInv, NEW t \in Threads, NEW w \in Nat, NEW s \in 0 .. w,
         w = c_waiting - (IF pc[t] = "wait" THEN 1 ELSE 0),
         pc[t] # "done", CondWait(t, w, s),
         waiting' = waiting + (IF pc[t] \in Inside THEN 0 ELSE 1),
         UNCHANGED <<job, requests, result>>, count' \in [Threads -> CountRecords]
  PROVE  IInv'
<1>1. CountersOK'
  BY InvParts, CondWaitCounters
<1>2. PICK place \in {"again", "wait"} : Goto(t, place)
  BY DEF CondWait
<1>3. place \in Places
  BY <1>2 DEF Places
<1>4. FindingsOK(t)'
  BY <1>2, NothingFound
<1>. QED BY <1>1, <1>2, <1>3, <1>4, QuietStep

LEMMA LockInv ==
  ASSUME IInv, NEW t \in Threads, LockAll(t) \/ LockOther(t)
  PROVE  IInv'
<1>0. TypesOK /\ CountersOK /\ TotalsOK
  BY InvParts
<1>1. /\ pc[t] = "lock" /\ pc[t] # "wait" /\ pc[t] # "done" /\ pc[t] \notin Inside
      /\ UNCHANGED <<job, requests, result>>
  BY DEF LockAll, LockOther, Inside
<1>2. count' \in [Threads -> CountRecords]
  BY <1>0, CountsType DEF LockAll, LockOther, TypesOK, CountRecords
<1>3. c_waiting \in Nat /\ c_signaled \in 0 .. c_waiting
  BY <1>0, FiniteParts DEF CountersOK
<1>4. CASE CondWait(t, c_waiting, c_signaled) /\ waiting' = waiting + 1
  BY <1>1, <1>2, <1>3, <1>4, CondWaitInv
<1>5. ASSUME NEW place \in {"finish failed", "finish"}, Leave(t, c_waiting, c_signaled, place),
             UNCHANGED waiting,
             place = "finish failed" => job.kind[t] = "all" /\ error # {},
             place = "finish" => IF job.kind[t] = "all" THEN Mine(t) \subseteq complete
                                 ELSE Served(t)
      PROVE  IInv'
  <2>1. Goto(t, place) /\ UNCHANGED <<waiting, condition>>
    BY <1>5 DEF Leave, condition
  <2>2. place \in Places \ Inside
    BY DEF Places, Inside
  <2>3. CountersOK'
    BY <1>0, <1>1, <2>1, <2>2, QuietCounters
  <2>4. FindingsOK(t)'
    BY <1>1, <1>5, <2>1, AllFound, OtherFound
  <2>. QED BY <1>1, <1>2, <2>1, <2>2, <2>3, <2>4, QuietStep
<1>6. CASE LockAll(t)
  BY <1>4, <1>5, <1>6 DEF LockAll
<1>7. CASE LockOther(t)
  BY <1>4, <1>5, <1>7 DEF LockOther
<1>. QED BY <1>6, <1>7

LEMMA ResumeInv ==
  ASSUME IInv, NEW t \in Threads, Wake(t) \/ Again(t)
  PROVE  IInv'
<1>0. TypesOK /\ CountersOK /\ TotalsOK
  BY InvParts
<1>1. PICK w \in Nat, s \in Nat :
        /\ s \in 0 .. w
        /\ w = c_waiting - (IF pc[t] = "wait" THEN 1 ELSE 0)
        /\ Resume(t, w, s)
        /\ pc[t] \in Inside
        /\ UNCHANGED <<job, requests, result>>
  BY <1>0, Resumes
<1>2. pc[t] # "done"
  BY <1>1 DEF Inside
<1>3. CASE CondWait(t, w, s) /\ UNCHANGED waiting /\ count' \in [Threads -> CountRecords]
  <2>1. waiting \in Nat
    BY <1>0, FiniteParts DEF CountersOK
  <2>. QED BY <1>1, <1>2, <1>3, <2>1, CondWaitInv
<1>4. ASSUME NEW place \in {"finish failed", "finish"}, Leave(t, w, s, place),
             waiting' = waiting - 1, UNCHANGED count,
             place = "finish failed" => job.kind[t] = "all" /\ error # {},
             place = "finish" => IF job.kind[t] = "all" THEN Mine(t) \subseteq complete
                                 ELSE Served(t)
      PROVE  IInv'
  <2>1. Goto(t, place)
    BY <1>4 DEF Leave
  <2>2. place \in Places \ Inside
    BY DEF Places, Inside
  <2>3. CountersOK'
    BY <1>0, <1>1, <1>4, <2>2, LeaveCounters
  <2>4. FindingsOK(t)'
    BY <1>1, <1>2, <1>4, <2>1, AllFound, OtherFound
  <2>5. count' \in [Threads -> CountRecords]
    BY <1>0, <1>4 DEF TypesOK, CountRecords
  <2>. QED BY <1>1, <2>1, <2>2, <2>3, <2>4, <2>5, QuietStep
<1>5. count \in [Threads -> CountRecords]
  BY <1>0 DEF TypesOK, CountRecords
<1>6. CASE job.kind[t] = "all" /\ ResumeAll(t, w, s)
  <2>1. failed > count[t].start_failed => error # {}
    <3>1. failed = Cardinality(error) /\ count[t].start_failed \in Nat
      BY <1>0, <1>5 DEF TotalsOK, CountRecords
    <3>. QED BY <3>1, FS_EmptySet
  <2>2. [count EXCEPT ![t] = Counts(t)] \in [Threads -> CountRecords]
    BY <1>0, <1>5, CountsType
  <2>. QED BY <1>3, <1>4, <1>5, <1>6, <2>1, <2>2 DEF ResumeAll
<1>7. CASE job.kind[t] # "all" /\ ResumeOther(t, w, s)
  BY <1>3, <1>4, <1>5, <1>7 DEF ResumeOther
<1>. QED BY <1>1, <1>6, <1>7 DEF Resume

\* A call returns, or a wait_any that is not the last one.
LEMMA FinishInv ==
  ASSUME IInv, NEW t \in Threads, FinishAll(t) \/ FinishOne(t) \/ FinishAny(t)
  PROVE  IInv'
<1>0. TypesOK /\ CountersOK
  BY InvParts
<1>1. /\ UNCHANGED <<job, complete, error, completed, failed, waiting, condition, count>>
      /\ pc[t] \in {"finish", "finish failed"}
      /\ pc[t] = "finish" => IF job.kind[t] = "all" THEN Mine(t) \subseteq complete
                             ELSE Served(t)
      /\ pc[t] = "finish failed" => job.kind[t] = "all"
      /\ job.kind[t] = "any" => (Mine(t) \ active) \intersect error = {}
  BY InvParts DEF FinishAll, FinishOne, FinishAny, FindingsOK
<1>2. pc[t] \notin Inside
  BY <1>1 DEF Inside
<1>3. count' \in [Threads -> CountRecords]
  BY <1>0, <1>1 DEF TypesOK, CountRecords
<1>4. ASSUME NEW place \in {"done", "start"}, Goto(t, place) PROVE CountersOK'
  <2>1. place \in Places \ Inside
    BY DEF Places, Inside
  <2>. QED BY <1>0, <1>1, <1>2, <1>4, <2>1, QuietCounters
<1>5. ASSUME Goto(t, "done") PROVE FindingsOK(t)'
  <2>1. pc'[t] = "done"
    BY <1>0, <1>5 DEF Goto, TypesOK
  <2>. QED BY <2>1 DEF FindingsOK
<1>6. "done" \in Places /\ "start" \in Places
  BY DEF Places
<1>7. \A x \in Results : [result EXCEPT ![t] = x] \in [Threads -> Results]
  BY <1>0 DEF TypesOK, Results
<1>8. Mine(t) \subseteq complete => Mine(t) \in SUBSET (Mine(t) \intersect complete)
  OBVIOUS
<1>9. CASE FinishAll(t)
  <2>. DEFINE D == Mine(t) \intersect (IF job.persistent THEN complete ELSE complete \ error)
  <2>1. D \in SUBSET (Mine(t) \intersect complete) /\ active' = active \ D /\ Goto(t, "done")
    BY <1>9 DEF FinishAll
  <2>2. result' \in [Threads -> Results]
    BY <1>7, <1>9 DEF FinishAll, Results
  <2>. HIDE DEF D
  <2>. QED BY <1>1, <1>3, <1>4, <1>5, <1>6, <2>1, <2>2, ThreadStep
<1>10. CASE FinishOne(t)
  <2>1. active' = active \ (Mine(t) \intersect active) /\ Goto(t, "done")
    BY <1>10 DEF FinishOne
  <2>2. Mine(t) \intersect active \subseteq complete
    BY <1>1, <1>10 DEF FinishOne, Served
  <2>3. Mine(t) \intersect active \in SUBSET (Mine(t) \intersect complete)
    BY <2>2
  <2>4. result' \in [Threads -> Results]
    BY <1>7, <1>10 DEF FinishOne, Results
  <2>. QED BY <1>1, <1>3, <1>4, <1>5, <1>6, <2>1, <2>3, <2>4, ThreadStep
<1>11. CASE FinishAny(t)
  <2>1. result' \in [Threads -> Results]
    BY <1>0, <1>7, <1>11 DEF FinishAny, Results, TypesOK
  <2>2. CASE active' = active /\ Goto(t, "done")
    <3>1. {} \in SUBSET (Mine(t) \intersect complete) /\ active' = active \ {}
      BY <2>2
    <3>. QED BY <1>1, <1>3, <1>4, <1>5, <1>6, <2>1, <2>2, <3>1, ThreadStep
  <2>3. ASSUME NEW r \in Mine(t) \intersect active \intersect complete,
               active' = active \ {r},
               Goto(t, "done") \/ (Goto(t, "start") /\ r \notin error)
        PROVE  IInv'
    <3>1. {r} \in SUBSET (Mine(t) \intersect complete)
      OBVIOUS
    <3>2. CASE Goto(t, "done")
      BY <1>1, <1>3, <1>4, <1>5, <1>6, <2>1, <2>3, <3>1, <3>2, ThreadStep
    <3>3. CASE Goto(t, "start") /\ r \notin error
      <4>1. pc'[t] = "start"
        BY <1>0, <3>3 DEF Goto, TypesOK
      <4>2. job.kind[t] = "any" => (Mine(t) \ active') \intersect error = {}
        BY <1>1, <2>3, <3>3
      <4>3. FindingsOK(t)'
        BY <1>1, <4>1, <4>2 DEF FindingsOK, Mine
      <4>. QED BY <1>1, <1>3, <1>4, <1>6, <2>1, <2>3, <3>1, <3>3, <4>3, ThreadStep
    <3>. QED BY <2>3, <3>2, <3>3
  <2>4. CASE Mine(t) \intersect active \intersect complete = {}
    BY <1>11, <2>2, <2>4 DEF FinishAny
  <2>5. CASE Mine(t) \intersect active \intersect complete # {}
    <3>1. PICK r \in Mine(t) \intersect active \intersect complete :
            \/ /\ active' \in {active, active \ {r}}
               /\ Goto(t, "done")
            \/ /\ r \notin error
               /\ active' = active \ {r}
               /\ Goto(t, "start")
      BY <1>11, <2>5 DEF FinishAny
    <3>2. CASE active' = active \ {r}
      <4>1. Goto(t, "done") \/ (Goto(t, "start") /\ r \notin error)
        BY <3>1
      <4>. QED BY <2>3, <3>2, <4>1
    <3>3. CASE active' = active /\ Goto(t, "done")
      BY <2>2, <3>3
    <3>. QED BY <3>1, <3>2, <3>3
  <2>. QED BY <2>4, <2>5
<1>. QED BY <1>9, <1>10, <1>11

\* A request completes.
LEMMA CompleteInv ==
  ASSUME IInv, NEW r \in Requests, Complete(r)
  PROVE  IInv'
<1>0. TypesOK /\ CountersOK /\ TotalsOK
  BY InvParts
<1>1. /\ r \notin complete
      /\ complete' = complete \union {r}
      /\ completed' = completed + 1
      /\ \/ error' = error /\ failed' = failed
         \/ error' = error \union {r} /\ failed' = failed + 1 /\ r \in job.fail
      /\ c_signaled' = c_signaled \/ c_signaled' = c_waiting
      /\ UNCHANGED <<job, active, waiting, c_waiting, pc, count, result>>
  BY DEF Complete, Broadcast
<1>2. TypesOK'
  BY <1>0, <1>1 DEF TypesOK
<1>3. TotalsOK'
  <2>1. IsFiniteSet(complete) /\ IsFiniteSet(error) /\ r \notin error
    BY <1>0, <1>1, FiniteParts DEF TypesOK
  <2>2. /\ Cardinality(complete \union {r}) = Cardinality(complete) + 1
        /\ Cardinality(error \union {r}) = Cardinality(error) + 1
    BY <1>1, <2>1, FS_AddElement
  <2>. QED BY <1>0, <1>1, <2>2 DEF TotalsOK
<1>4. CountersOK'
  <2>1. c_waiting \in Nat
    BY <1>0, FiniteParts DEF CountersOK
  <2>2. At(Inside)' = At(Inside) /\ At(Sleeping)' = At(Sleeping)
    BY <1>1 DEF At
  <2>. QED BY <1>0, <1>1, <2>1, <2>2 DEF CountersOK
<1>5. (Requests \ active \subseteq complete)'
  BY <1>1, InvParts
<1>6. ASSUME NEW t \in Threads PROVE FindingsOK(t)'
  <2>1. FindingsOK(t) /\ r \in active
    BY <1>1, InvParts
  <2>2. Served(t) => Served(t)'
    BY <1>1 DEF Served, Mine
  <2>3. Mine(t)' = Mine(t)
    BY <1>1 DEF Mine
  <2>4. (Mine(t) \ active)' \intersect error' = (Mine(t) \ active) \intersect error
    BY <1>1, <2>1, <2>3
  <2>5. error # {} => error' # {}
    BY <1>1
  <2>6. Mine(t) \subseteq complete => Mine(t) \subseteq complete'
    BY <1>1
  <2>. QED BY <1>1, <2>1, <2>2, <2>3, <2>4, <2>5, <2>6 DEF FindingsOK
<1>. QED BY <1>2, <1>3, <1>4, <1>5, <1>6
        DEF IInv, TypeOK, TypesOK, CountersOK, TotalsOK, Places, Inside, Sleeping

LEMMA InitInv == ASSUME Init PROVE IInv
<1>1. At(Inside) = {} /\ At(Sleeping) = {}
  BY DEF Init, At, Inside, Sleeping
<1>2. Cardinality({}) = 0
  BY FS_EmptySet
<1>3. TypesOK /\ CountersOK /\ TotalsOK
  BY <1>1, <1>2 DEF Init, TypesOK, CountersOK, TotalsOK, Places
<1>4. \A t \in Threads : FindingsOK(t)
  BY DEF Init, FindingsOK
<1>. QED BY <1>3, <1>4, InvParts DEF Init

LEMMA NextInv == IInv /\ [Next]_vars => IInv'
<1>. SUFFICES ASSUME IInv, [Next]_vars PROVE IInv'
  OBVIOUS
<1>1. CASE UNCHANGED vars
  <2>1. At(Inside)' = At(Inside) /\ At(Sleeping)' = At(Sleeping)
    BY <1>1 DEF vars, At
  <2>2. ASSUME NEW t \in Threads PROVE FindingsOK(t)' <=> FindingsOK(t)
    BY <1>1 DEF vars, requests, FindingsOK, Served, Mine
  <2>. QED BY <1>1, <2>1, <2>2
          DEF vars, requests, condition, IInv, TypeOK, Inside, Sleeping
<1>2. ASSUME NEW t \in Threads, Step(t) PROVE IInv'
  BY <1>2, StartInv, LockInv, ResumeInv, FinishInv DEF Step
<1>. QED BY <1>1, <1>2, CompleteInv DEF Next

-----------------------------------------------------------------------------
(* The theorems.                                                           *)

\* The counters of the request layer agree with where the threads are, and a thread
\* about to return has found what it waited for (req_wait.c, condition.h).
THEOREM Invariance == Spec => []IInv
<1>. QED BY InitInv, NextInv, PTL DEF Spec

\* What a thread in wait_all, wait_any or a blocking wait reports is what became of
\* its own requests, provided that a thread in wait_all only ever meets failures of
\* its own requests: wait_all takes every failure for its own.
LEMMA ResultsAreOwn ==
  ASSUME \A j \in Jobs : FailuresAreOwn(j)
  PROVE  Spec => [](SuccessMeansComplete /\ ErrorsAreMine)
<1>. DEFINE R == SuccessMeansComplete /\ ErrorsAreMine
<1>1. Init => R
  BY DEF Init, SuccessMeansComplete, ErrorsAreMine
<1>2. IInv /\ R /\ [Next]_vars => R'
  <2>. SUFFICES ASSUME IInv, R, [Next]_vars, NEW u \in Threads
                PROVE  /\ result'[u] = "success" => Mine(u)' \subseteq complete'
                       /\ result'[u] = "success" => Mine(u)' \intersect error' = {}
                       /\ result'[u] = "error" => Mine(u)' \intersect error' # {}
    BY DEF SuccessMeansComplete, ErrorsAreMine
  <2>0. /\ result[u] = "success" => Mine(u) \subseteq complete /\ Mine(u) \intersect error = {}
        /\ result[u] = "error" => Mine(u) \intersect error # {}
    BY DEF SuccessMeansComplete, ErrorsAreMine
  <2>. HIDE DEF R
  <2>t. TypesOK /\ FindingsOK(u) /\ Requests \ active \subseteq complete
    BY InvParts
  <2>1. ASSUME UNCHANGED <<job, complete, error>>, result'[u] = result[u]
        PROVE  /\ result'[u] = "success" => Mine(u)' \subseteq complete'
               /\ result'[u] = "success" => Mine(u)' \intersect error' = {}
               /\ result'[u] = "error" => Mine(u)' \intersect error' # {}
    BY <2>0, <2>1 DEF Mine
  <2>2. CASE UNCHANGED vars
    BY <2>1, <2>2 DEF vars, requests
  <2>3. ASSUME NEW r \in Requests, Complete(r)
        PROVE  /\ result'[u] = "success" => Mine(u)' \subseteq complete'
               /\ result'[u] = "success" => Mine(u)' \intersect error' = {}
               /\ result'[u] = "error" => Mine(u)' \intersect error' # {}
    BY <2>0, <2>3 DEF Complete, Mine
  <2>4. ASSUME NEW t \in Threads,
               StartAll(t) \/ LockAll(t) \/ StartOther(t) \/ LockOther(t) \/ Wake(t) \/ Again(t)
        PROVE  UNCHANGED <<job, complete, error, result>>
    BY <2>4 DEF StartAll, LockAll, StartOther, LockOther, Wake, Again, requests
  <2>5. ASSUME NEW t \in Threads, t # u, FinishAll(t) \/ FinishOne(t) \/ FinishAny(t)
        PROVE  UNCHANGED <<job, complete, error>> /\ result'[u] = result[u]
    BY <2>5, <2>t DEF FinishAll, FinishOne, FinishAny, TypesOK
  <2>6. CASE FinishAll(u)
    <3>1. /\ job.kind[u] = "all" /\ pc[u] \in {"finish", "finish failed"}
          /\ UNCHANGED <<job, complete, error>>
          /\ result'[u] = IF ReportsError(u, pc[u] = "finish failed") THEN "error" ELSE "success"
      BY <2>6, <2>t DEF FinishAll, TypesOK
    <3>2. error \subseteq Mine(u) /\ (job.persistent /\ ~job.ignore => error = {})
      BY <2>t, <3>1 DEF FailuresAreOwn, TypesOK, Mine
    <3>3. pc[u] = "finish failed" => Mine(u) \intersect error # {}
      BY <2>t, <3>2 DEF FindingsOK
    <3>4. pc[u] = "finish" => Mine(u) \subseteq complete
      BY <2>t, <3>1 DEF FindingsOK
    <3>5. Mine(u) \intersect error = error
      BY <3>2
    <3>6. ReportsError(u, pc[u] = "finish failed") => error # {}
      BY <3>1, <3>3, <3>4, <3>5 DEF ReportsError
    <3>7. ~ReportsError(u, pc[u] = "finish failed") => error = {} /\ Mine(u) \subseteq complete
      BY <3>1, <3>2, <3>3, <3>4, <3>5 DEF ReportsError
    <3>. QED BY <3>1, <3>5, <3>6, <3>7 DEF Mine
  <2>7. CASE FinishOne(u)
    <3>1. /\ UNCHANGED <<job, complete, error>>
          /\ result'[u] = IF Mine(u) \intersect error # {} THEN "error" ELSE "success"
          /\ Served(u) /\ job.kind[u] = "one"
      BY <2>7, <2>t DEF FinishOne, TypesOK, FindingsOK
    <3>2. Mine(u) \subseteq complete
      BY <2>t, <3>1, JobFacts DEF Served
    <3>. QED BY <3>1, <3>2 DEF Mine
  <2>8. CASE FinishAny(u)
    <3>1. /\ UNCHANGED <<job, complete, error>>
          /\ Served(u) /\ (Mine(u) \ active) \intersect error = {}
      BY <2>8, <2>t DEF FinishAny, FindingsOK
    <3>2. CASE Mine(u) \intersect active \intersect complete = {}
      <4>1. Mine(u) \intersect active = {}
        BY <3>1, <3>2 DEF Served
      <4>2. Mine(u) \subseteq complete /\ Mine(u) \intersect error = {}
        BY <2>t, <3>1, <4>1, JobFacts
      <4>3. result'[u] = "success"
        BY <2>8, <2>t, <3>2 DEF FinishAny, TypesOK
      <4>. QED BY <3>1, <4>2, <4>3 DEF Mine
    <3>3. CASE Mine(u) \intersect active \intersect complete # {}
      <4>1. \/ result'[u] = "error" /\ Mine(u) \intersect error # {}
            \/ result' = result
        BY <2>8, <2>t, <3>3 DEF FinishAny, TypesOK
      <4>. QED BY <2>0, <3>1, <4>1 DEF Mine
    <3>. QED BY <3>2, <3>3
  <2>. QED BY <2>1, <2>2, <2>3, <2>4, <2>5, <2>6, <2>7, <2>8 DEF Next, Step
<1>. QED BY <1>1, <1>2, Invariance, PTL DEF Spec

\* A call that returns success has waited for all its requests
\* (req_wait.c:324-434, :166-196).
THEOREM SuccessIsOwn ==
  ASSUME \A j \in Jobs : FailuresAreOwn(j)
  PROVE  Spec => []SuccessMeansComplete
<1>. QED BY ResultsAreOwn, PTL

\* A call that returns success has had no failed request, and one that returns an
\* error has had one of its own that failed.
THEOREM ErrorsAreOwn ==
  ASSUME \A j \in Jobs : FailuresAreOwn(j)
  PROVE  Spec => []ErrorsAreMine
<1>. QED BY ResultsAreOwn, PTL
=============================================================================
