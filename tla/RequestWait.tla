---------------------------- MODULE RequestWait -----------------------------
(***************************************************************************)
(* How the threads of a process wait for requests: wait_all and wait_any   *)
(* of the request layer and the wait of a blocking send or receive.  They  *)
(* share one lock, one condition variable and three counters, and it is    *)
(* the waiting threads that drive the progress by which requests are       *)
(* completed.  What a thread does between taking the lock and giving it up *)
(* is one action; opal_condition_wait gives it up while it looks for       *)
(* progress.                                                               *)
(***************************************************************************)
EXTENDS Integers, FiniteSets

CONSTANTS Threads,   \* the threads that wait
          Requests,  \* the requests of the process, numbers
          Jobs       \* what they do, see below

(***************************************************************************)
(*   kind[t]     "all", "any" or "one": how thread t waits; with "any"     *)
(*               again and again, as ompi_coll_tuned_alltoall_intra_linear_sync does *)
(*   reqs[t]     the requests it waits for, which nobody else waits for;   *)
(*               the application has others                                *)
(*   fail        the requests that may complete with an error              *)
(*   persistent  the requests are persistent                               *)
(*   ignore      wait_all is given MPI_STATUSES_IGNORE                     *)
(***************************************************************************)
ASSUME FiniteAssumption == IsFiniteSet(Threads) /\ IsFiniteSet(Requests)
ASSUME JobsAssumption ==
  \A j \in Jobs : \A t \in Threads :
    /\ j.kind[t] \in {"all", "any", "one"}
    /\ j.reqs[t] \subseteq Requests /\ j.reqs[t] # {}
    /\ j.kind[t] = "one" => Cardinality(j.reqs[t]) = 1
    /\ \A u \in Threads \ {t} : j.reqs[t] \intersect j.reqs[u] = {}

VARIABLES
  job,         \* one of Jobs
  complete,    \* the requests with req_complete
  error,       \* those of them with an error in req_status
  active,      \* the requests whose req_state is not OMPI_REQUEST_INACTIVE
  completed,   \* ompi_request_completed
  failed,      \* ompi_request_failed
  waiting,     \* ompi_request_waiting
  c_waiting,   \* of ompi_request_cond
  c_signaled,
  pc,          \* where a thread is
  count,       \* the variables start, pending and start_failed of wait_all
  result       \* what the call returned

requests == <<complete, error, active, completed, failed>>
condition == <<c_waiting, c_signaled>>
vars == <<job, requests, waiting, condition, pc, count, result>>

Mine(t) == job.reqs[t]
Goto(t, place) == pc' = [pc EXCEPT ![t] = place]

Init == /\ job \in Jobs
        /\ complete = {}
        /\ error = {}
        /\ active = Requests
        /\ completed = 0
        /\ failed = 0
        /\ waiting = 0
        /\ c_waiting = 0
        /\ c_signaled = 0
        /\ pc = [t \in Threads |-> "start"]
        /\ count = [t \in Threads |-> [start |-> 0, pending |-> 0, start_failed |-> 0]]
        /\ result = [t \in Threads |-> "none"]

-----------------------------------------------------------------------------
(* Requests complete while some thread makes progress.                     *)

\* Bug: opal_condition_signal.
SignalOne == c_signaled' = c_signaled + (IF c_waiting > 0 THEN 1 ELSE 0)

\* opal_condition_broadcast
Broadcast == c_signaled' = c_waiting

\* ompi_request_complete, with ompi_request_lock held.
Complete(r) ==
  /\ r \notin complete
  /\ \E t \in Threads : pc[t] \in {"wait", "again"}
  /\ complete' = complete \union {r}
  /\ completed' = completed + 1
  /\ \/ UNCHANGED <<error, failed>>
     \/ /\ r \in job.fail
        /\ error' = error \union {r}
        /\ failed' = failed + 1
  /\ IF waiting > 0 THEN Broadcast ELSE UNCHANGED c_signaled
  /\ UNCHANGED <<job, active, waiting, c_waiting, pc, count, result>>

-----------------------------------------------------------------------------
(* opal_condition_wait, at a moment when c_waiting is w and c_signaled is  *)
(* s.  A thread that comes while others have yet to wake up takes no       *)
(* signal from them: it makes progress once and returns.                   *)

CondWait(t, w, s) ==
  /\ c_signaled' = s
  /\ \/ /\ s > 0
        /\ c_waiting' = w
        /\ Goto(t, "again")
     \/ /\ s = 0
        /\ c_waiting' = w + 1
        /\ Goto(t, "wait")

\* The thread is through waiting and gives the lock up.
Leave(t, w, s, place) ==
  /\ c_waiting' = w
  /\ c_signaled' = s
  /\ Goto(t, place)

-----------------------------------------------------------------------------
(* wait_all                                                                *)

Counts(t) == [start |-> completed,
              pending |-> Cardinality(Mine(t) \ complete),
              start_failed |-> failed]

\* The first look, without the lock.
StartAll(t) ==
  /\ job.kind[t] = "all"
  /\ pc[t] = "start"
  /\ Goto(t, IF Mine(t) \intersect error # {} THEN "finish failed"
             ELSE IF Mine(t) \subseteq complete THEN "finish" ELSE "lock")
  /\ UNCHANGED <<job, requests, waiting, condition, count, result>>

\* Bug: what the first look found is not confirmed with the lock held.
LockAllUnconfirmed(t) ==
  /\ job.kind[t] = "all"
  /\ pc[t] = "lock"
  /\ count' = [count EXCEPT ![t] = [Counts(t) EXCEPT !.pending = Cardinality(Mine(t))]]
  /\ CondWait(t, c_waiting, c_signaled)
  /\ waiting' = waiting + 1
  /\ UNCHANGED <<job, requests, result>>

LockAll(t) ==
  /\ job.kind[t] = "all"
  /\ pc[t] = "lock"
  /\ \/ /\ Mine(t) \intersect error # {}
        /\ Leave(t, c_waiting, c_signaled, "finish failed")
        /\ UNCHANGED <<waiting, count>>
     \/ /\ Mine(t) \intersect error = {} /\ Mine(t) \subseteq complete
        /\ Leave(t, c_waiting, c_signaled, "finish")
        /\ UNCHANGED <<waiting, count>>
     \/ /\ Mine(t) \intersect error = {} /\ ~(Mine(t) \subseteq complete)
        /\ CondWait(t, c_waiting, c_signaled)
        /\ waiting' = waiting + 1
        /\ count' = [count EXCEPT ![t] = Counts(t)]
  /\ UNCHANGED <<job, requests, result>>

\* Bug: enough requests have completed, so they must be mine.
ResumeAllTrusting(t, w, s) ==
  \/ /\ count[t].pending > completed - count[t].start
     /\ CondWait(t, w, s)
     /\ UNCHANGED <<waiting, count>>
  \/ /\ count[t].pending <= completed - count[t].start
     /\ Leave(t, w, s, "finish")
     /\ waiting' = waiting - 1
     /\ UNCHANGED count

\* The loops of wait_all after a wait: first the failures are looked at, then the
\* number of requests completed, and then whether they were the right ones.
ResumeAll(t, w, s) ==
  LET enough == count[t].pending <= completed - count[t].start
      all == Mine(t) \subseteq complete
  IN \/ /\ failed > count[t].start_failed
        /\ Leave(t, w, s, "finish failed")
        /\ waiting' = waiting - 1
        /\ UNCHANGED count
     \/ /\ failed = count[t].start_failed /\ ~enough
        /\ CondWait(t, w, s)
        /\ UNCHANGED <<waiting, count>>
     \/ /\ failed = count[t].start_failed /\ enough /\ ~all
        /\ CondWait(t, w, s)
        /\ count' = [count EXCEPT ![t] = Counts(t)]
        /\ UNCHANGED waiting
     \/ /\ failed = count[t].start_failed /\ enough /\ all
        /\ Leave(t, w, s, "finish")
        /\ waiting' = waiting - 1
        /\ UNCHANGED count

\* Bug: without statuses the errors are not looked at.
ReportsErrorIgnored(t, failures) ==
  LET wrong == Mine(t) \intersect error
  IN ~job.ignore /\ (wrong # {} \/ (failures /\ ~(Mine(t) \subseteq complete)))

\* The error wait_all reports, when it has counted failures or not.
ReportsError(t, failures) ==
  LET wrong == Mine(t) \intersect error IN
  IF job.ignore THEN wrong # {}
  ELSE \/ failures /\ ~(Mine(t) \subseteq complete)
       \/ wrong # {} /\ ~job.persistent

\* The requests are freed, or inactive again if they are persistent; one with an
\* error is not freed.
FinishAll(t) ==
  /\ job.kind[t] = "all"
  /\ pc[t] \in {"finish", "finish failed"}
  /\ active' = active \ (Mine(t) \intersect (IF job.persistent THEN complete ELSE complete \ error))
  /\ result' = [result EXCEPT ![t] =
                  IF ReportsError(t, pc[t] = "finish failed") THEN "error" ELSE "success"]
  /\ Goto(t, "done")
  /\ UNCHANGED <<job, complete, error, completed, failed, waiting, condition, count>>

-----------------------------------------------------------------------------
(* wait_any, and the wait of a blocking call.                              *)

StartOther(t) ==
  /\ job.kind[t] # "all"
  /\ pc[t] = "start"
  /\ Goto(t, IF job.kind[t] = "one" /\ Mine(t) \subseteq complete THEN "finish" ELSE "lock")
  /\ UNCHANGED <<job, requests, waiting, condition, count, result>>

\* There is a request that is complete, or none to wait for.
Served(t) == Mine(t) \intersect active \subseteq complete
             \/ (job.kind[t] = "any" /\ Mine(t) \intersect active \intersect complete # {})

LockOther(t) ==
  /\ job.kind[t] # "all"
  /\ pc[t] = "lock"
  /\ \/ /\ Served(t)
        /\ Leave(t, c_waiting, c_signaled, "finish")
        /\ UNCHANGED waiting
     \/ /\ ~Served(t)
        /\ CondWait(t, c_waiting, c_signaled)
        /\ waiting' = waiting + 1
  /\ UNCHANGED <<job, requests, count, result>>

ResumeOther(t, w, s) ==
  /\ \/ /\ Served(t)
        /\ Leave(t, w, s, "finish")
        /\ waiting' = waiting - 1
     \/ /\ ~Served(t)
        /\ CondWait(t, w, s)
        /\ UNCHANGED waiting
  /\ UNCHANGED count

\* The error of the request is what a blocking call returns.
FinishOne(t) ==
  /\ job.kind[t] = "one"
  /\ pc[t] = "finish"
  /\ active' = active \ Mine(t)
  /\ result' = [result EXCEPT ![t] = IF Mine(t) \intersect error # {} THEN "error" ELSE "success"]
  /\ Goto(t, "done")
  /\ UNCHANGED <<job, complete, error, completed, failed, waiting, condition, count>>

\* wait_any returns the first request of its array that is complete; the caller
\* calls it again until it has had every one, or an error.
FinishAny(t) ==
  /\ job.kind[t] = "any"
  /\ pc[t] = "finish"
  /\ LET ready == Mine(t) \intersect active \intersect complete IN
     \/ /\ ready = {}
        /\ result' = [result EXCEPT ![t] = "success"]
        /\ Goto(t, "done")
        /\ UNCHANGED active
     \/ \E r \in ready :
          /\ \A q \in ready : r <= q
          /\ \/ /\ r \in error
                /\ result' = [result EXCEPT ![t] = "error"]
                /\ active' = IF job.persistent THEN active \ {r} ELSE active
                /\ Goto(t, "done")
             \/ /\ r \notin error
                /\ active' = active \ {r}
                /\ Goto(t, "start")
                /\ UNCHANGED result
  /\ UNCHANGED <<job, complete, error, completed, failed, waiting, condition, count>>

-----------------------------------------------------------------------------
Resume(t, w, s) == \/ job.kind[t] = "all" /\ ResumeAll(t, w, s)
                   \/ job.kind[t] # "all" /\ ResumeOther(t, w, s)

\* A waiting thread finds the condition signalled when it has the lock back.
Wake(t) == /\ pc[t] = "wait"
           /\ c_signaled > 0
           /\ Resume(t, c_waiting - 1, c_signaled - 1)
           /\ UNCHANGED <<job, requests, result>>

\* A thread that was not to wait has made progress and has the lock back.
Again(t) == /\ pc[t] = "again"
            /\ Resume(t, c_waiting, c_signaled)
            /\ UNCHANGED <<job, requests, result>>

Step(t) == \/ StartAll(t) \/ LockAll(t) \/ FinishAll(t)
           \/ StartOther(t) \/ LockOther(t) \/ FinishOne(t) \/ FinishAny(t)
           \/ Wake(t) \/ Again(t)

Next == \/ \E r \in Requests : Complete(r)
        \/ \E t \in Threads : Step(t)

\* Threads are scheduled, the lock is given to each in the end, and a request
\* completes if threads go on making progress.
Fairness == /\ \A t \in Threads : WF_vars(Step(t))
            /\ \A r \in Requests : WF_vars(Complete(r))

Spec == Init /\ [][Next]_vars /\ Fairness

-----------------------------------------------------------------------------
(* Properties.                                                             *)

At(places) == {t \in Threads : pc[t] \in places}

\* The counters agree with where the threads are: those in the layer are counted in
\* ompi_request_waiting, those in the condition in c_waiting, and there are never
\* more signals than threads to take them.
TypeOK == /\ job \in Jobs
          /\ pc \in [Threads -> {"start", "lock", "wait", "again", "finish", "finish failed", "done"}]
          /\ result \in [Threads -> {"none", "success", "error"}]
          /\ count \in [Threads -> [start : Nat, pending : Nat, start_failed : Nat]]
          /\ complete \subseteq Requests /\ active \subseteq Requests
          /\ error \subseteq complete \intersect job.fail
          /\ waiting = Cardinality(At({"wait", "again"}))
          /\ c_waiting = Cardinality(At({"wait"}))
          /\ c_signaled \in 0 .. c_waiting
          /\ completed = Cardinality(complete) /\ failed = Cardinality(error)

\* A call that returns success has waited for all its requests: wait_all counts
\* completions of any request while it sleeps, but looks at its own again
\* (ompi_request_default_wait_all).
SuccessMeansComplete == \A t \in Threads : result[t] = "success" => Mine(t) \subseteq complete

\* A call that returns success has had no failed request, and one that returns an
\* error has had one of its own: errors are neither lost nor somebody else's.
ErrorsAreMine == \A t \in Threads :
                   /\ result[t] = "success" => Mine(t) \intersect error = {}
                   /\ result[t] = "error" => Mine(t) \intersect error # {}

\* Where wait_all takes a failure for its own, and keeps it: only requests of the
\* thread may fail while it is in wait_all, and the error of a persistent one is
\* overlooked unless the statuses are ignored.
FailuresAreOwn(j) == \A t \in Threads : j.kind[t] = "all" =>
                       /\ j.fail \subseteq j.reqs[t]
                       /\ j.persistent /\ ~j.ignore => j.fail = {}

\* A thread that is about to finish has found what it waited for, and no failure
\* has been passed over by wait_any.
FindingsOK(t) ==
  /\ pc[t] = "finish" => IF job.kind[t] = "all" THEN Mine(t) \subseteq complete ELSE Served(t)
  /\ pc[t] = "finish failed" => job.kind[t] = "all" /\ error # {}
  /\ job.kind[t] = "any" /\ pc[t] # "done" => (Mine(t) \ active) \intersect error = {}

\* The invariant behind the two: a request is active until it has completed.
IInv == /\ TypeOK
        /\ Requests \ active \subseteq complete
        /\ \A t \in Threads : FindingsOK(t)

\* Every call returns, though the threads share the condition, one may take the
\* other's signal, and no request completes after the last.
Termination == <>(\A t \in Threads : pc[t] = "done")
=============================================================================
