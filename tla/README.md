# TLA+ models of the Slim Fly collectives

This directory models the collective operations that this repository changes in
its copy of Open MPI 1.8 (`src/ompi1-dev/openmpi`), above all `MPI_Alltoall` of the
`tuned` component, whose pairwise exchange was given four schedules chosen by
`SF_ALLTOALL_MODE`; the other collectives that run beside it; and the
point-to-point layer they all rest on: matching, the rendezvous protocol of PML
`ob1`, and the waits of the request layer.

Paths below are relative to `src/ompi1-dev/openmpi/ompi/`. `alltoall.c` stands for
`mca/coll/tuned/coll_tuned_alltoall.c`, other bare names for files of
`mca/coll/tuned`, `mca/coll/basic` (`coll_basic_*`) and `mca/pml/ob1` (`pml_ob1_*`).

## 1. The system

| part | code | state it keeps | operations |
|---|---|---|---|
| pairwise all-to-all | `alltoall.c:200-465` | loop position, the shuffled order, two requests | one exchange per iteration; modes 0 to 3 |
| exchange primitive | `coll_tuned_util.c:33-112`, `coll_tuned_util.h:55-71` | two requests | local copy, or irecv, isend, wait for both |
| shuffle | `alltoall.c:53-61` | the array, the generator of `rand` | `FisherYatesAllToAll` |
| in-place all-to-all(v) | `alltoall.c:92-198`, `coll_tuned_alltoallv.c:52-147` | one temporary block, a shuffled order | an exchange with each peer in turn |
| linear with a window | `alltoall.c:661-805` | an array of requests, counters | post a window, wait for any, replace |
| Bruck all-to-all | `alltoall.c:468-642` | a temporary buffer, shuffled distances | rotate, log n exchanges, rotate |
| two processes, basic linear; alltoallv | `alltoall.c:808-998`, `coll_tuned_alltoallv.c:149-313` | requests | one exchange; post all, wait for all |
| barriers | `coll_tuned_barrier.c` | none | six algorithms of messages without data |
| broadcasts | `coll_tuned_bcast.c`, `coll_basic_bcast.c` | a tree, two receives in turn, a shuffled order | forward segments |
| reductions, scans | `coll_tuned_reduce.c`, `coll_tuned_allreduce.c`, `coll_tuned_reduce_scatter.c`, `coll_basic_reduce.c`, `coll_basic_scan.c`, `coll_basic_exscan.c` | accumulators, two receive buffers in turn | combine along a tree, a ring or by halving |
| allgathers, gathers, scatters | `coll_tuned_allgather*.c`, `coll_tuned_gather.c`, `coll_tuned_scatter.c` | buffers | rounds of exchanges |
| topologies | `coll_tuned_topo.c` | parents and children | binary, binomial, in-order trees, chains |
| decision functions | `coll_tuned_decision_*.c`, `coll_tuned_dynamic_*.c` | forced algorithm, rules | choose an algorithm by size |
| request layer | `request/req_wait.c`, `request/request.h`, `opal/threads/condition.h` | completion flags, three counters, one condition variable | wait for any, for all, for one; complete |
| matching | `pml_ob1_recvfrag.c`, `pml_ob1_recvreq.c`, `pml_ob1_isend.c`, `pml_ob1.c` | sequence numbers; posted, unexpected, out-of-order and early messages | let in, match, probe, cancel |
| rendezvous | `pml_ob1_sendreq.c`, `.h`, `pml_ob1_recvreq.c`, `.h`, `pml_ob1.c`, `pml_ob1_progress.c` | two requests with a lock, a count and a depth each; pending lists | RNDV, ACK, FRAG, PUT, FIN; retry |
| communicator ids | `communicator/comm_cid.c` | | agree on a new communicator |
| benchmark | `src/ompi1-dev/alltoall/` | a schedule file | all-to-all over `MPI_Sendrecv`, Latin squares |

The ranks of a communicator are processes that share nothing but messages. A
collective call is a program of point-to-point operations on each rank. The PML
matches a message with a posted receive in the order of the sender, and copies it
into the receive buffer. A small message is *eager*: the send is complete once the
data is copied out. A large one goes by *rendezvous*: the send is complete only
after the receiver has matched it, and until then the data is in the application's
buffer. The byte transfer layers (BTLs) below the PML move fragments, over several
devices in any order, and call back from `opal_progress`, which every thread that
waits in the request layer runs.

What is hard here:

* all the messages of all calls of an algorithm carry one tag, so nothing but their
  order tells the block of one call from the block of the next;
* ranks run at their own pace, one or more calls apart;
* with rendezvous, a send waits for its receiver: schedules can wait in a circle;
* the shuffled schedules only work if every rank draws the same order, from a
  global generator and the environment of each process;
* an error in the middle of an exchange leaves requests behind;
* trees, windows and counts are computed from ranks and sizes, on each rank for
  itself, and must fit together at sizes that are not powers of two;
* several threads run callbacks of one request at once, and may find the resources
  of a BTL exhausted at any point;
* threads that wait for different requests share a condition variable.

What makes each part correct:

* every collective: a call that returns success has the right items in each slot, *of
  the same call*, combined in the right order; no request of a finished call still
  reads or writes the application's buffers; a rank does not return before the ranks
  it depends on have entered; every call ends if nothing fails;
* the shuffle: the result is a permutation, all ranks get the same one, and other users
  of `rand` do not matter;
* the schedules: every rank sends to and receives from every rank exactly once;
* matching: messages of one sender match in the order they were sent, whatever order
  their fragments arrive in, with the receive that was posted first;
* rendezvous: each byte is written once, a request is completed once and not while
  anything of it is under way, and in the end it is completed;
* request layer: a wait returns when, and only when, its own requests are complete,
  and nobody sleeps for ever.

The hazards behind these properties are listed in `PROJECT.json` at their source lines.

## 2. Modules

```
Alltoall                        contract of MPI_Alltoall (abstract specification)
Shuffles                        permutations, and those of one cycle
  Schedules                     the four loops of the pairwise exchange, as pure functions
    PairwiseAlltoall            the loops over the point-to-point layer; implements Alltoall
  FisherYates                   the shuffle as a loop over the C library's generator
  BruckAlltoall                 Bruck's algorithm with shuffled distances
LinearSyncAlltoall              the window of requests; implements Alltoall

Rounds                          a collective as a program of rounds for each rank
  Barriers, Gathers             the programs of the barriers; of the allgathers and the
                                other all-to-alls
  Trees                         the topologies, as pure functions
  TreeCollectives, Reductions   the programs that run over trees, rings and halves
  Collective                    the ranks run a program again and again
    Annotated                   what holds after each round, and the invariant it gives

Matching                        what MPI promises of matching (abstract specification)
  Ob1Match                      the matching layer of pml/ob1; implements Matching
Rendezvous                      one long message between a send and a receive request
RequestWait                     threads that wait for requests

PairwiseAlltoallProofs, FisherYatesProofs, BruckProofs, LinearSyncProofs, CollectiveProofs,
Ob1MatchProofs, RendezvousProofs, RequestWaitProofs               theorems
MCPairwise, MCFisherYates, MCBruck, MCCollectives, MCOb1, MCRendezvous, MCRequestWait
                                constants for TLC
```

The four modules of all-to-all algorithms have the code of this repository in detail,
each step of a loop an action. The collectives that are as in Open MPI, and the in-place
exchange, are programs for one module, `Collective`. All of them take from the layers
below what `Matching`, `Rendezvous` and `RequestWait` are about: order between two
ranks, completion of both sides, and a wait that returns when its requests are
complete.

`PairwiseAlltoall`, `BruckAlltoall` and the shuffled jobs of `MCCollectives` take the
*result* of a shuffle as an input (any permutation of one cycle); `FisherYates` shows
that this is what the C loop produces and that the processes agree on it.

### The all-to-all algorithms

* `pc[r]` is where rank `r` is in the function: `"out"` between calls, `"failed"` after
  `err_hndl`. A rank whose call failed makes no further call (`MPI_ERRORS_ARE_FATAL` or
  an application that stops); its peers and what it left posted remain.
* `call[r]` counts calls. A block is `<<sender, receiver, call>>`: datatypes, counts and
  addresses are abstracted to it, which is what the properties tell apart.
* `rreq`, `sreq` (or `reqs`) are the requests. `ompi_coll_tuned_sendrecv` is three actions
  (`Irecv`, `Isend`, `WaitAll`), since peers act between them.
* `wire[s][d]` holds the messages of `s` to `d` that have matched no receive, in order.
  `Match(s, d)` pairs the oldest one with the receive that `d` has posted for `s`.
* `protocol` is `"eager"` (the message carries the data) or `"rndv"` (the send is complete
  only at `Match`). Each message may choose, since the choice depends on flow control.
* `Fail` is an error of irecv or isend: it jumps to `err_hndl`, and a receive that was
  posted stays posted, as in the code.

| module | definition | code |
|---|---|---|
| `Schedules` | `StepOf`, `SendTo`, `RecvFrom`, `Skips`, `Last` | the loops at `alltoall.c:262-458`; an iteration is an element of `0 .. Last(mode)`, a `continue` is `Skips` |
| | `Cell`, `GridRow`, `GridCol` | the grid of mode 3 and its walk by columns |
| `PairwiseAlltoall` | `Enter`, `LocalCopy`, `Irecv`, `Isend`, `WaitAll`, `Return`, `Fail` | entry, and `ompi_coll_tuned_sendrecv` once per iteration; `GoToNext` steps over the skipped iterations |
| `FisherYates` | `Srand`, `Swap`, `Return`; `AppDraw` | `alltoall.c:53-61`; the application's own `rand()`, between the calls or, from another thread, during the loop |
| `LinearSyncAlltoall` | `PostRecv`, `PostSend`, `WaitAll`, `ReplaceRecv`, `ReplaceSend`, `Retire`, `Return` | the first batch, the wait for all, and the three outcomes of one turn of the `wait_any` loop |
| | `LoseSend`, `WaitForNothing` | the isend whose error is not looked at, and the write to `reqs[MPI_UNDEFINED]` after it |
| `BruckAlltoall` | `Enter`, `Irecv`, `Isend`, `WaitAll`, `Return` | step 1 (rotation), one round of step 2, the copy back, step 3 |

Undefined behaviour is a choice in `LinearSyncAlltoall`: when `wait_any` has nothing to wait
for, it sets the index to `MPI_UNDEFINED` and the function writes outside its array;
`WaitForNothing` either ends the process or goes on with the completion counted.
`LoseSend` leaves the slot null (as PML `cm` does) or with a request that never completes
(as `ob1` does).

In `BruckAlltoall` the distance of round `k` is `Power[order[k]]`, and slot `i` moves in it if
`Has(i, Power[order[k]])`, the test of one bit in the loop that builds the datatype. A block
that has `i` to go in all sits, after some rounds, in slot `i` of the rank where the distances
made so far have brought it; `IsInSlot` says so of a block by what is left of `i` (`IsRest`).

### The other collectives

A program is a sequence of rounds: receives (`recv`), sends (`send`), a wait, and what
is then written to the rank's own buffers (`then`: for each slot the slots whose
values are combined into it, in order). `ahead` says that the wait leaves the last
receive posted open (the two receives in turn of the segmented algorithms), `behind` that
it leaves the first ones open. The code computes peers, offsets and counts from rank and
size while it goes; a program is what it computes. A slot holds a list of items
`<<rank, name, call>>`, so that a reduction in the wrong order, twice, or of the wrong call
is a different value.

In `Collective`, `Enter` and `Advance` post the receives of a round and then its sends in
one step, `Match` delivers the oldest message, `Return` ends a call. The posting is one
step because a rank that has posted some of them can neither wait nor return. A send of at
most `eager` slots is complete when it is made; a longer one, or a synchronous one, at
`Match`. `Meets` knows `MPI_ANY_SOURCE`, which the linear barrier uses on purpose and the
double ring by `(rank - 1) % size`. At most `faults` times an irecv or isend fails: what
comes after it in the round is not posted, and what was stays; `pc[r]` is then `-i`, the
round it happened in.

`Annotated` gives each round of each rank an annotation (`plan`): which receives are still
open after it, which ranks have entered the call by then, and what the slots hold. It models
no code: `Proper` says what makes annotations right, as conditions on the programs alone
and without any state, and section 4 what follows from them. `MCCollectives` computes the
annotations of a job from its program (`PlanOf`). Messages and posted receives carry the
number of their round (`round`, `at`) for these properties only; no step looks at it.

### Matching

`Ob1Match` is one receiver and one communicator. What a thread does under the
matching lock is one action; the places where the code goes on without the lock
are separate actions. Queues are sets whose elements have the number of their place:
receives that of their posting (`seq`), unexpected messages that of their being let in.
The places without the lock are what a thread does with a matched message (`Progress`), the look
at `frags_cant_match` (`CheckCantMatch`, then `SearchCantMatch`), the two halves of a
cancel (`CancelCheck`, `Cancel`). `Arrive` takes any message from `net`, so the
order of arrival is free. `CallbackTooEarly`, `AddComm`, `AddFragment` and `AddNext` are
the messages that come before the communicator exists and the loop that lets them in. The
header has the sequence number modulo `SeqNumbers`. `Matching` says what MPI promises:
each receive takes the earliest message that it accepts of each sender, and each
message the receive posted first; the refinement mapping reads the queues.

### Rendezvous

One message between the send request of process `"s"` and the receive request of process
`"r"`. A thread in a callback has a list of steps before it (`todo`), each one access to
what the threads share: an atomic add (`AddBytes`, `DepthDown`, `StateDown`), the test of
`send_request_pml_complete_check` (`Check`), the lock it then tries (`Claim`), a turn of
`schedule_once` (`SendOnce`, `RecvOnce`) and the count after it (`FragSent`, `PutSent`),
`Unlock`, appending to a pending list (`Park`, `Queue`, `Postpone`), and the retries of
`MCA_PML_OB1_PROGRESS_PENDING` (`Progress`, `Packets`, `Unpark`, `Writes`). `Handler`
gives the steps for a message, `Callback` those for the completion of a send. A BTL has a
number of descriptors; the completion of a send comes from within the send or later, and a
BTL gets a descriptor back after the callback (as `sm` and `vader` do). `Exhausted` is a
descriptor that cannot be had, `Refused` a send that fails. `others` descriptors are in
use by other messages at first, which is how a process comes to be short of them. The four
lists are looked at in one step by `Progress`; to look later at one of them finds no less.

### Waits

`RequestWait` has the counters of the request layer and `opal_condition_wait` as it is
written: the thread that waits gives up the lock, looks for progress, takes the lock, and
looks at `c_signaled`. `Complete(r)` is `ompi_request_complete` in a thread of the progress
engine. A program counter, `count` (the variables `start`, `pending` and `start_failed` of
`wait_all`) and `result` are what a thread has of its own.

## 3. What TLC checks

| run | instance | properties | what it shows |
|---|---|---|---|
| `pairwise_modes` | modes 0, 1, 3 with every shuffle, the same on all ranks; 3 ranks, 3 calls, both protocols, 1 fault | `IInv` `Complete` `NoneLeavesEarly` `UnexpectedBound` `BuffersReleased` `ImplementsContract` `LocalCopyLast` `Termination` | the calls, which share one tag, are never mixed up; at most two messages of a rank are unexpected at a peer; no request outlives a successful call; the exchange implements `Alltoall`; every call ends unless something fails; on the ring the local copy is last |
| `shuffle` | 2 processes, 4 entries, every sequence of draws, 1 draw of each application at any moment | `IInv` `ResultIsShuffle` `Agreement` | always a permutation of one cycle; the same on both unless another thread draws during the loop |
| `linear_windows` | 3 ranks, no window and window 1, 2 calls, both protocols, 1 fault, the unchecked one included | `IInv` `CompleteIfReported` `WaitsForSomething` `NoneLeavesEarly` `BuffersReleased` `ImplementsContract` `Termination` | slots and counters fit together, and the loop never waits for nothing, until an isend is lost; whatever fails, no rank returns early or leaves a request behind |
| `bruck_orders` | 5 ranks, every order of the distances, rendezvous, 2 calls, 1 fault | `IInv` `NoneLeavesEarly` `Termination` | a block is where its journey so far has brought it; log n partners are enough to keep ranks together |
| `collectives` | the programs of some sixty algorithms at the sizes, roots, segments and protocols listed in `MCCollectives`, 1 or 2 calls, 1 fault | `IInv` `Complete` `NoneLeavesEarly` `NothingCrosses` `BuffersReleased` `Termination` | results are right and in order, a barrier holds, messages meet the receives they are meant for, of the same call, and no rank waits for ever; the annotations of every job are proper, which is what the theorems about `Collective` assume |
| `ob1_matching` | 2 senders, 2 tags and any, numbers modulo 2, five settings: two threads; cancels and probes; messages before the communicator; failing sends | `IInv` `NothingOverlooked` `NoMissedMatch` `CancelledUntaken` `ImplementsMatching` `Delivered` | every message is in one place; matching is in order whatever order messages come in, none is overlooked, and all are delivered |
| `rendezvous` | a message of two parts by FRAGs, by PUTs, by both; up to two threads in a process; plenty of descriptors, few, and one error | `IInv` `CompletedWhole` `Termination` | one thread at a time schedules or completes a request; it is completed once, with all bytes, and when nothing comes for it any more; counters stay within the request, and the depth is not below zero where it is compared; both are completed in the end |
| `request_wait` | three threads in `wait_all`, `wait_any` or a blocking wait, five requests, errors where the code handles them | `IInv` `SuccessMeansComplete` `ErrorsAreMine` `Termination` | the shared counters agree with where the threads are; no signal is lost; success means complete; an error is one of a thread's own requests |
| `custom_remainder` | mode 2, 5 ranks, 2 per switch | `Complete` **violated** | finding 1 |
| `inplace_alltoall` | the blocking version, 3 ranks, every shuffle | `Termination` **violated** | finding 2 |
| `linear_lost_send` | 3 ranks, window 1, 1 fault | `Complete` **violated** | finding 3 |
| `wait_all_foreign` | a request that is nobody's fails | `SuccessMeansComplete` **violated** | finding 4 |

Seven more configurations are kept to show what lies just outside the passing runs. TLC
finds no error in the first, and each of the others violated:

| configuration | module, property | what it shows |
|---|---|---|
| `differing_modes.cfg` | `MCPairwise`, `Complete` `NoneLeavesEarly` | each rank with a mode and shuffles of its own, as where the environments of the processes differ (2 calls): what returns is right and has waited for everybody, though ranks may wait for each other for ever |
| `barrier_sync.cfg` | `MCCollectives`, `SendsMatched` | a rank leaves a barrier while its last message is under way (section 5) |
| `cancel_race.cfg` | `MCOb1`, `CancelledUntaken` | a receive is cancelled that another thread matches; the passing run cancels with one thread in the layer and cannot show it |
| `wait_all_persistent.cfg` | `MCRequestWait`, `ErrorsAreMine` | `wait_all` overlooks the error of a persistent request |
| `lost_ack_flag.cfg` | `MCRendezvous`, `Termination` | a refused PUT that was to be the ACK |
| `ack_stranded.cfg` | `MCRendezvous`, `Termination` | an ACK that is put aside after the last completion |
| `touched_after_completion.cfg` | `MCRendezvous`, `NothingTouched` | a thread still looks at a request that another has completed |

Each property of a passing run has a mutant in `PROJECT.json`: a definition with a
plausible mistake (marked "Bug:" or "As if" in the modules) for which the run reports it
violated.

### Bounds

* Calls: the hazard is a message of the next call beside one of this call. Two calls
  produce every overlap where a rank is at most one call ahead (`NoneLeavesEarly`);
  `UnexpectedBound` needs three. `MaxCalls` in `MCCollectives` gives one or two by
  algorithm and size: two where a rank may run ahead of others within reach of the run.
* Faults: one error at every possible place. The theorems cover any number of them.
* Ranks: 3 is the smallest size with a peer that is neither partner, 4 a power of two with
  two disjoint pairs, 5 gives Bruck a third round that is not full, 6 and 7 are the first
  at which folding, halving and the last subtree of a tree have all their cases.
* `Window` = 1 is the strongest form of the window, each kind of request has one slot.
* `MaxForeign` = 1 draw of the application. The numbers drawn are below 6 for 4 entries:
  by the remainders that the loop takes (by 3, 2 and 1), every behaviour of the loop.
* Segments: 1 to 3, and 5 for Rabenseifner's windows, which must be cut unevenly at each
  halving.
* Matching: two senders and up to four messages are enough for a message that waits for
  its turn beside one that does not, from either sender. `SeqNumbers` = 2 makes the numbers
  wrap at once; a sender is never more than that ahead of the receiver (`window`), which in
  the code is 65536 messages and not enforced.
* Rendezvous: two parts, so that one is under way while the next is scheduled; pipeline
  depth 1, where the depth decides each time; two threads, one inside `schedule` and one
  that finds it locked. A process whose ACK or receive request has to wait has one thread
  in the run (`ack_stranded.cfg` shows why) and at least two descriptors.
* Requests: three threads, so that a signal can wake the wrong one of two.

Runs with a liveness property do not check deadlock separately: it is the stronger
statement, and after an error ranks may wait for ever, as they do in the code.

### Fairness

* All-to-all algorithms and `Collective`: weak fairness of the ranks' steps and of
  `Match` (in `Collective` of "some rank" and "some match": programs are finite, so this is
  no weaker). A process inside a call keeps running, the application makes its next call,
  and a rank inside a call polls the progress engine. Faults and draws have no fairness.
* `Ob1Match`: weak fairness of each thread's steps, and of some thread taking in a
  message that has arrived. Posting, cancelling and failing have none.
* `Rendezvous`: weak fairness of each thread that is in a callback; strong fairness of
  receiving some message and of finishing some send, since a thread may be called again
  and again for something else: `opal_progress` asks all BTLs each time it is called
  (`opal/runtime/opal_progress.c:185-188`), and threads that wait call it all the time.
* `RequestWait`: weak fairness of each thread and of the completion of each request.

## 4. What is proved

The theorems hold for every value of the constants that the modules' assumptions allow:
every number of ranks, calls, faults, threads, messages, requests or bytes, both protocols,
every draw, and in `Collective` every program. Every module of theorems extends the module it is about; each invariant named
`IInv` below is also an invariant of that module's run, so TLC has looked for
counterexamples to it before it was proved.

| module | theorems | under which condition |
|---|---|---|
| `PairwiseAlltoallProofs` | `BaseIsRegular` `RandomIsRegular` `CustomIsRegular` `GridIsRegular` `PairwiseComplete` | mode 2: `PerSwitch` divides `N` |
| | `TypeCorrect` | |
| | `Invariance` `Completeness` `Synchronises` `BoundsUnexpected` `ReleasesBuffers` `LocalCopyIsLast` `Refinement` | the schedules are regular (`AllRegular`) |
| `FisherYatesProofs` | `Invariance` `ShuffleResult` `SameOrder` | |
| `BruckProofs` | `Invariance` `Completeness` `Synchronises` | the ranks draw the same order (`SameOrders`) |
| `LinearSyncProofs` | `TypeCorrect` `Invariance` `LoopMakesSense` `Completeness` `Synchronises` `ReleasesBuffers` `Refinement` | |
| `CollectiveProofs` | `JobStays` `TypeCorrect` `ReleasesBuffers` | |
| | `MessagesPaired` `CallsKeepApart` `RanksInformed` `Synchronises` `BuffersSupplied` `Completeness` `Invariance` | the annotations are proper (`AllProper`); all but the last: the job has no receive from any source |
| `Ob1MatchProofs` | `Invariance` `TurnsAreSeen` `MatchesAreMade` `MatchesInOrder`; `NotBoth` | the last: one thread where receives are cancelled |
| `RendezvousProofs` | `Invariance` `OneAtATime` | |
| `RequestWaitProofs` | `Invariance`; `SuccessIsOwn` `ErrorsAreOwn` | the last two: no failure of others while in `wait_all` |

**Schedules.** In each mode a rank sends to every rank exactly once, receives from
every rank exactly once, and is its own partner on both sides or on neither
(`Regular`). Modes 0 to 2 come down to `(r + step) % N` being a bijection of steps and
peers; mode 2 needs that `PerSwitch` divides `N`, which is finding 1; in mode 3 the pair
`{r, p}` stands in exactly one cell, the one of row `min` with entry `max`.

**Pairwise exchange.** The inductive invariant `IInv` is needed because `Complete` says
nothing about messages in flight. Its heart is an account (`WireOK`): with `Sent(s, d)` the
number of blocks `s` has sent to `d` in all calls, computed from its call and its position in
the loop, and `Received` likewise, the channel holds exactly `Sent - Received` messages, and
the n-th is the block of call `Received + n`. Regularity is used twice: a rank that starts an
exchange has not met that partner yet in this call, and one at the end of its loop has met
all of them. From `IInv`:

* `Completeness`, and with the schedule theorems `PairwiseComplete`: modes 0, 1, 3, and
  mode 2 without a remainder, are complete. The modes may even differ between ranks
  (`differing_modes.cfg`; `pairwise_modes` gives all the same): such a communicator may deadlock
  but does not return a wrong result;
* `Synchronises`: a rank that has received from all peers knows that all have entered;
* `BoundsUnexpected`: `Sent - Received <= 2`, from `Synchronises`' argument on both sides;
* `ReleasesBuffers`, from `RendezvousOK`: a rendezvous message is always the last of its
  sender, who is waiting for it;
* `LocalCopyIsLast`: on the ring the local copy is the last step of a call, since a regular
  schedule meets each rank once and the ring meets the rank itself at distance `N`;
* `Refinement`: every step is a step of `Alltoall` or a stutter; `Match` is its `Deliver`.

**Shuffle.** `Invariance` and `ShuffleResult`: the array is at every moment a permutation in
which every cycle has an entry the loop has still to visit (`CyclesAreOpen`) and no two of
those are on the same cycle (`CyclesAreApart`). Swapping entry `i` with one below joins the
cycles of the two; when only entry 0 is left, one cycle is left. That needs `j < i`, which
is what `rand() % i` gives (and why the result is never the identity), and nothing of the
numbers drawn. `SameOrder` is `Agreement`: a process that nobody has disturbed has the array
that the numbers after `srand(size)` determine. The array after each step is described by a
course (a sequence of arrays, each one exchange from the last) and not by recursion; that two
courses of the same numbers agree is shown by taking the first place where they would differ.

**Bruck.** `IInv` says for each block where it is, by what is left of its way. A round moves
the slots that have its bit, and taking that bit out of what is left is one step of
`IsRest`; after the last round nothing is left, which with the final rotation is `Complete`.
Facts about bits (`Power`, `Has`) are proved by the least number that would violate them. A
message carries several blocks at once, and two ranks meet in one round of a call at most, so
the channel of two ranks has an account as above for that round (`ChannelOK`). `Synchronises`
needs one more part, `OriginsOK`: a rank that returns has a block of its call from each rank,
and a block exists only once its sender has entered. `SameOrders` is what `SameOrder`
above proves of the shuffle.

**Linear with a window.** `SlotsOK` says how the slots fill up: the requests in them are
different and of peers that the counters have passed, and a receive's slot is never empty
before the last receive is posted. `CountsOK` relates the counters to the busy slots; it is
true until the error of an isend goes unnoticed, and so are `ReceivedInPlace` and `InOrder`,
which give `Completeness`. `Synchronises` and `ReleasesBuffers` hold whatever is lost: after
an isend whose slot was left null a rank comes to wait for nothing, but not before its
receives are complete. `LoopMakesSense` (`WaitsForSomething`) says that this, and with it the
write outside the array at `MPI_UNDEFINED`, happens in no other case. `Refinement` has the
same limit as the property it proves: each step implements `Alltoall` until an error goes
unnoticed.

**Collectives.** That no request of a call that returned is left behind (`ReleasesBuffers`)
holds of any program whose last wait leaves nothing open (`JobAssumption`), since a message
that has left its data behind belongs to the round its sender is in. The rest needs
that programs fit together. `Proper` says so, and is about one round, or one send and the
receive of the same number between the same two ranks, at a time:

* `MessagesPaired`: for each pair of ranks there is a number of messages that have met
  their receives; those on the way are the next ones of the sender, and the open receives
  the next ones of the receiver (`SentOK`, `ReceivedOK`). Requests are counted through all
  calls: a call has as many sends as receives of each pair (`SendsFit`), so `Number` gives
  the two sides of a message the same call and the same place in it. `Match` takes the
  oldest message and the first open receive that meets it, and open receives are in the
  order of their posting (`OpenOK`). From it `CallsKeepApart`: a message meets a receive
  of its own call that is long enough;
* `RanksInformed`: what a rank learns in a round is what a rank knew that sent a message
  which the round waits for (`KnowsOK`), and by `MessagesPaired` that message has been sent.
  From it `Synchronises`, since a rank knows at the end those it needs (`EndsOK`);
* `BuffersSupplied`: the slots hold what the annotation of the last wait says, but for
  what has come since for open receives, and each message carries what its sender's
  annotation says (`GetsOK`). Work after a wait neither reads nor writes what is still to
  be received (`HoldsOK`), no two open receives write one slot, and nothing that is being
  sent is received into (`SlotsOK`), which is what makes a late copy of a rendezvous message
  harmless. From it `Completeness`.

The theorems hold for any pace of the ranks, any number of failing posts, and any limit
between eager and rendezvous. That the jobs of the `collectives` run have proper annotations
is checked by TLC: `AtFirst => Proper(job)` is part of `IInv`, and a program that does not fit (a wrong
peer, an interchanged slot, a receive that is too short, a segment read too early) has none.

**Matching.** `IInv` has a part for each of the layer's promises: every message is in one
place and those of a sender are let in in order (`MessagesOK`); receives are in the queue of
their source (`ReceivesOK`); no receive and message that fit are both queued
(`NoMissedMatch`); and for a message whose turn has come there is a thread that will look
(`LookedAfter`, which makes the look before the lock harmless). `MatchesInOrder` is the
refinement of `Matching` step by step; in most steps messages only move within the
layer, and its work is that the receive the layer picks among the specific and the wild
ones is the one posted first, and the message the first of its sender. The assumptions are
those of section 3's bounds: a sender is less than `SeqNumbers` messages ahead, and one thread
is in the layer while the communicator is created. `NotBoth` is `CancelledUntaken` where the
receives are cancelled by the only thread; with more it is false (`cancel_race.cfg`), so the passing
run, which cancels in that setting alone, says nothing of the race.

**Rendezvous.** `OneAtATime` (`OneHolder`) follows for any number of threads and any shortage
of descriptors. To schedule or complete a request is to have certain steps among
those still to do (`Owns`); at most one thread has one, once, and while one has, the
request is not parked in a list and not completed. The lock is taken exactly then. Before the
send request is started the lock is still free although its starter owns it, which is what
`Starting` and `Quiet` are for; `RangeInHand` keeps the head of the range list for the
thread that sent from it. No thread that comes back from a list, or retries, can be a second.

**Waits.** `IInv` has the counters: `c_waiting` and `waiting` count the threads in their
loops, `completed` and `failed` the requests, and a thread about to return has found what it
waited for. `SuccessIsOwn` (`SuccessMeansComplete`) and `ErrorsAreOwn` (`ErrorsAreMine`) hold
where nothing but a thread's own requests fails while it is in `wait_all`, and no persistent
request fails unless statuses are ignored (`FailuresAreOwn`); findings 4 and `wait_all_persistent.cfg` show that
both conditions are needed.

Only model-checked:

* all liveness (`Termination`, `Delivered`), which is out of the prover's reach;
* that the annotations of a program are proper, which is checked size by size: several
  programs are built by functions and folds over ranks, and what such a function computes
  for every size is an induction for which the library's theorems take an operator, which
  no installed prover can instantiate. Where the proofs need an induction they use the
  least element of a set of counterexamples, which has no such parameter;
* jobs with a receive from any source (the linear barrier and the double ring): which send
  such a receive meets is not fixed by the programs;
* `CompletedWhole` of the rendezvous: it rests on sums over lists of steps, messages and
  descriptors of all threads (how many bytes are under way).

## 5. Findings

1. **Mode 2 leaves out peers** (`alltoall.c:344`). `switches = size / nperswitch` truncates: with
   5 ranks and 2 per switch, distance 4 never occurs, and the call returns `MPI_SUCCESS`.
2. **In-place alltoall deadlocks** (`alltoall.c:151`). Both ranks of a pair receive before they send.
   The alltoallv version, with irecv, isend and a wait, does not.
3. **An isend whose error is lost** (`alltoall.c:781`). `err` is assigned and not looked at in the
   window loop; the call returns `MPI_SUCCESS`, and the peer takes the block of the
   next call for the lost one.
4. **wait_all believes any failure is its own** (`request/req_wait.c:287`). While it sleeps, the
   failure of a request of somebody else makes it leave, and with `MPI_STATUSES_IGNORE` it
   returns `MPI_SUCCESS` with requests pending.

What the additional configurations show:

* `lost_ack_flag.cfg`: `req_ack_sent` is set before the PUT that is to be the ACK is sent
  (`pml_ob1_recvreq.c:1012`); if the send fails, the next one no longer says so. A sender
  whose message goes by RDMA alone then never completes.
* `ack_stranded.cfg`: an ACK, a FIN or a receive request for which there is no descriptor
  is put aside until the next send of the process completes (`pml_ob1.h:279-289`);
  `mca_pml_ob1_progress` looks only at send requests. If another thread handles the last
  completion between the failure and the append, nothing takes the ACK up again. With a
  single descriptor one thread is enough, since the descriptor comes back after the callback.
* `touched_after_completion.cfg`: "Request structure cannot be accessed after calling this
  function any more" (`pml_ob1_recvreq.h:150`), and the send request may be reused from
  then on (`pml_ob1_sendreq.h:293`); but a thread that has added its bytes tests, and tries
  the lock of, a request that another thread may have completed in between.
* `cancel_race.cfg`: whether a receive is matched is read before the lock is taken
  (`pml_ob1_recvreq.c:106`) and not again under it, and a receive is marked as matched only
  after the matching thread has let the lock go (`pml_ob1_recvfrag.c:195-201`). With two
  threads a receive that has its message is taken from a queue it is no longer in, and
  completed as cancelled; "either the cancellation succeeds or the communication
  succeeds, but not both" (`mpi/man/man3/MPI_Cancel.3in:55`).
* `wait_all_persistent.cfg`: with statuses, the error of a persistent request that was
  found while sleeping is reset before it is looked at (`req_wait.c:362-364`).
* `barrier_sync.cfg`: the comments at `coll_tuned_barrier.c:197` and `:276` speak of
  synchronous sends; `sendrecv_zero` uses standard ones. The barriers do not need them
  (`NoneLeavesEarly`), but the last message may be unmatched when its sender leaves.

Noted while reading, without a run:

* a mode other than 0 to 3 returns `MPI_SUCCESS` without any exchange (`alltoall.c:255`); mode
  2 without `SF_NPERSWITCH` divides by zero; in mode 3 the local copy is not last, unlike the
  comment at `alltoall.c:417`; `srand` restarts the application's own numbers at each call;
* if ranks could draw different orders, Bruck with eager sends would return wrong blocks
  (`SameOrders = FALSE`), while the pairwise modes at worst deadlock;
* in-place alltoall loses its order array when the temporary buffer cannot be had;
* the pairwise alltoallv says "starting from 1" (`coll_tuned_alltoallv.c:175`) and starts at 0;
* errors are overwritten or not looked at in the linear barrier's wait
  (`coll_tuned_barrier.c:385`, `:396`), in Bruck's allgatherv (`coll_tuned_allgatherv.c:200`), and
  at the first receive of recursive halving (`coll_tuned_reduce_scatter.c:222`);
* a message for a communicator that does not exist yet is put into its list without a
  lock (`pml_ob1_recvfrag.c:128`), although the comment at `pml_ob1.c:236` asks for one;
* a send that fails after it took its sequence number (`pml_ob1_isend.c:145`) leaves a gap
  behind which nothing of this sender matches any more; nothing keeps a sender from
  being 65536 messages ahead;
* the flags of an ACK that is sent later are never set (`pml_ob1_recvreq.h:401-416`), so
  whether sends are throttled is left to chance; an RDMA fragment that is replaced by
  copies is not returned (`pml_ob1_sendreq.c:1179-1198`).

## 6. Not modelled, and what is next

| part | why |
|---|---|
| reduction with a bound on outstanding sends; allreduce, reduce_scatter and allgathers made of two other collectives | compositions of what is modelled; the bound is a synchronous send every few segments |
| collectives between two communicators, neighbourhood collectives | separate code of Open MPI; the basic neighbour all-to-all on a periodic dimension of two blocks by its order of requests alone |
| an error of Bruck's allgatherv and of recursive halving on three ranks | the code returns success then, `Complete` does not hold (section 5) |
| decision functions, rules files | tables and a parser: the choice depends on sizes that MPI requires to be equal on all ranks |
| `wait_some`, tests, generalised requests | the same loop without the sleep, or user code |
| a request that fails while it is waited for inside a collective; a rank that dies in a call | the error path of the wait is that of `Fail`; ob1 aborts the process when a fragment fails |
| RGET and the receiver's gets, striping over several BTLs, buffered sends, accelerators | `Rendezvous` has one BTL and the protocols RNDV, FRAG and PUT; RGET differs by who moves the data. A BTL that takes a descriptor back later without calling is not in it |
| cancelling while another thread matches; communicator creation with several threads | the code is not right there (`cancel_race.cfg`, and section 5), so the passing run has one thread |
| agreement on communicator ids, other PMLs, BTLs, datatypes, run-time environment | unchanged from Open MPI; the models use what they promise |
| Latin squares and the benchmark, build and measurement scripts | programs around the library without a protocol of their own |

Theorems still to be proved: the account of bytes behind `CompletedWhole`; the content of
jobs with receives from any source, where a receive has a set of sends that it may meet;
proper annotations for every size, one algorithm at a time.
