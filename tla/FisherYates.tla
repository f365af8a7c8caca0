----------------------------- MODULE FisherYates -----------------------------
(***************************************************************************)
(* FisherYatesAllToAll, run by every rank in its own process.  The order   *)
(* it draws decides with whom a rank exchanges, so all the ranks have to   *)
(* draw the same one.  The random numbers come from the C library's only   *)
(* generator, which the application uses too: between the calls, and from  *)
(* another thread even in the middle of one.                               *)
(***************************************************************************)
EXTENDS Shuffles

CONSTANTS Procs,      \* the processes
          Size,       \* size: the length of the array
          Streams,    \* the pairs of number sequences the generator may give
          MaxForeign  \* bound: how many numbers each application draws

\* A seed fixes the numbers that follow it: those after srand(size), and those
\* of the application.
Seeds == {"size", "app"}

ASSUME SizeAssumption == Size \in Nat
ASSUME MaxForeignAssumption == MaxForeign \in Nat
ASSUME StreamsAssumption ==
  Streams \subseteq [Seeds -> [0 .. Size + MaxForeign -> Nat]]

VARIABLES stream,   \* the numbers of each seed; the library is the same everywhere
          seed,     \* the seed in use in a process
  drawn,    \* how many numbers have been drawn since it was set
          foreign,  \* how many numbers the application has drawn
          mixed,    \* whether it has drawn one while the loop ran (history)
          pc,       \* before the "call", in the "loop", or "done"
          arr,      \* the array
          i         \* the index of the loop

rngVars == <<stream, seed, drawn, foreign, mixed>>
vars == <<rngVars, pc, arr, i>>

Identity == [x \in 0 .. Size - 1 |-> x]

Init == /\ stream \in Streams
        /\ seed = [p \in Procs |-> "app"]
        /\ drawn = [p \in Procs |-> 0]
        /\ foreign = [p \in Procs |-> 0]
        /\ mixed = [p \in Procs |-> FALSE]
        /\ pc = [p \in Procs |-> "call"]
        /\ arr = [p \in Procs |-> Identity]
        /\ i = [p \in Procs |-> Size - 1]

rand(p) == stream[seed[p]][drawn[p]]

Draw(p) == drawn' = [drawn EXCEPT ![p] = @ + 1]

\* The application calls rand(); if the loop runs it is another thread.
AppDraw(p) == /\ foreign[p] < MaxForeign
              /\ foreign' = [foreign EXCEPT ![p] = @ + 1]
              /\ mixed' = [mixed EXCEPT ![p] = @ \/ pc[p] = "loop"]
              /\ Draw(p)
              /\ UNCHANGED <<stream, seed, pc, arr, i>>

\* Bug: the generator is not seeded.
SrandOmitted(p) == /\ pc[p] = "call"
                   /\ pc' = [pc EXCEPT ![p] = "loop"]
                   /\ UNCHANGED <<rngVars, arr, i>>

Srand(p) == /\ pc[p] = "call"
            /\ seed' = [seed EXCEPT ![p] = "size"]
            /\ drawn' = [drawn EXCEPT ![p] = 0]
            /\ pc' = [pc EXCEPT ![p] = "loop"]
            /\ UNCHANGED <<stream, foreign, mixed, arr, i>>

Exchanged(a, x, y) == [a EXCEPT ![x] = a[y], ![y] = a[x]]

\* Bug: j may be i itself.
SwapInclusive(p) == /\ pc[p] = "loop"
                    /\ i[p] > 0
                    /\ LET j == rand(p) % (i[p] + 1) IN
                       arr' = [arr EXCEPT ![p] = Exchanged(@, i[p], j)]
                    /\ i' = [i EXCEPT ![p] = @ - 1]
                    /\ Draw(p)
                    /\ UNCHANGED <<stream, seed, foreign, mixed, pc>>

Swap(p) == /\ pc[p] = "loop"
           /\ i[p] > 0
           /\ LET j == rand(p) % i[p] IN
              arr' = [arr EXCEPT ![p] = Exchanged(@, i[p], j)]
           /\ i' = [i EXCEPT ![p] = @ - 1]
           /\ Draw(p)
           /\ UNCHANGED <<stream, seed, foreign, mixed, pc>>

Return(p) == /\ pc[p] = "loop"
             /\ i[p] <= 0
             /\ pc' = [pc EXCEPT ![p] = "done"]
             /\ UNCHANGED <<rngVars, arr, i>>

Next == \E p \in Procs : AppDraw(p) \/ Srand(p) \/ Swap(p) \/ Return(p)

Spec == Init /\ [][Next]_vars

-----------------------------------------------------------------------------
(* Properties.                                                             *)

TypeOK == /\ stream \in [Seeds -> [0 .. Size + MaxForeign -> Nat]]
          /\ seed \in [Procs -> Seeds]
          /\ drawn \in [Procs -> Nat]
          /\ foreign \in [Procs -> 0 .. MaxForeign]
          /\ mixed \in [Procs -> BOOLEAN]
          /\ pc \in [Procs -> {"call", "loop", "done"}]
          /\ arr \in [Procs -> PermutationsOf(Size)]
          /\ i \in [Procs -> -1 .. Size - 1]

\* The loop gives a permutation of one cycle, whatever numbers are drawn and
\* whoever else draws.
ResultIsShuffle == \A p \in Procs : pc[p] = "done" => arr[p] \in Shuffles(Size)

\* The processes whose loop no other thread has disturbed get the same order,
\* however the applications used the generator before.
Agreement == \A p, q \in Procs :
  pc[p] = "done" /\ pc[q] = "done" /\ ~mixed[p] /\ ~mixed[q] => arr[p] = arr[q]

\* When the loop has still to visit the entries up to k, every cycle of the
\* array has one of them, and no two of them are on one cycle.
CyclesAreOpen(a, k) ==
  \A S \in SUBSET (0 .. Size - 1) :
    S # {} /\ (\A x \in S : a[x] \in S) => \E x \in S : x <= k

CyclesAreApart(a, k) ==
  \A x \in 0 .. k : \E S \in SUBSET (0 .. Size - 1) :
    IsInvariant(S, a, Size) /\ S \intersect (0 .. k) = {x}

\* Each step of the loop draws one number.
DrawsBounded(p) == drawn[p] <= foreign[p] + Size - 1 - i[p]

\* The inductive invariant behind ResultIsShuffle.
IInv == /\ TypeOK
        /\ \A p \in Procs : /\ CyclesAreOpen(arr[p], i[p])
                            /\ CyclesAreApart(arr[p], i[p])
                            /\ DrawsBounded(p)
                            /\ pc[p] = "done" => i[p] <= 0
=============================================================================
