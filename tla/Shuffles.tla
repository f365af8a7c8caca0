------------------------------ MODULE Shuffles ------------------------------
(***************************************************************************)
(* What FisherYatesAllToAll(arr, n, seed) may do to an array of n entries: *)
(* entry j of the result is entry p[j] of the argument, where p is a       *)
(* permutation of one cycle, since rand() % i never leaves an entry where  *)
(* it is.  FisherYates models the loop that computes it.                   *)
(***************************************************************************)
EXTENDS Integers

PermutationsOf(n) ==
  {p \in [0 .. n - 1 -> 0 .. n - 1] :
     \A y \in 0 .. n - 1 : \E x \in 0 .. n - 1 : \A z \in 0 .. n - 1 :
       p[z] = y <=> z = x}

\* S is a union of cycles of p.
IsInvariant(S, p, n) == \A x \in 0 .. n - 1 : x \in S <=> p[x] \in S

IsOneCycle(p, n) ==
  \A S \in SUBSET (0 .. n - 1) :
    S # {} /\ IsInvariant(S, p, n) => S = 0 .. n - 1

Shuffles(n) == {p \in PermutationsOf(n) : IsOneCycle(p, n)}
=============================================================================
