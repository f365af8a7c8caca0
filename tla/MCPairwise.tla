----------------------------- MODULE MCPairwise -----------------------------
(* Constants of the model-checked instances of PairwiseAlltoall.           *)
EXTENDS PairwiseAlltoall

\* Where a mode does not shuffle, one draw stands for all.
OneShuffle(n) == [j \in 0 .. n - 1 |-> (j + 1) % n]
OneStep == {OneShuffle(N - 1)}
OneGrid == {[i \in Ranks |-> OneShuffle(N)]}

Base == [mode : {0}, steps : OneStep, grid : OneGrid]
Random == [mode : {1}, steps : Shuffles(N - 1), grid : OneGrid]
Custom == [mode : {2}, steps : OneStep, grid : OneGrid]
Grid == [mode : {3}, steps : OneStep, grid : [Ranks -> Shuffles(N)]]

Rings == Base \union Random
AllModes == Rings \union Grid
=============================================================================
