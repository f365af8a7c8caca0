---------------------------- MODULE MCFisherYates ----------------------------
(* Constants of the model-checked instances of FisherYates.                *)
EXTENDS FisherYates

\* Remainders by 1, 2 and 3 are those of a number below 6, and by 4 of one
\* below 12.
Values == IF Size <= 4 THEN 0 .. 5 ELSE 0 .. 11

\* Every sequence of as many numbers as the loop and the application can draw
\* after srand.  The application's own sequence is the numbers 0, 1, 2, ...
Drawable == 0 .. Size - 2 + MaxForeign
Numbers(f) == [n \in 0 .. Size + MaxForeign |-> IF n \in Drawable THEN f[n] ELSE 0]
Counting == [n \in 0 .. Size + MaxForeign |-> n]
AllStreams == {[s \in Seeds |-> IF s = "size" THEN Numbers(f) ELSE Counting] :
                 f \in [Drawable -> Values]}
=============================================================================
