------------------------------- MODULE MCOb1 --------------------------------
(* Instances of Ob1Match for TLC. *)
EXTENDS Ob1Match, TLC

Setting(t, c, w, f, n, p, first, second, r) ==
  [threads |-> 1 .. t, created |-> c, window |-> w, fails |-> f, cancels |-> n, probes |-> p,
   sends |-> (0 :> first @@ 1 :> second), posts |-> r]

Two == {0, 1}
Tags == {-10, 5}       \* a collective's tag, and one of the application
Asked == {-10, 5, -1}  \* -1 is AnyTag

\* Two threads; cancels and probes; messages before the communicator; failing sends.
Settings == {Setting(2, TRUE, 2, 0, 0, FALSE, 2, 1, 2),
             Setting(2, TRUE, 2, 0, 0, FALSE, 3, 0, 2),
             Setting(1, TRUE, 2, 0, 1, TRUE, 2, 1, 2),
             Setting(1, FALSE, 2, 0, 0, FALSE, 3, 1, 1),
             Setting(1, TRUE, 2, 1, 0, FALSE, 3, 0, 2)}

\* One thread cancels while the other matches.
TwoThreads == {Setting(2, TRUE, 2, 0, 1, FALSE, 2, 1, 1)}
=============================================================================
