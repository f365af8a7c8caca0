--------------------------- MODULE MCRequestWait ----------------------------
(* Instances of RequestWait for TLC. *)
EXTENDS RequestWait

Setting(k, q, f, p, i) == [kind |-> k, reqs |-> q, fail |-> f, persistent |-> p, ignore |-> i]

\* What the three threads wait for; request 5 may be nobody's.
Apart == <<{1, 2}, {3}, {4}>>
Many == <<{1, 2}, {3}, {4, 5}>>

\* No request fails.
Sound == {Setting(<<"all", "all", "any">>, Many, {}, FALSE, TRUE),
          Setting(<<"all", "one", "any">>, Many, {}, TRUE, TRUE),
          Setting(<<"all", "all", "all">>, Apart, {}, FALSE, FALSE)}

\* At most one thread is in wait_all, and only its own requests fail, or it is in
\* none.
Failing == {Setting(<<"all", "one", "any">>, Apart, {1, 2}, FALSE, i) : i \in BOOLEAN}
           \union {Setting(<<"any", "one", "any">>, Apart, Requests, p, TRUE) : p \in BOOLEAN}

Good == Sound \union Failing

\* A request that is nobody's fails while a thread is in wait_all.
Foreign == {Setting(<<"all", "one", "one">>, Apart, {5}, FALSE, TRUE)}

\* A persistent request fails, and wait_all is given statuses.
Persistent == {Setting(<<"all", "one", "one">>, Apart, {1}, TRUE, FALSE)}
=============================================================================
