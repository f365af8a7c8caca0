------------------------------- MODULE Trees --------------------------------
(***************************************************************************)
(* The topologies of coll_tuned_topo.c: the parent of rank r in a tree of  *)
(* n ranks, and the list of its children.  Each rank computes its own.     *)
(***************************************************************************)
EXTENDS Rounds

NoParent == -1
Tree(prev, next) == [prev |-> prev, next |-> next]

-----------------------------------------------------------------------------
(* build_tree: the nodes of a level are numbered one after the other, and  *)
(* the children of one are a whole level apart.                            *)

NodesUpToLevel(fanout, level) == (fanout ^ level - 1) \div (fanout - 1)

\* calculate_level
Level(fanout, v) ==
  CHOOSE l \in 0 .. v : NodesUpToLevel(fanout, l) <= v /\ v < NodesUpToLevel(fanout, l + 1)

\* Bug: the parent is looked for among the nodes of the level itself.
BuildTreeParentLevel(n, root, fanout, r) ==
  LET v == (r + n - root) % n
      delta == fanout ^ Level(fanout, v)
      children == [i \in 1 .. fanout |-> v + delta * i]
      down == delta \div fanout
      parent == IF v < fanout THEN 0 ELSE v - down
  IN Tree((parent + root) % n,
          [i \in 1 .. Cardinality({j \in 1 .. fanout : children[j] < n}) |->
             (children[i] + root) % n])

BuildTree(n, root, fanout, r) ==
  LET v == (r + n - root) % n
      level == Level(fanout, v)
      delta == fanout ^ level
      children == [i \in 1 .. fanout |-> v + delta * i]
      down == delta \div fanout
      limit == NodesUpToLevel(fanout, level)
      parent == IF v < fanout THEN 0
                ELSE v - down * (CHOOSE k \in 1 .. v : v - down * k < limit
                                                     /\ v - down * (k - 1) >= limit)
  IN Tree((parent + root) % n,
          [i \in 1 .. Cardinality({j \in 1 .. fanout : children[j] < n}) |->
             (children[i] + root) % n])

-----------------------------------------------------------------------------
(* build_bmtree: the parent lacks the highest bit of the node.             *)

BuildBmtree(n, root, r) ==
  LET v == (r + n - root) % n
      mask == NextPowerOfTwo(v)
      remotes == [k \in 1 .. Log(n) |-> Flip(v, mask * 2 ^ (k - 1))]
  IN Tree(IF r = root THEN root ELSE (Flip(v, mask \div 2) + root) % n,
          [k \in 1 .. Cardinality({j \in 1 .. Log(n) :
                                     mask * 2 ^ (j - 1) < n /\ remotes[j] < n}) |->
             (remotes[k] + root) % n])

\* build_in_order_bmtree: the parent lacks the lowest bit.
BuildInOrderBmtree(n, root, r) ==
  LET v == (r + n - root) % n
      low == CHOOSE k \in 0 .. Log(n) : (k = Log(n) \/ (v \div 2 ^ k) % 2 = 1)
                                      /\ \A j \in 0 .. k - 1 : (v \div 2 ^ j) % 2 = 0
      remotes == SelectSeq([k \in 1 .. low |-> v + 2 ^ (k - 1)], LAMBDA p : p < n)
  IN Tree(IF r = root THEN root ELSE (v - 2 ^ low + root) % n,
          [k \in 1 .. Len(remotes) |-> (remotes[k] + root) % n])

-----------------------------------------------------------------------------
(* build_in_order_bintree: the last rank is the root, its left child is    *)
(* the rank before it, and the right subtree has the lower half.           *)

\* size ranks from delta on; parent is where the tree hangs.
InOrderSubtree[size \in Nat, delta \in Nat, parent \in Int, r \in Nat] ==
  LET top == delta + size - 1
      rightsize == size \div 2
      right == IF size > 2 THEN rightsize - 1 ELSE -1
  IN IF r = top
     THEN Tree(parent, (IF size > 1 THEN <<top - 1>> ELSE <<>>)
                       \o (IF size > 2 THEN <<delta + right>> ELSE <<>>))
     ELSE IF r - delta > right
          THEN InOrderSubtree[size - rightsize - 1, delta + rightsize, top, r]
          ELSE InOrderSubtree[rightsize, delta, top, r]

BuildInOrderBintree(n, r) == InOrderSubtree[n, 0, NoParent, r]

-----------------------------------------------------------------------------
(* build_chain: chains of ranks that follow each other, the first mark of  *)
(* them one longer than the rest.                                          *)

BuildPipeline(n, root, r) ==
  LET v == (r + n - root) % n
  IN Tree(IF v = 0 THEN NoParent ELSE (v - 1 + root) % n,
          IF v + 1 >= n THEN <<>> ELSE <<(v + 1 + root) % n>>)

\* Bug: the chains after the first are all taken to be as long as it.
ChainHeadEven(column, mark, len) == 1 + column * len

\* The first rank of a chain.
ChainHead(column, mark, len) ==
  IF column < mark THEN 1 + column * len ELSE 1 + mark * len + (column - mark) * (len - 1)

BuildChain(n, root, fanout, r) ==
  LET heads == IF n - 1 < fanout THEN n - 1 ELSE fanout
      v == (r + n - root) % n
      uneven == (n - 1) % heads # 0
      len == (n - 1) \div heads + (IF uneven THEN 1 ELSE 0)
      mark == IF uneven THEN (n - 1) % heads ELSE heads + 1
      column == IF v - 1 < mark * len THEN (v - 1) \div len
                ELSE mark + (v - 1 - mark * len) \div (len - 1)
      head == ChainHead(column, mark, len)
      last == head + (IF column < mark THEN len ELSE len - 1) - 1
      \* The root steps from one head to the next.
      Next[i \in 1 .. heads] ==
        IF i = 1 THEN (root + 1) % n
        ELSE (Next[i - 1] + len - (IF i - 1 > mark THEN 1 ELSE 0)) % n
  IN CASE heads = 1 -> BuildPipeline(n, root, r)
       [] heads > 1 /\ v = 0 -> Tree(NoParent, [i \in 1 .. heads |-> Next[i]])
       [] OTHER -> Tree(((IF v = head THEN 0 ELSE v - 1) + root) % n,
                        IF v = last \/ v + 1 >= n THEN <<>> ELSE <<(v + 1 + root) % n>>)
=============================================================================
