------------------------------ MODULE Topology ------------------------------
(***************************************************************************)
(* How a fan-out is laid out over worker objects: selectTopology           *)
(* (topology/selector.ts) and balancedFill (topology/plan.ts).  A plan     *)
(* keeps what the coordinators dispatch by: the topology, the sizes of the *)
(* root's slices, the sizes in which each slice is cut one tier below, and *)
(* the depth.  Deeper tiers of the plan are never read: a sub-coordinator  *)
(* cuts its slices itself.                                                 *)
(***************************************************************************)
EXTENDS Integers, Sequences

\* A request: size, topology ("auto" or pinned), branchingFactor, maxFanOut,
\* treeThreshold.

CeilDiv(a, b) == (a + b - 1) \div b

BalancedFill(size, n) ==
  [i \in 1 .. n |-> size \div n + (IF i <= size % n THEN 1 ELSE 0)]

Ones(n) == [i \in 1 .. n |-> 1]

\* The sizes above zero: balancedFill gives the larger sizes first.
NonZero(sizes) ==
  SubSeq(sizes, 1, CHOOSE n \in 0 .. Len(sizes) : \A i \in DOMAIN sizes : sizes[i] > 0 <=> i <= n)

\* Wrong: one tier short (floor instead of ceil).
DepthFloor(size, F, M) ==
  LET tiers[n \in Nat] == IF n < F * F THEN 1 ELSE 1 + tiers[n \div F]
  IN tiers[size \div M]

\* max(1, ceil(log_F(size / M))).
Depth(size, F, M) ==
  LET tiers[n \in 0 .. CeilDiv(size, M)] ==
        IF n <= F THEN 1 ELSE 1 + tiers[CeilDiv(n, F)]
  IN tiers[CeilDiv(size, M)]

\* The quotient of logarithms is a float: at an exact power of F it may be
\* rounded up, which gives one tier more (log 125 / log 5 > 3).
Depths(size, F, M) ==
  LET K == Depth(size, F, M)
  IN IF K > 1 /\ size = M * F ^ K THEN {K, K + 1} ELSE {K}

\* The size of the child that buildTreePlan makes of a slice at depth K, and
\* the sizes of that child's own children.
ChildSize(slice, K, M) == IF K <= 1 /\ M < slice THEN M ELSE slice

GrandchildSizes(slice, K, F, M) ==
  IF K <= 1 THEN Ones(ChildSize(slice, K, M))
  ELSE LET fill == NonZero(BalancedFill(slice, F))
       IN [i \in DOMAIN fill |-> ChildSize(fill[i], K - 1, M)]

HybridPlan(r) ==
  [topology |-> "hybrid", sizes |-> Ones(r.size), below |-> <<>>, depth |-> 0]

TreePlan(r, K) ==
  LET fill == NonZero(BalancedFill(r.size, r.branchingFactor))
      cut(slice) == GrandchildSizes(slice, K, r.branchingFactor, r.maxFanOut)
  IN [topology |-> "tree",
      sizes |-> [i \in DOMAIN fill |-> ChildSize(fill[i], K, r.maxFanOut)],
      below |-> [i \in DOMAIN fill |-> cut(fill[i])],
      depth |-> K]

InDoPlan(r) ==
  [topology |-> "in-do", sizes |-> <<r.size>>, below |-> <<>>, depth |-> 0]

\* The requests selectTopology throws a TopologyError for.
Refused(r) ==
  \/ r.branchingFactor \notin 4 .. 16
  \/ r.maxFanOut \notin 1 .. 256
  \/ r.topology = "in-do" /\ r.size > 1
  \/ r.topology = "hybrid" /\ r.size > r.maxFanOut

Chosen(r) ==
  IF r.topology # "auto" THEN r.topology
  ELSE IF r.size <= 1 THEN "in-do"
  ELSE IF r.size <= r.treeThreshold THEN "hybrid" ELSE "tree"

\* The plans of a request that is not refused.
Plans(r) ==
  CASE Chosen(r) = "in-do"  -> {InDoPlan(r)}
    [] Chosen(r) = "hybrid" -> {HybridPlan(r)}
    [] Chosen(r) = "tree"   ->
         {TreePlan(r, K) : K \in Depths(r.size, r.branchingFactor, r.maxFanOut)}

-----------------------------------------------------------------------------

\* Where each of the sizes ends when they are laid out one after another.
Ends(sizes) ==
  LET end[i \in 0 .. Len(sizes)] == IF i = 0 THEN 0 ELSE end[i - 1] + sizes[i]
  IN end

Total(sizes) == Ends(sizes)[Len(sizes)]

Lengths(ss) == [i \in DOMAIN ss |-> Len(ss[i])]

\* The sequences of ss one after another.
Concatenation(ss) ==
  LET end == Ends(Lengths(ss))
      of(k) == CHOOSE i \in DOMAIN ss : end[i - 1] < k /\ k <= end[i]
  IN [k \in 1 .. end[Len(ss)] |-> ss[of(k)][k - end[of(k) - 1]]]

\* The slices that a coordinator cuts from the sequence `all`, each with the
\* slot of its first item.  Array.slice stops at the end of the array.
Slices(all, sizes, base) ==
  LET end == Ends(sizes) IN
  [i \in DOMAIN sizes |->
     [items |-> SubSeq(all, end[i - 1] + 1, IF end[i] > Len(all) THEN Len(all) ELSE end[i]),
      base |-> base + end[i - 1]]]
=============================================================================
