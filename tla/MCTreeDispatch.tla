--------------------------- MODULE MCTreeDispatch ---------------------------
(* Instances of TreeDispatch. *)
EXTENDS TreeDispatch

Auto(n, F, M, lookalike, resets, window) ==
  [size |-> n, topology |-> "auto", branchingFactor |-> F, maxFanOut |-> M,
   treeThreshold |-> M, throwing |-> {1}, lookalike |-> lookalike,
   maxFaults |-> resets, window |-> window]

Pinned(n, topology, M, resets) ==
  [Auto(n, 4, M, {}, resets, n) EXCEPT !.topology = topology]

\* Fan-outs that are run: in-do and hybrid, trees of depth 1 and 2, and a tree
\* of depth 3, where sub-coordinators call sub-coordinators.
Run ==
  {Auto(n, 4, 4, l, 3, n) : n \in 0 .. 3, l \in {{}, {2}}}
  \cup {Auto(5, 4, M, {}, 1, 3) : M \in {1, 2}}
  \cup {Auto(5, 4, 2, {}, 2, 0), Auto(5, 4, 2, {2}, 1, 1), Pinned(2, "tree", 4, 2)}
  \cup {Auto(17, 4, 1, {}, 1, 0), Auto(17, 4, 1, {2}, 0, 0)}

Invalid == {Pinned(2, "in-do", 4, 0), Pinned(5, "hybrid", 4, 0),
            Auto(2, 3, 4, {}, 0, 2), Auto(2, 4, 257, {}, 0, 2)}

\* Fan-outs that are only planned.
Planned == {Auto(n, F, M, {}, 0, 1) : n \in 18 .. 90, F \in {4, 5}, M \in 1 .. 5}

MCRequests == Run \cup Invalid \cup Planned
=============================================================================
