----------------------------- MODULE MCScheduler -----------------------------
(* Small instances of Scheduler: two or four jobs of two tenants.            *)
EXTENDS SchedulerProps

CONSTANTS j1, j2, j3, j4, a, b, key

\* j1 and j2 of tenant a, the others of tenant b.
MCTenantOf == [j \in Jobs |-> IF j \in {j1, j2} THEN a ELSE b]
MCSplitTenantOf == [j \in Jobs |-> IF j = j1 THEN a ELSE b]
MCNoKeys == [j \in Jobs |-> NoKey]
MCSharedKey == [j \in Jobs |-> IF j \in {j3, j4} THEN key ELSE NoKey]
MCLateDeadline == [j \in Jobs |-> MaxTime + 1]
MCShortDeadline == [j \in Jobs |-> IF j = j2 THEN 1 ELSE MaxTime + 1]
MCOneAttempt == [j \in Jobs |-> 1]
MCMixedAttempts == [j \in Jobs |-> IF j = j1 THEN 3 ELSE 1]
=============================================================================
