-------------------------- MODULE MCSchedulerClient --------------------------
(* Two jobs, of one and of two attempts, and their idempotency keys.         *)
EXTENDS SchedulerClient

CONSTANTS j1, j2, k1

MCRetryMax == [j \in Jobs |-> IF j = j1 THEN 2 ELSE 1]

OneKey == [j \in Jobs |-> k1]
NoKeys == [j \in Jobs |-> NoKey]
=============================================================================
