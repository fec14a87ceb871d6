---------------------------- MODULE PersistedJob ----------------------------
(***************************************************************************)
(* The fields of a PersistedJob (scheduler/job-store.ts) that never change *)
(* once SchedulerDO.enqueue has built it, as functions on the job ids.     *)
(***************************************************************************)
EXTENDS Naturals

CONSTANTS
  Jobs,         \* ids handed to SchedulerDO.enqueue, each used by one call
  Tenants,
  TenantOf,     \* tenantId
  KeyOf,        \* idempotencyKey, or NoKey
  NoKey,
  Deadline,     \* deadlineEpochMs
  RetryMax      \* retry.max

ASSUME JobAssumption ==
  /\ TenantOf \in [Jobs -> Tenants]
  /\ Deadline \in [Jobs -> Nat]
  /\ RetryMax \in [Jobs -> Nat]
=============================================================================
