------------------------------ MODULE JobStore ------------------------------
(***************************************************************************)
(* The job table of the scheduler, as DoStorageJobStore keeps it in the    *)
(* SQLite database of the Durable Object (scheduler/stores/do-storage.ts). *)
(* Every method of the JobStore interface that changes a row is one        *)
(* compare-and-set UPDATE, INSERT or DELETE; here each is an operator from *)
(* the table before the statement to the table after it.  A statement      *)
(* whose WHERE clause matches nothing returns the table unchanged.         *)
(*                                                                         *)
(* The column lease_owner is not kept: the only owner that ever claims is  *)
(* the constant `sched-<id of the object>`, so "leased by this owner" and  *)
(* "leased" select the same rows.  lease_expires_ms is 0 outside 'leased'. *)
(***************************************************************************)
EXTENDS PersistedJob, Integers

CONSTANTS
  LeaseMs,      \* DispatcherConfig.defaultLeaseMs
  ResultTtlMs   \* DispatcherConfig.resultTtlMs

ASSUME JobStoreAssumption == LeaseMs \in Nat /\ ResultTtlMs \in Nat

\* "absent" stands for "no row has this id".
Status == {"absent", "queued", "leased", "done", "failed", "cancelled"}

\* claims counts the times a row was leased; no statement reads it.
Row == [status: Status, retryCount: Nat, leaseExpires: Nat,
        resultExpires: Nat, claims: Nat]

NoRow == [status |-> "absent", retryCount |-> 0, leaseExpires |-> 0,
          resultExpires |-> 0, claims |-> 0]

Having(rows, st) == {j \in Jobs : rows[j].status = st}

Queued(rows) == Having(rows, "queued")

-----------------------------------------------------------------------------

\* UNIQUE(idempotency_key): a key that some row holds is taken.
KeyTaken(rows, j) ==
  /\ KeyOf[j] # NoKey
  /\ \E k \in Jobs : rows[k].status # "absent" /\ KeyOf[k] = KeyOf[j]

\* A collision on the key is swallowed: enqueue returns as if it had inserted.
Insert(rows, j) ==
  IF KeyTaken(rows, j) THEN rows
  ELSE [rows EXCEPT ![j] = [NoRow EXCEPT !.status = "queued"]]

LeaseExpired(row, now) == row.status = "leased" /\ row.leaseExpires < now

\* Wrong: takes leased rows whose lease still runs.
ClaimableLeased(rows, j, now) ==
  rows[j].status \in {"queued", "leased"} /\ Deadline[j] > now

Claimable(rows, j, now) ==
  /\ rows[j].status = "queued" \/ LeaseExpired(rows[j], now)
  /\ Deadline[j] > now

Claim(rows, j, now) ==
  [rows EXCEPT ![j] = [rows[j] EXCEPT !.status = "leased",
                                !.leaseExpires = now + LeaseMs,
                                !.claims = rows[j].claims + 1]]

\* Wrong: no condition on the status.
AckAny(rows, j, now) ==
  [rows EXCEPT ![j] = [rows[j] EXCEPT !.status = "done",
                                !.leaseExpires = 0,
                                !.resultExpires = now + ResultTtlMs]]

Ack(rows, j, now) ==
  IF rows[j].status # "leased" THEN rows
  ELSE [rows EXCEPT ![j] = [rows[j] EXCEPT !.status = "done",
                                     !.leaseExpires = 0,
                                     !.resultExpires = now + ResultTtlMs]]

AttemptsSpentLate(rows, j) == rows[j].retryCount + 1 > RetryMax[j]

\* retry.max bounds the attempts: the CASE of the UPDATE compares
\* retry_count + 1 with it.
AttemptsSpent(rows, j) == rows[j].retryCount + 1 >= RetryMax[j]

Fail(rows, j) ==
  IF rows[j].status # "leased" THEN rows
  ELSE [rows EXCEPT ![j] = [rows[j] EXCEPT
          !.status = IF AttemptsSpent(rows, j) THEN "failed" ELSE "queued",
          !.retryCount = rows[j].retryCount + 1,
          !.leaseExpires = 0]]

FailQueued(rows, j) ==
  IF rows[j].status # "queued" THEN rows
  ELSE [rows EXCEPT ![j] = [rows[j] EXCEPT !.status = "failed",
                                     !.retryCount = RetryMax[j]]]

Active(rows, j) == rows[j].status \in {"queued", "leased"}

Cancel(rows, j) ==
  IF Active(rows, j)
  THEN [rows EXCEPT ![j] = [rows[j] EXCEPT !.status = "cancelled", !.leaseExpires = 0]]
  ELSE rows

ExpiredLeases(rows, now) == {j \in Jobs : LeaseExpired(rows[j], now)}

\* Puts rows back to 'queued'; retry_count is left alone.
ReclaimExpiredLeases(rows, now) ==
  [j \in Jobs |->
     IF LeaseExpired(rows[j], now)
     THEN [rows[j] EXCEPT !.status = "queued", !.leaseExpires = 0]
     ELSE rows[j]]

SweepExpired(rows, now) ==
  [j \in Jobs |->
     IF rows[j].status = "done" /\ rows[j].resultExpires < now
     THEN NoRow ELSE rows[j]]
=============================================================================
