---------------------------- MODULE JobLifecycle ----------------------------
(***************************************************************************)
(* What the scheduler promises about a job, whatever its machinery: the    *)
(* life of its row, and how its attempts are counted.                      *)
(*                                                                         *)
(*   - a job runs only from 'queued', and a failed attempt is counted;     *)
(*   - it fails only when its attempts are spent or its deadline passed;   *)
(*   - a lost lease gives the job back uncounted;                          *)
(*   - 'failed' and 'cancelled' are final, 'done' only ever goes away.     *)
(***************************************************************************)
EXTENDS Naturals

CONSTANTS Jobs, RetryMax

VARIABLES
  status,    \* the status of a job's row, "absent" without one
  attempts   \* its counted failed attempts

lifeVars == <<status, attempts>>

Move(j, from, to) == status[j] \in from /\ status' = [status EXCEPT ![j] = to]

Submit(j) == Move(j, {"absent"}, "queued") /\ UNCHANGED attempts

Lease(j) == Move(j, {"queued"}, "leased") /\ UNCHANGED attempts

Complete(j) == Move(j, {"leased"}, "done") /\ UNCHANGED attempts

\* An attempt failed and some are left.
Retry(j) ==
  /\ Move(j, {"leased"}, "queued")
  /\ attempts[j] + 1 < RetryMax[j]
  /\ attempts' = [attempts EXCEPT ![j] = @ + 1]

\* The last attempt failed.
GiveUp(j) ==
  /\ Move(j, {"leased"}, "failed")
  /\ attempts[j] + 1 >= RetryMax[j]
  /\ attempts' = [attempts EXCEPT ![j] = @ + 1]

\* The deadline passed before the job was dispatched.
Expire(j) ==
  /\ Move(j, {"queued"}, "failed")
  /\ attempts' = [attempts EXCEPT ![j] = RetryMax[j]]

CancelOne(j) == Move(j, {"queued", "leased"}, "cancelled") /\ UNCHANGED attempts

\* The leases of the jobs in S are taken back.
Release(S) ==
  /\ \A j \in S : status[j] = "leased"
  /\ status' = [j \in Jobs |-> IF j \in S THEN "queued" ELSE status[j]]
  /\ UNCHANGED attempts

\* The results of the jobs in S are forgotten.
Forget(S) ==
  /\ \A j \in S : status[j] = "done"
  /\ status' = [j \in Jobs |-> IF j \in S THEN "absent" ELSE status[j]]
  /\ attempts' = [j \in Jobs |-> IF j \in S THEN 0 ELSE attempts[j]]

LifeInit ==
  /\ status = [j \in Jobs |-> "absent"]
  /\ attempts = [j \in Jobs |-> 0]

LifeNext ==
  \/ \E j \in Jobs : \/ Submit(j) \/ Lease(j) \/ Complete(j) \/ Retry(j)
                     \/ GiveUp(j) \/ Expire(j) \/ CancelOne(j)
  \/ \E S \in SUBSET Jobs : Release(S) \/ Forget(S)

LifeSpec == LifeInit /\ [][LifeNext]_lifeVars
=============================================================================
