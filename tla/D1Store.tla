------------------------------ MODULE D1Store ------------------------------
(***************************************************************************)
(* Dispatchers that share one job table in a D1 database                   *)
(* (scheduler/stores/d1.ts under scheduler/dispatcher.ts).  Unlike the     *)
(* SQLite adapter of the Durable Object, every statement is a call over    *)
(* the network that other dispatchers' statements fall between: a claim is *)
(* a SELECT and later an UPDATE that compares again, fail an UPDATE and    *)
(* later a SELECT.  A statement may reject, executed or not.               *)
(*                                                                         *)
(* CfpSchedulerDO never uses this adapter and D1 has no alarm: nothing in  *)
(* the repository puts expired leases back or rebuilds a ready set here.   *)
(* Both are operations that an owner of the dispatchers may call.          *)
(***************************************************************************)
EXTENDS Integers, FiniteSets

CONSTANTS
  Jobs,
  Workers,      \* dispatchers, by ownerId
  RetryMax,     \* retry.max of each job
  LeaseMs,
  InFlightLimit, \* of each dispatcher
  MaxTime,      \* bound of the clock
  MaxClaims,    \* bound on the times a job is leased
  MaxFaults,    \* bound on rejected statements and lost memories
  NoOne, NoJob

ASSUME D1StoreAssumption ==
  /\ IsFiniteSet(Jobs) /\ IsFiniteSet(Workers)
  /\ NoOne \notin Workers /\ NoJob \notin Jobs
  /\ RetryMax \in [Jobs -> Nat]
  /\ InFlightLimit \in [Workers -> Nat] /\ LeaseMs \in Nat /\ MaxTime \in Nat
  /\ MaxClaims \in Nat /\ MaxFaults \in Nat

Runs == Jobs \X (1 .. MaxClaims)

Statuses == {"absent", "queued", "leased", "done", "failed", "cancelled"}
Final == {"done", "failed", "cancelled"}

\* running: the user function.  acking, failing: the UPDATE was sent.
\* asking: fail's second statement was sent.
Phases == {"none", "running", "acking", "failing", "asking"}

Idle == [job |-> NoJob, at |-> "idle", now |-> 0]

VARIABLES
  rows,     \* the columns that statements look at, and the number of claims
  ready,    \* #ready of each dispatcher
  loop,     \* its dispatch loop: the claim under way and the clock it read
  runs,     \* each claim's execution: whose, how far, its lease
  now,      \* the clock
  running,  \* #running of each dispatcher, by id of the job
  faults,
  strayed,  \* history: jobs that a step has taken from whoever kept them
  failures, \* history: per job, the runs that have reported a failure
  usurped   \* history: jobs an older run of the lease's owner has handed back

vars == <<rows, ready, loop, runs, running, now, faults, strayed, failures, usurped>>

NoRow == [status |-> "absent", retryCount |-> 0, owner |-> NoOne, expires |-> 0, claims |-> 0]
NoRun == [by |-> NoOne, phase |-> "none", lease |-> 0]

Init ==
  /\ rows = [j \in Jobs |-> NoRow]
  /\ ready = [w \in Workers |-> {}]
  /\ loop = [w \in Workers |-> Idle]
  /\ runs = [r \in Runs |-> NoRun]
  /\ now = 0
  /\ running = [w \in Workers |-> {}]
  /\ faults = 0
  /\ strayed = {}
  /\ failures = [j \in Jobs |-> 0]
  /\ usurped = {}

\* The jobs that w's memory holds: its ready set, its claim, its runs.
KeptBy(w) ==
  {j \in Jobs : \/ j \in ready[w] \/ loop[w].job = j
                \/ \E r \in Runs : runs[r].by = w /\ r[1] = j}

Stray(S) == strayed' = strayed \cup S

\* A statement that rejects.
Fault == faults < MaxFaults /\ faults' = faults + 1

SetRow(j, row) == rows' = [rows EXCEPT ![j] = row]
SetPhase(r, p) == runs' = [runs EXCEPT ![r].phase = p]
\* The slot is freed by the id of the job, whichever run of it took it.
EndRun(r) ==
  /\ runs' = [runs EXCEPT ![r] = NoRun]
  /\ running' = [running EXCEPT ![runs[r].by] = @ \ {r[1]}]

-----------------------------------------------------------------------------
(* enqueue: INSERT, then the ready set.  A rejected INSERT that took effect *)
(* leaves a row that no ready set has.                                      *)

Enqueue(w, j) ==
  /\ rows[j].status = "absent" /\ rows[j].claims = 0
  /\ SetRow(j, [NoRow EXCEPT !.status = "queued"])
  /\ \/ ready' = [ready EXCEPT ![w] = @ \cup {j}] /\ UNCHANGED <<faults, strayed>>
     \/ Fault /\ Stray({j}) /\ UNCHANGED ready
  /\ UNCHANGED <<loop, runs, running, now, failures, usurped>>

-----------------------------------------------------------------------------
(* The dispatch loop: take an id, claim it, run it.                         *)

\* claim reads the clock before its first statement.
Take(w, j) ==
  /\ loop[w] = Idle
  /\ j \in ready[w]
  /\ Cardinality(running[w]) < InFlightLimit[w]
  /\ ready' = [ready EXCEPT ![w] = @ \ {j}]
  /\ loop' = [loop EXCEPT ![w] = [job |-> j, at |-> "select", now |-> now]]
  /\ UNCHANGED <<rows, runs, running, now, faults, strayed, failures, usurped>>

\* The WHERE clause that SELECT and UPDATE share, at the clock the claim read.
Claimable(j, t) ==
  rows[j].status = "queued" \/ (rows[j].status = "leased" /\ rows[j].expires < t)

ClaimSelects(w) ==
  /\ loop[w].at = "select"
  /\ loop' = [loop EXCEPT ![w] =
                IF Claimable(loop[w].job, loop[w].now) THEN [@ EXCEPT !.at = "update"]
                ELSE Idle]
  /\ UNCHANGED <<rows, ready, runs, running, now, faults, strayed, failures, usurped>>

\* Wrong: the UPDATE trusts the SELECT.
ClaimTrusts(j, t) == rows[j].status # "absent"

\* The condition of the UPDATE.
StillClaimable(j, t) == Claimable(j, t)

\* The row as the UPDATE leaves it.
Leased(j, w, t) ==
  [rows[j] EXCEPT !.status = "leased", !.owner = w, !.expires = t + LeaseMs,
                  !.claims = @ + 1]

\* The UPDATE compares again; its answer starts the function.
ClaimUpdates(w) ==
  LET j == loop[w].job
      t == loop[w].now IN
  /\ loop[w].at = "update"
  /\ loop' = [loop EXCEPT ![w] = Idle]
  /\ IF StillClaimable(j, t)
     THEN /\ rows[j].claims < MaxClaims
          /\ SetRow(j, Leased(j, w, t))
          /\ runs' = [runs EXCEPT ![<<j, rows[j].claims + 1>>] =
                        [by |-> w, phase |-> "running", lease |-> t + LeaseMs]]
          /\ running' = [running EXCEPT ![w] = @ \cup {j}]
     ELSE UNCHANGED <<rows, runs, running>>
  /\ UNCHANGED <<ready, now, faults, strayed, failures, usurped>>

\* A statement of the claim rejects: the loop ends and the id it had taken is
\* in no ready set; the UPDATE may have leased the row all the same.
ClaimRejects(w) ==
  LET j == loop[w].job
      t == loop[w].now IN
  /\ loop[w] # Idle
  /\ Fault
  /\ Stray({j})
  /\ loop' = [loop EXCEPT ![w] = Idle]
  /\ \/ UNCHANGED rows
     \/ /\ loop[w].at = "update"
        /\ StillClaimable(j, t)
        /\ rows[j].claims < MaxClaims
        /\ SetRow(j, Leased(j, w, t))
  /\ UNCHANGED <<ready, runs, running, now, failures, usurped>>

-----------------------------------------------------------------------------
(* #runOne: the function, then ack or fail.                                 *)

RunEnds(r) ==
  /\ runs[r].phase = "running"
  /\ \/ SetPhase(r, "acking") /\ UNCHANGED failures
     \/ SetPhase(r, "failing") /\ failures' = [failures EXCEPT ![r[1]] = @ + 1]
  /\ UNCHANGED <<rows, ready, loop, running, now, faults, strayed, usurped>>

\* Wrong: any leased row will do, whoever holds it.
HeldByAnyone(r) == rows[r[1]].status = "leased"

\* ack and fail look for a leased row of this owner.
Held(r) == rows[r[1]].status = "leased" /\ rows[r[1]].owner = runs[r].by

AckRow(r) ==
  IF Held(r) THEN SetRow(r[1], [rows[r[1]] EXCEPT !.status = "done"])
  ELSE UNCHANGED rows

Ack(r) ==
  /\ runs[r].phase = "acking"
  /\ AckRow(r)
  /\ EndRun(r)
  /\ UNCHANGED <<ready, loop, now, faults, strayed, failures, usurped>>

\* An ack that rejects, executed or not, is caught and reported as a failure
\* of the run.
AckRejects(r) ==
  /\ runs[r].phase = "acking"
  /\ Fault
  /\ AckRow(r) \/ UNCHANGED rows
  /\ SetPhase(r, "failing")
  /\ failures' = [failures EXCEPT ![r[1]] = @ + 1]
  /\ UNCHANGED <<ready, loop, running, now, strayed, usurped>>

\* lease_owner names the dispatcher, not the claim: a run whose lease lapsed
\* reports under the lease its dispatcher took later.
Usurps(r) ==
  /\ rows[r[1]].status = "leased" /\ rows[r[1]].owner = runs[r].by
  /\ rows[r[1]].claims # r[2]

\* Wrong: one attempt too many.
SpentLate(j) == rows[j].retryCount >= RetryMax[j]

\* The CASE of the UPDATE.
Spent(j) == rows[j].retryCount + 1 >= RetryMax[j]

FailRow(r) ==
  LET row == rows[r[1]] IN
  IF ~Held(r) THEN UNCHANGED rows
  ELSE SetRow(r[1], [row EXCEPT
         !.status = IF Spent(r[1]) THEN "failed" ELSE "queued",
         !.retryCount = @ + 1, !.owner = NoOne, !.expires = 0])

Fail(r) ==
  /\ runs[r].phase = "failing"
  /\ FailRow(r)
  /\ usurped' = IF Usurps(r) THEN usurped \cup {r[1]} ELSE usurped
  /\ SetPhase(r, "asking")
  /\ UNCHANGED <<ready, loop, running, now, faults, strayed, failures>>


\* The status read after the UPDATE is the row's, whoever put it there: a job
\* found queued is taken for one to retry.
FailAnswers(r) ==
  /\ runs[r].phase = "asking"
  /\ ready' = IF rows[r[1]].status = "queued"
              THEN [ready EXCEPT ![runs[r].by] = @ \cup {r[1]}] ELSE ready
  /\ EndRun(r)
  /\ UNCHANGED <<rows, loop, now, faults, strayed, failures, usurped>>

\* fail rejects: nobody catches it, and the slot is free again.
FailRejects(r) ==
  /\ runs[r].phase \in {"failing", "asking"}
  /\ Fault
  /\ \/ UNCHANGED <<rows, usurped>>
     \/ /\ runs[r].phase = "failing"
        /\ FailRow(r)
        /\ usurped' = IF Usurps(r) THEN usurped \cup {r[1]} ELSE usurped
  /\ EndRun(r)
  /\ Stray({r[1]})
  /\ UNCHANGED <<ready, loop, now, failures>>

-----------------------------------------------------------------------------
(* The rest of the interface.                                               *)

\* cancel leaves the lease columns as they are.
Cancel(j) ==
  /\ rows[j].status \in {"queued", "leased"}
  /\ SetRow(j, [rows[j] EXCEPT !.status = "cancelled"])
  /\ UNCHANGED <<ready, loop, runs, running, now, faults, strayed, failures, usurped>>

\* sweepExpired, at some time after the result's expiry.
Sweep(j) ==
  /\ rows[j].status = "done"
  /\ SetRow(j, [NoRow EXCEPT !.claims = rows[j].claims])
  /\ UNCHANGED <<ready, loop, runs, running, now, faults, strayed, failures, usurped>>

Lapsed(j) == rows[j].status = "leased" /\ rows[j].expires < now

Returned(j) == [rows[j] EXCEPT !.status = "queued", !.owner = NoOne, !.expires = 0]

\* reclaimExpiredLeases tells no dispatcher: what it queues is in no ready set
\* before a rebuild.
Reclaim ==
  /\ \E j \in Jobs : Lapsed(j)
  /\ rows' = [j \in Jobs |-> IF Lapsed(j) THEN Returned(j) ELSE rows[j]]
  /\ Stray({j \in Jobs : Lapsed(j)})
  /\ UNCHANGED <<ready, loop, runs, running, now, faults, failures, usurped>>

\* rebuildFromStorage, as one step: what is pushed while it awaits its peek
\* stays in the ready set, and a queued row is read.
Rebuild(w) ==
  LET queued == {j \in Jobs : rows[j].status = "queued"} IN
  /\ ready[w] # queued
  /\ ready' = [ready EXCEPT ![w] = queued]
  /\ UNCHANGED <<rows, loop, runs, running, now, faults, strayed, failures, usurped>>

Tick ==
  /\ now < MaxTime
  /\ now' = now + 1
  /\ UNCHANGED <<rows, ready, loop, runs, running, faults, strayed, failures, usurped>>

\* A dispatcher loses its memory: the ready set, the claim under way, the runs.
Crash(w) ==
  /\ Fault
  /\ ready' = [ready EXCEPT ![w] = {}]
  /\ loop' = [loop EXCEPT ![w] = Idle]
  /\ runs' = [r \in Runs |-> IF runs[r].by = w THEN NoRun ELSE runs[r]]
  /\ running' = [running EXCEPT ![w] = {}]
  /\ Stray(KeptBy(w))
  /\ UNCHANGED <<rows, now, failures, usurped>>

Step(w) ==
  \/ \E j \in Jobs : Take(w, j)
  \/ ClaimSelects(w) \/ ClaimUpdates(w)

RunStep(r) == RunEnds(r) \/ Ack(r) \/ Fail(r) \/ FailAnswers(r)

Next ==
  \/ \E w \in Workers : \/ \E j \in Jobs : Enqueue(w, j)
                        \/ Step(w) \/ ClaimRejects(w) \/ Rebuild(w) \/ Crash(w)
  \/ \E r \in Runs : RunStep(r) \/ AckRejects(r) \/ FailRejects(r)
  \/ \E j \in Jobs : Cancel(j) \/ Sweep(j)
  \/ Reclaim
  \/ Tick

Spec == Init /\ [][Next]_vars

\* Fairness: dispatchers that live go on and functions return.  Nobody has to
\* reclaim or rebuild, and time may stop.
FairSpec ==
  /\ Spec
  /\ \A w \in Workers : WF_vars(Step(w))
  /\ \A r \in Runs : WF_vars(RunStep(r))

-----------------------------------------------------------------------------
(* Properties.                                                              *)

Active(j) == rows[j].status \in {"queued", "leased"}

\* Every variable has its type.  Code: the columns of cfp_jobs.
TypeOK ==
  /\ rows \in [Jobs -> [status: Statuses, retryCount: Nat, owner: Workers \cup {NoOne},
                        expires: Nat, claims: 0 .. MaxClaims]]
  /\ ready \in [Workers -> SUBSET Jobs]
  /\ loop \in [Workers -> [job: Jobs \cup {NoJob}, at: {"idle", "select", "update"}, now: Nat]]
  /\ runs \in [Runs -> [by: Workers \cup {NoOne}, phase: Phases, lease: Nat]]
  /\ running \in [Workers -> SUBSET Jobs]
  /\ now \in Nat /\ faults \in Nat /\ strayed \subseteq Jobs
  /\ failures \in [Jobs -> Nat] /\ usurped \subseteq Jobs

\* Two functions of one job run under leases that have not lapsed only after a
\* dispatcher's older run of the job gave the newer lease away.  Code: the CAS
\* of claim, between whose statements any other dispatcher's statements fall.
Live(r) == runs[r].phase = "running" /\ runs[r].lease >= now
LiveLeasesAreExclusive ==
  \A r, s \in Runs : Live(r) /\ Live(s) /\ r[1] = s[1] /\ r # s => r[1] \in usurped

\* retry_count never exceeds the failures that runs have seen, so no failure is
\* charged twice, and a job whose attempts are spent is never run again.  Code:
\* fail, with acks and fails that reject after they took effect.  A max of 0
\* allows one attempt, as a max of 1 does.
RetriesAreCharged ==
  \A j \in Jobs : /\ rows[j].retryCount <= failures[j]
                  /\ Active(j) /\ rows[j].retryCount > 0
                       => rows[j].retryCount < RetryMax[j]

\* The table of every dispatcher is the row life that JobLifecycle promises.
\* Code: the statements of D1JobStore, however they interleave.
Lifecycle == INSTANCE JobLifecycle WITH
  status <- [j \in Jobs |-> rows[j].status],
  attempts <- [j \in Jobs |-> rows[j].retryCount]
ImplementsLifecycle == Lifecycle!LifeSpec

\* An enqueued job reaches an end, unless it was lost: a statement of its own
\* rejected, its dispatcher crashed, or its lease was given back, and no memory
\* keeps it since.  Neither a race for the row, a lapsed lease, a rejected ack
\* nor a failed attempt loses one.  Code: the loop that drops what it cannot
\* claim, fail's answer and the retry it pushes, with nobody who recovers.
Unattended(j) == \A r \in Runs : r[1] = j => runs[r].phase = "none"
OutOfBounds(j) == rows[j].claims = MaxClaims /\ Unattended(j)
Lost(j) == j \in strayed /\ \A w \in Workers : j \notin KeptBy(w)
=============================================================================
