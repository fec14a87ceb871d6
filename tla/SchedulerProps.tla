--------------------------- MODULE SchedulerProps ---------------------------
(***************************************************************************)
(* The properties of the scheduler: what must hold of module Scheduler, and *)
(* the statements of the documentation that do not.                        *)
(***************************************************************************)
EXTENDS Scheduler

\* The places the dispatch loop can be suspended at.
LoopState == [at: {"idle", "top"}, job: {NoJob}, claim: {0}]
               \cup [at: {"waiting"}, job: Jobs, claim: Nat]

\* A call of #runOne: before store.ack or store.fail, or after it.
Execution == [job: Jobs, claim: Nat, phase: {"running", "settled", "retrying"}]

\* The places the alarm handler can be suspended at.
AlarmState == [at: {"off", "initPush", "reclaim", "rebuild", "push", "sweep",
                    "backstop", "refill", "finish", "arm"},
               since: Nat, found: SUBSET Jobs]

\* Shapes of the state.  The alarm handler's places, the loop's places and
\* the phases of an execution are those the code can be suspended at.
TypeOK ==
  /\ rows \in [Jobs -> Row]
  /\ alarmAt \in Nat \cup {NoAlarm}
  /\ queue \in Queue
  /\ running \in SUBSET Jobs
  /\ loop \in LoopState
  /\ executions \in SUBSET Execution
  /\ timers \in [Jobs -> Nat]
  /\ initialized \in BOOLEAN
  /\ calls \in [Jobs -> {"none", "init", "stored", "accepted", "rejected", "lost"}]
  /\ boot \in SUBSET Jobs
  /\ alarm \in AlarmState
  /\ dropping \in SUBSET Jobs
  /\ tenantCancel \in [on: BOOLEAN, tenants: SUBSET Tenants, left: SUBSET Jobs]
  /\ now \in Nat /\ restarts \in Nat /\ tenantCancels \in Nat
  /\ lapsed \in SUBSET Jobs

-----------------------------------------------------------------------------
(* The ready set and the limits.                                            *)

\* #ready and #tenantOrder agree (dispatcher.ts 84-86, maintained by
\* #enqueueReady, #removeTenant, dropFromReady, #takeNextReady and the
\* rebuild): every tenant with a ready job is in the order exactly once.
QueueWellFormed == WellFormed(queue)

\* inFlightLimit bounds the running set and fairCapacityPerTenant each
\* tenant's share of it, although the limits are checked before the await of
\* the claim and the set grows after it (dispatcher.ts 195-222).
LimitsRespected ==
  /\ Cardinality(running) <= InFlightLimit
  /\ \A t \in Tenants : Cardinality(RunningOf(t)) <= FairCapacityPerTenant

Position(order, t) == CHOOSE i \in DOMAIN order : order[i] = t

\* The step takes a job of tenant t (the loop goes to wait for its claim).
Takes(t) == loop.at = "top" /\ loop'.at = "waiting" /\ TenantOf[loop'.job] = t

\* Round-robin (dispatcher.ts 306-328): whenever one tenant is served, every
\* other tenant that has a job ready and room under its cap moves forward in
\* the order, so it is passed over at most once by each other tenant.
RotationIsFair ==
  [][\A t, u \in Tenants :
       (Takes(u) /\ t # u /\ t \in Open /\ queue.ready[t] # <<>>)
       => Position(queue'.order, t) < Position(queue.order, t)]_vars

-----------------------------------------------------------------------------
(* Storage is canonical: memory never loses a job.                          *)

\* Something in memory will look at the queued job j again, without waiting
\* for an alarm that is still to come.
Tracked(j) ==
  \/ InReady(queue, j)
  \/ timers[j] > 0
  \/ \E e \in executions : e.job = j /\ e.phase = "retrying"
  \/ calls[j] = "stored"
  \/ j \in boot \cup alarm.found
  \/ alarm.at = "rebuild"
  \/ ~ initialized

\* A queued row is never forgotten while the object lives: the ready set is
\* emptied and refilled across awaits by rebuilds while enqueues, timers,
\* cancels and the loop change it (dispatcher.ts 134-156, 191-235, 275-286).
NoQueuedJobForgotten ==
  \A j \in Jobs : rows[j].status = "queued" => Tracked(j)

\* A user function runs twice at a time only after one of its job's leases ran
\* out under a live execution: in every other case the claim by id makes the
\* duplicate ready entries of rebuilds harmless (dispatcher.ts 205-217).  Until
\* then the first attempt also keeps its slot; a later one may lose it to the
\* finally block of the attempt before, which frees the slot by the job's id
\* (dispatcher.ts 219-222, 288-300).
OneRunAtATime ==
  \A e \in executions :
    e.phase = "running" /\ e.job \notin lapsed =>
      /\ \A f \in executions : f.phase = "running" /\ f.job = e.job => f = e
      /\ e.claim = 1 => e.job \in running

\* The attempts of a job whose leases never ran out are bounded by retry.max
\* (do-storage.ts 237-252): each claim but the last was followed by a counted
\* failure.  The rule survives restarts: the columns it rests on are durable.
AttemptsBounded ==
  \A j \in Jobs :
    /\ rows[j].status = "queued" /\ rows[j].retryCount > 0
         => rows[j].retryCount < RetryMax[j]
    /\ j \notin lapsed /\ rows[j].claims > 1 => rows[j].claims <= RetryMax[j]

-----------------------------------------------------------------------------
(* The abstract life of a job.                                              *)

Life == INSTANCE JobLifecycle WITH
  status <- [j \in Jobs |-> rows[j].status],
  attempts <- [j \in Jobs |-> rows[j].retryCount]

\* The scheduler implements JobLifecycle: whatever rebuilds, stale
\* executions, cancels and sweeps do, a row moves only along its arrows, and
\* failed and cancelled are final.
ImplementsLifecycle == Life!LifeSpec

-----------------------------------------------------------------------------
(* Liveness.                                                                *)

\* The event loop runs every continuation whose promise has settled, a user
\* function returns or throws (its deadline bounds it), a timer fires and
\* the runtime delivers a due alarm.  Clients, the clock and restarts are
\* free to stop.
Fairness ==
  /\ \A j \in Jobs : /\ WF_vars(EnqueueInitDone(j)) /\ WF_vars(EnqueueAccept(j))
                     /\ WF_vars(TimerFires(j)) /\ WF_vars(CancelDrop(j))
                     /\ WF_vars(TenantCancelOne(j))
  /\ \A t \in Tenants : WF_vars(TenantCancelClear(t))
  /\ WF_vars(LoopStep)
  /\ \A j \in Jobs :
       /\ WF_vars(\E e \in executions : e.job = j /\ (RunOk(e) \/ RunThrow(e)))
       /\ WF_vars(\E e \in executions : e.job = j /\ RunEnd(e))
  /\ WF_vars(AlarmStep)

FairSpec == Spec /\ Fairness

Settled(j) == rows[j].status \in {"done", "failed", "cancelled"}

\* Every job the scheduler accepted is run to an outcome or cancelled, unless
\* its row never existed (an idempotency key already taken) or its result was
\* swept (DESIGN.md 182-190).  As long as the object does not restart: after
\* one, a leased row waits for an alarm that need not be set.
AcceptedJobSettles ==
  \A j \in Jobs :
    rows[j].status \in {"queued", "leased"}
      ~> (Settled(j) \/ rows[j].status = "absent" \/ restarts > 0)

=============================================================================
