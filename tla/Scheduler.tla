------------------------------ MODULE Scheduler ------------------------------
(***************************************************************************)
(* The durable job scheduler: CfpSchedulerDO (scheduler/scheduler-do.ts),  *)
(* the reactive Dispatcher inside it (scheduler/dispatcher.ts) and the job *)
(* table under it (module JobStore).                                       *)
(*                                                                         *)
(* The object is one JavaScript thread; what interleaves is the code       *)
(* between two awaits.  A call of the JobStore takes effect in the step    *)
(* that makes it and its answer is used in a later step, so every await on *)
(* the store is a point where the other handlers may run.  Kicking the     *)
(* loop runs its next iteration at once, up to the await: while the loop   *)
(* is "top" nothing else moves.                                            *)
(*                                                                         *)
(* `rows` and `alarmAt` are durable.  Everything else is memory: Restart,  *)
(* an eviction or crash of the object, loses it.                           *)
(***************************************************************************)
EXTENDS JobStore, ReadyQueue, FiniteSets

CONSTANTS
  InFlightLimit,          \* DispatcherConfig.inFlightLimit
  FairCapacityPerTenant,  \* DispatcherConfig.fairCapacityPerTenant
  MaxQueueDepth,          \* DispatcherConfig.maxQueueDepth
  RetryDelayMs,           \* the backoff before a retry
  AlarmSweepMs,           \* alarm cadence while there is work
  IdleAlarmMs,            \* alarm cadence otherwise
  NoAlarm,                \* no alarm is set
  NoJob,
  MaxTime,                \* bound: the clock stops here
  MaxRestarts,            \* bound: restarts of the object
  MaxTenantCancels        \* bound: calls of cancelByTenant

ASSUME SchedulerAssumption ==
  /\ IsFiniteSet(Jobs) /\ IsFiniteSet(Tenants)
  /\ InFlightLimit \in Nat /\ FairCapacityPerTenant \in Nat
  /\ RetryDelayMs \in Nat /\ AlarmSweepMs \in Nat /\ IdleAlarmMs \in Nat
  /\ MaxTime \in Nat /\ MaxRestarts \in Nat /\ MaxTenantCancels \in Nat
  /\ NoAlarm \notin Nat
  /\ NoJob \notin Jobs

VARIABLES
  rows,         \* the job table
  alarmAt,      \* the time the alarm is set for, or NoAlarm
  queue,        \* #ready and #tenantOrder
  running,      \* the keys of #running
  loop,         \* the dispatch loop: where it waits and for which job
  executions,   \* calls of #runOne that have not returned
  timers,       \* pending setTimeout calls of each job's retries
  initialized,  \* #initialized
  calls,        \* the enqueue call of each job
  boot,         \* the rows the rebuild of an enqueue call has read
  alarm,        \* the alarm handler
  dropping,     \* cancelled jobs whose ready entry is still to be dropped
  tenantCancel, \* the cancelByTenant call in progress
  now,          \* Date.now()
  restarts,     \* how often the object restarted
  tenantCancels,\* how often cancelByTenant was called
  lapsed        \* history: jobs a lease of which was taken back or over

memory == <<queue, running, loop, executions, timers, initialized, boot,
            alarm, dropping, tenantCancel>>
vars == <<rows, alarmAt, memory, calls, now, restarts, tenantCancels, lapsed>>

LoopIdle == [at |-> "idle", job |-> NoJob, claim |-> 0]
LoopTop  == [at |-> "top", job |-> NoJob, claim |-> 0]
AlarmOff == [at |-> "off", since |-> 0, found |-> {}]
NoTenantCancel == [on |-> FALSE, tenants |-> {}, left |-> {}]

Init ==
  /\ rows = [j \in Jobs |-> NoRow]
  /\ alarmAt = NoAlarm
  /\ queue = EmptyQueue
  /\ running = {}
  /\ loop = LoopIdle
  /\ executions = {}
  /\ timers = [j \in Jobs |-> 0]
  /\ initialized = FALSE
  /\ calls = [j \in Jobs |-> "none"]
  /\ boot = {}
  /\ alarm = AlarmOff
  /\ dropping = {}
  /\ tenantCancel = NoTenantCancel
  /\ now = 0
  /\ restarts = 0
  /\ tenantCancels = 0
  /\ lapsed = {}

-----------------------------------------------------------------------------
(* Shared pieces of the handlers.                                           *)

\* kick(): the loop is single-flight.
Kick == loop' = IF loop.at = "idle" THEN LoopTop ELSE loop

\* rebuildFromStorage up to its await: empty the ready set, read the rows.
StartRebuild == queue' = EmptyQueue

RunningOf(t) == JobsOf(running, t)

OpenAtCap == {t \in Tenants : Cardinality(RunningOf(t)) <= FairCapacityPerTenant}

Open == {t \in Tenants : Cardinality(RunningOf(t)) < FairCapacityPerTenant}

HasSlot == Cardinality(running) < InFlightLimit

-----------------------------------------------------------------------------
(* SchedulerDO.enqueue, and Dispatcher.enqueue inside it.                   *)

\* The admission check and the INSERT, made in one go.
Admit(j, q) ==
  IF TotalReady(q) >= MaxQueueDepth
  THEN calls' = [calls EXCEPT ![j] = "rejected"] /\ UNCHANGED rows
  ELSE calls' = [calls EXCEPT ![j] = "stored"] /\ rows' = Insert(rows, j)

\* The object is initialized: #ensureInit returns at once.
Enqueue(j) ==
  /\ calls[j] = "none"
  /\ initialized
  /\ Admit(j, queue)
  /\ UNCHANGED <<alarmAt, memory, now, restarts, tenantCancels, lapsed>>

\* Wrong: marks the object initialized without reading the rows.
EnqueueInitBlind(j) ==
  /\ calls[j] = "none"
  /\ ~ initialized
  /\ initialized' = TRUE
  /\ calls' = [calls EXCEPT ![j] = "init"]
  /\ UNCHANGED <<rows, alarmAt, queue, running, loop, executions, timers, boot,
                 alarm, dropping, tenantCancel, now, restarts, tenantCancels,
                 lapsed>>

\* The first call after a start rebuilds the ready set before it goes on.
EnqueueInit(j) ==
  /\ calls[j] = "none"
  /\ ~ initialized
  /\ initialized' = TRUE
  /\ StartRebuild
  /\ boot' = Queued(rows)
  /\ calls' = [calls EXCEPT ![j] = "init"]
  /\ UNCHANGED <<rows, alarmAt, running, loop, executions, timers, alarm,
                 dropping, tenantCancel, now, restarts, tenantCancels, lapsed>>

EnqueueInitDone(j) ==
  /\ calls[j] = "init"
  /\ \E q \in PushAll(queue, boot) : queue' = q /\ Admit(j, q)
  /\ boot' = {}
  /\ UNCHANGED <<alarmAt, running, loop, executions, timers, initialized,
                 alarm, dropping, tenantCancel, now, restarts, tenantCancels,
                 lapsed>>

\* store.enqueue returned: mirror the job to the ready set, kick, answer.
EnqueueAccept(j) ==
  /\ calls[j] = "stored"
  /\ queue' = EnqueueReady(queue, j)
  /\ Kick
  /\ calls' = [calls EXCEPT ![j] = "accepted"]
  /\ UNCHANGED <<rows, alarmAt, running, executions, timers, initialized,
                 boot, alarm, dropping, tenantCancel, now, restarts,
                 tenantCancels, lapsed>>

-----------------------------------------------------------------------------
(* The dispatch loop.                                                       *)

\* Nothing ready, no free slot, or every ready tenant is at its cap.
LoopStop ==
  /\ loop.at = "top"
  /\ \/ ~ HasReady(queue)
     \/ ~ HasSlot
     \/ \A i \in DOMAIN queue.order : queue.order[i] \notin Open
  /\ loop' = LoopIdle
  /\ UNCHANGED <<rows, alarmAt, queue, running, executions, timers,
                 initialized, calls, boot, alarm, dropping, tenantCancel, now,
                 restarts, tenantCancels, lapsed>>

PastDeadlineNever(j) == FALSE   \* wrong: leaves late jobs to the claim filter

PastDeadline(j) == Deadline[j] > 0 /\ now >= Deadline[j]

\* A job picked after its deadline is failed, any other one is claimed by id.
\* A claim that finds no row answers with nothing: loop.claim stays 0.
LoopTake ==
  /\ loop.at = "top"
  /\ HasReady(queue) /\ HasSlot
  /\ \E i \in DOMAIN queue.order :
       /\ IsNextSlot(queue, Open, i)
       /\ LET j == JobAt(queue, i)
              late == PastDeadline(j)
              won == ~ late /\ Claimable(rows, j, now)
          IN /\ queue' = TakeAt(queue, i)
             /\ loop' = [at |-> "waiting", job |-> j,
                         claim |-> IF won THEN rows[j].claims + 1 ELSE 0]
             /\ rows' = IF late THEN FailQueued(rows, j)
                        ELSE IF won THEN Claim(rows, j, now)
                        ELSE rows
             /\ lapsed' = IF won /\ LeaseExpired(rows[j], now) THEN lapsed \cup {j} ELSE lapsed
  /\ UNCHANGED <<alarmAt, running, executions, timers, initialized, calls,
                 boot, alarm, dropping, tenantCancel, now, restarts,
                 tenantCancels>>

\* The claim was empty, or failQueued returned: go around.
LoopSkip ==
  /\ loop.at = "waiting"
  /\ loop.claim = 0
  /\ loop' = LoopTop
  /\ UNCHANGED <<rows, alarmAt, queue, running, executions, timers,
                 initialized, calls, boot, alarm, dropping, tenantCancel, now,
                 restarts, tenantCancels, lapsed>>

\* The claim succeeded: note the job as running, start #runOne, go around.
LoopStart ==
  /\ loop.at = "waiting"
  /\ loop.claim # 0
  /\ running' = running \cup {loop.job}
  /\ executions' = executions \cup
       {[job |-> loop.job, claim |-> loop.claim, phase |-> "running"]}
  /\ loop' = LoopTop
  /\ UNCHANGED <<rows, alarmAt, queue, timers, initialized, calls, boot,
                 alarm, dropping, tenantCancel, now, restarts, tenantCancels,
                 lapsed>>

-----------------------------------------------------------------------------
(* #runOne: the user function settles, the outcome is written, and the      *)
(* bookkeeping after the write follows.                                     *)

Settle(e, phase) ==
  executions' = (executions \ {e}) \cup {[e EXCEPT !.phase = phase]}

\* The function returned: store.ack.
RunOk(e) ==
  /\ e.phase = "running"
  /\ rows' = Ack(rows, e.job, now)
  /\ Settle(e, "settled")
  /\ UNCHANGED <<alarmAt, queue, running, loop, timers, initialized, calls,
                 boot, alarm, dropping, tenantCancel, now, restarts,
                 tenantCancels, lapsed>>

\* The function threw: store.fail, whose answer 'queued' asks for a retry.
RunThrow(e) ==
  /\ e.phase = "running"
  /\ rows' = Fail(rows, e.job)
  /\ Settle(e, IF rows[e.job].status = "leased" /\ ~ AttemptsSpent(rows, e.job)
               THEN "retrying" ELSE "settled")
  /\ UNCHANGED <<alarmAt, queue, running, loop, timers, initialized, calls,
                 boot, alarm, dropping, tenantCancel, now, restarts,
                 tenantCancels, lapsed>>

\* #scheduleAlarmAt: only when no nearer alarm is pending.
EarlierAlarm(at) == IF alarmAt = NoAlarm \/ alarmAt > at THEN at ELSE alarmAt

\* Wrong: the backstop alarm without the timer, and no re-entry of the loop.
RunEndNoTimer(e) ==
  /\ e.phase # "running"
  /\ executions' = executions \ {e}
  /\ running' = running \ {e.job}
  /\ alarmAt' = IF e.phase = "retrying" THEN EarlierAlarm(now + RetryDelayMs)
                ELSE alarmAt
  /\ UNCHANGED <<rows, queue, loop, timers, initialized, calls, boot, alarm,
                 dropping, tenantCancel, now, restarts, tenantCancels, lapsed>>

\* A retry sets the backstop alarm and a timer; then the finally block frees
\* the slot and re-enters the loop if there is anything to pull.
RunEnd(e) ==
  /\ e.phase # "running"
  /\ executions' = executions \ {e}
  /\ running' = running \ {e.job}
  /\ IF e.phase = "retrying"
     THEN /\ timers' = [timers EXCEPT ![e.job] = @ + 1]
          /\ alarmAt' = EarlierAlarm(now + RetryDelayMs)
     ELSE UNCHANGED <<timers, alarmAt>>
  /\ IF HasReady(queue) /\ Cardinality(running') < InFlightLimit
     THEN Kick ELSE UNCHANGED loop
  /\ UNCHANGED <<rows, queue, initialized, calls, boot, alarm, dropping,
                 tenantCancel, now, restarts, tenantCancels, lapsed>>

\* reSchedule(), some time after RunEnd.  The delay itself is not modelled.
TimerFires(j) ==
  /\ timers[j] > 0
  /\ timers' = [timers EXCEPT ![j] = @ - 1]
  /\ queue' = EnqueueReady(queue, j)
  /\ Kick
  /\ UNCHANGED <<rows, alarmAt, running, executions, initialized, calls, boot,
                 alarm, dropping, tenantCancel, now, restarts, tenantCancels,
                 lapsed>>

-----------------------------------------------------------------------------
(* SchedulerDO.cancel and SchedulerDO.cancelByTenant.                       *)

CancelJob(j) ==
  /\ Active(rows, j)
  /\ rows' = Cancel(rows, j)
  /\ dropping' = dropping \cup {j}
  /\ UNCHANGED <<alarmAt, queue, running, loop, executions, timers,
                 initialized, calls, boot, alarm, tenantCancel, now, restarts,
                 tenantCancels, lapsed>>

CancelDrop(j) ==
  /\ j \in dropping
  /\ queue' = DropFromReady(queue, j)
  /\ dropping' = dropping \ {j}
  /\ UNCHANGED <<rows, alarmAt, running, loop, executions, timers,
                 initialized, calls, boot, alarm, tenantCancel, now, restarts,
                 tenantCancels, lapsed>>

\* listActiveByTenant.
TenantCancelList(t) ==
  /\ ~ tenantCancel.on
  /\ tenantCancels < MaxTenantCancels
  /\ tenantCancels' = tenantCancels + 1
  /\ tenantCancel' = [on |-> TRUE, tenants |-> {t},
                      left |-> {j \in JobsOf(Jobs, t) : Active(rows, j)}]
  /\ UNCHANGED <<rows, alarmAt, queue, running, loop, executions, timers,
                 initialized, calls, boot, alarm, dropping, now, restarts,
                 lapsed>>

\* One awaited store.cancel per listed job.
TenantCancelOne(j) ==
  /\ j \in tenantCancel.left
  /\ rows' = Cancel(rows, j)
  /\ tenantCancel' = [tenantCancel EXCEPT !.left = @ \ {j}]
  /\ UNCHANGED <<alarmAt, queue, running, loop, executions, timers,
                 initialized, calls, boot, alarm, dropping, now, restarts,
                 tenantCancels, lapsed>>

\* clearTenant.
TenantCancelClear(t) ==
  /\ t \in tenantCancel.tenants
  /\ tenantCancel.left = {}
  /\ queue' = RemoveTenant(queue, t)
  /\ tenantCancel' = NoTenantCancel
  /\ UNCHANGED <<rows, alarmAt, running, loop, executions, timers,
                 initialized, calls, boot, alarm, dropping, now, restarts,
                 tenantCancels, lapsed>>

-----------------------------------------------------------------------------
(* SchedulerDO.alarm.                                                       *)

AlarmGoes(at) == alarm' = [alarm EXCEPT !.at = at]

\* The runtime clears the alarm and calls the handler: #ensureInit.
AlarmFires ==
  /\ alarm.at = "off"
  /\ alarmAt # NoAlarm /\ alarmAt <= now
  /\ alarmAt' = NoAlarm
  /\ initialized' = TRUE
  /\ IF initialized
     THEN AlarmGoes("reclaim") /\ UNCHANGED queue
     ELSE /\ StartRebuild
          /\ alarm' = [alarm EXCEPT !.at = "initPush", !.found = Queued(rows)]
  /\ UNCHANGED <<rows, running, loop, executions, timers, calls, boot,
                 dropping, tenantCancel, now, restarts, tenantCancels, lapsed>>

\* The rest of a rebuild: push the rows that were read.
AlarmPush(from, to) ==
  /\ alarm.at = from
  /\ queue' \in PushAll(queue, alarm.found)
  /\ alarm' = [alarm EXCEPT !.at = to, !.found = {}]
  /\ UNCHANGED <<rows, alarmAt, running, loop, executions, timers,
                 initialized, calls, boot, dropping, tenantCancel, now,
                 restarts, tenantCancels, lapsed>>

\* Step 1: reclaim the expired leases.
AlarmReclaim ==
  /\ alarm.at = "reclaim"
  /\ rows' = ReclaimExpiredLeases(rows, now)
  /\ alarm' = [alarm EXCEPT !.since = now,
                            !.at = IF ExpiredLeases(rows, now) # {}
                                   THEN "rebuild" ELSE "sweep"]
  /\ lapsed' = lapsed \cup ExpiredLeases(rows, now)
  /\ UNCHANGED <<alarmAt, queue, running, loop, executions, timers,
                 initialized, calls, boot, dropping, tenantCancel, now,
                 restarts, tenantCancels>>

AlarmRebuild ==
  /\ alarm.at = "rebuild"
  /\ StartRebuild
  /\ alarm' = [alarm EXCEPT !.at = "push", !.found = Queued(rows)]
  /\ UNCHANGED <<rows, alarmAt, running, loop, executions, timers,
                 initialized, calls, boot, dropping, tenantCancel, now,
                 restarts, tenantCancels, lapsed>>

\* Step 2: delete the done rows whose result outlived its TTL.
AlarmSweep ==
  /\ alarm.at = "sweep"
  /\ rows' = SweepExpired(rows, alarm.since)
  /\ AlarmGoes("backstop")
  /\ UNCHANGED <<alarmAt, queue, running, loop, executions, timers,
                 initialized, calls, boot, dropping, tenantCancel, now,
                 restarts, tenantCancels, lapsed>>

\* Step 3: unless saturated, rebuild the ready set.
AlarmBackstop ==
  /\ alarm.at = "backstop"
  /\ IF TotalReady(queue) + Cardinality(running) >= InFlightLimit
     THEN AlarmGoes("finish") /\ UNCHANGED queue
     ELSE /\ StartRebuild
          /\ alarm' = [alarm EXCEPT !.at = "refill", !.found = Queued(rows)]
  /\ UNCHANGED <<rows, alarmAt, running, loop, executions, timers,
                 initialized, calls, boot, dropping, tenantCancel, now,
                 restarts, tenantCancels, lapsed>>

\* Step 4: kick the loop.
AlarmFinish ==
  /\ alarm.at = "finish"
  /\ Kick
  /\ AlarmGoes("arm")
  /\ UNCHANGED <<rows, alarmAt, queue, running, executions, timers, initialized,
                 calls, boot, dropping, tenantCancel, now, restarts,
                 tenantCancels, lapsed>>

\* Step 5: set the next alarm.  A job the kicked loop has just taken is neither
\* ready nor running.
AlarmArm ==
  /\ alarm.at = "arm"
  /\ alarmAt' = alarm.since + (IF HasReady(queue) \/ running # {}
                               THEN AlarmSweepMs ELSE IdleAlarmMs)
  /\ alarm' = AlarmOff
  /\ UNCHANGED <<rows, queue, running, loop, executions, timers, initialized,
                 calls, boot, dropping, tenantCancel, now, restarts,
                 tenantCancels, lapsed>>

-----------------------------------------------------------------------------
(* The environment.                                                         *)

Tick ==
  /\ now < MaxTime
  /\ now' = now + 1
  /\ UNCHANGED <<rows, alarmAt, memory, calls, restarts, tenantCancels, lapsed>>

\* Calls in flight are lost with the object, and the runtime runs an
\* interrupted alarm handler again.
Restart ==
  /\ restarts < MaxRestarts
  /\ restarts' = restarts + 1
  /\ queue' = EmptyQueue
  /\ running' = {}
  /\ loop' = LoopIdle
  /\ executions' = {}
  /\ timers' = [j \in Jobs |-> 0]
  /\ initialized' = FALSE
  /\ boot' = {}
  /\ alarm' = AlarmOff
  /\ dropping' = {}
  /\ tenantCancel' = NoTenantCancel
  /\ calls' = [j \in Jobs |-> IF calls[j] \in {"init", "stored"}
                              THEN "lost" ELSE calls[j]]
  /\ alarmAt' = IF alarm.at = "off" THEN alarmAt ELSE EarlierAlarm(now)
  /\ UNCHANGED <<rows, now, tenantCancels, lapsed>>

EnqueueCall(j) ==
  Enqueue(j) \/ EnqueueInit(j) \/ EnqueueInitDone(j) \/ EnqueueAccept(j)

LoopStep == LoopStop \/ LoopTake \/ LoopSkip \/ LoopStart

RunStep(e) == RunOk(e) \/ RunThrow(e) \/ RunEnd(e)

CancelCall ==
  \/ \E j \in Jobs : CancelJob(j) \/ CancelDrop(j) \/ TenantCancelOne(j)
  \/ \E t \in Tenants : TenantCancelList(t) \/ TenantCancelClear(t)

AlarmStep ==
  \/ AlarmFires \/ AlarmPush("initPush", "reclaim")
  \/ AlarmReclaim \/ AlarmRebuild \/ AlarmPush("push", "sweep")
  \/ AlarmSweep \/ AlarmBackstop \/ AlarmPush("refill", "finish")
  \/ AlarmFinish \/ AlarmArm

\* Code runs on to its next await: the loop once it is at its condition, and
\* the alarm handler after its kick.  Everything else waits.
LoopYields == loop.at # "top"
AlarmYields == alarm.at # "arm"

Next ==
  \/ LoopStep /\ (LoopYields => AlarmYields)
  \/ AlarmStep /\ LoopYields
  \/ /\ LoopYields /\ AlarmYields
     /\ \/ \E j \in Jobs : EnqueueCall(j) \/ TimerFires(j)
        \/ \E e \in executions : RunStep(e)
        \/ CancelCall
        \/ Tick
        \/ Restart

Spec == Init /\ [][Next]_vars
=============================================================================
