--------------------------- MODULE SchedulerClient ---------------------------
(***************************************************************************)
(* The caller's side of the scheduler, api/scheduler.ts: job handles whose *)
(* result() polls the scheduler object, cancel(), and drain().  The object *)
(* is what JobLifecycle promises of it: module Scheduler is shown to       *)
(* implement that.  A poll is three steps: the call, the row the object    *)
(* reads, and the answer's arrival; the row may move on in between.        *)
(*                                                                         *)
(* The options hold limits for the object.  One configure request, shared  *)
(* by all calls, brings them there before the first of these goes on.      *)
(***************************************************************************)
EXTENDS JobLifecycle, Integers, FiniteSets

CONSTANTS
  KeyOf,    \* idempotencyKey of a job, or NoKey
  NoKey

ASSUME SchedulerClientAssumption == RetryMax \in [Jobs -> Nat]

VARIABLES
  flight,     \* #initialConfigFlight: "none", "sent", "set" or "rejected"
  config,     \* the object's limits: "defaults", "ours", or "lost" once it had ours
  enqueuer,   \* the enqueue() call of each job
  expired,    \* done jobs whose result_expires_ms has passed
  overdue,    \* jobs whose giveUpAfter has passed, at the caller
  handle,     \* the jobs a handle was returned for
  reader,     \* the result() call of each job
  answer,     \* the answer on its way to that call
  drainer,    \* the drain() call
  completed,  \* history: jobs that were ever done
  repeats     \* history: enqueued jobs whose key was taken; their ids name no row

caller == <<handle, reader, answer, drainer, overdue>>
setup == <<flight, config, enqueuer>>
history == <<completed, repeats>>
clientVars == <<lifeVars, expired, caller, setup, history>>

Returned == {"value", "cancelled", "error", "ResultExpiredError", "rejected"}
ReaderState == {"idle", "top", "asking", "answered", "sleeping"} \cup Returned
Answer == {"none", "pending", "done", "cancelled", "failed", "expired"}

ClientInit ==
  /\ LifeInit
  /\ flight = "none"
  /\ config = "defaults"
  /\ enqueuer = [j \in Jobs |-> "idle"]
  /\ expired = {}
  /\ overdue = {}
  /\ handle = {}
  /\ reader = [j \in Jobs |-> "idle"]
  /\ answer = [j \in Jobs |-> "none"]
  /\ drainer = "idle"
  /\ completed = {}
  /\ repeats = {}

-----------------------------------------------------------------------------
(* The object, and what it answers.                                         *)

LifeStep ==
  /\ \/ \E j \in Jobs : Lease(j) \/ Retry(j) \/ GiveUp(j) \/ Expire(j)
     \/ \E S \in SUBSET Jobs : Release(S)
  /\ UNCHANGED <<expired, caller, setup, history>>

Done(j) ==
  /\ Complete(j)
  /\ completed' = completed \cup {j}
  /\ UNCHANGED <<expired, caller, setup, repeats>>

TtlPasses(j) ==
  /\ status[j] = "done"
  /\ j \notin expired
  /\ expired' = expired \cup {j}
  /\ UNCHANGED <<lifeVars, caller, setup, history>>

\* configure() changes #configOverrides and the dispatcher: an object that
\* starts again has the defaults.
Restart ==
  /\ config = "ours"
  /\ config' = "lost"
  /\ UNCHANGED <<lifeVars, expired, caller, flight, enqueuer, history>>

Sweep ==
  /\ \E S \in SUBSET expired : Forget(S)
  /\ UNCHANGED <<expired, caller, setup, history>>

\* Wrong: reports a done row as a failure.
ReadDoneAny(j) ==
  CASE status[j] = "done" -> "failed"
    [] status[j] \in {"absent", "failed"} -> "failed"
    [] status[j] = "cancelled" -> "cancelled"
    [] status[j] \in {"queued", "leased"} -> "pending"

\* DoStorageJobStore.result: no row is reported as a failure.
Read(j) ==
  CASE status[j] = "done" -> IF j \in expired THEN "expired" ELSE "done"
    [] status[j] \in {"absent", "failed"} -> "failed"
    [] status[j] = "cancelled" -> "cancelled"
    [] status[j] \in {"queued", "leased"} -> "pending"

Count(st) == Cardinality({j \in Jobs : status[j] = st})

\* CfpSchedulerDO.stats counts the leased rows under the name `running`.  The
\* counts of ended jobs are left out.
Stats == [queued |-> Count("queued"), running |-> Count("leased")]

-----------------------------------------------------------------------------
(* Scheduler.#ensureInitialConfig and enqueue.                              *)

\* The first call sends the configure request; everybody awaits it.
SharedFlight == flight' = IF flight = "none" THEN "sent" ELSE flight

\* The request is executed and answered, or fails, executed or not.
ConfigureArrives ==
  /\ flight = "sent"
  /\ \/ config' = "ours" /\ flight' \in {"set", "rejected"}
     \/ flight' = "rejected" /\ UNCHANGED config
  /\ UNCHANGED <<lifeVars, expired, caller, enqueuer, history>>

\* Wrong: a flight under way is not awaited.
FlightStarted == flight # "none"

\* The awaited promise has settled; a rejection stays for all later calls.
FlightSettled == flight \in {"set", "rejected"}

\* Where a call stands when the flight has let it go on, or rejected.
AfterFlight(next) == IF flight = "rejected" THEN "failed" ELSE next

Enqueuer(j, state) == enqueuer' = [enqueuer EXCEPT ![j] = state]

EnqueueCalled(j) ==
  /\ enqueuer[j] = "idle"
  /\ Enqueuer(j, "waiting")
  /\ SharedFlight
  /\ UNCHANGED <<lifeVars, expired, caller, config, history>>

EnqueueSends(j) ==
  /\ enqueuer[j] = "waiting"
  /\ FlightSettled
  /\ Enqueuer(j, AfterFlight("sent"))
  /\ UNCHANGED <<lifeVars, expired, caller, flight, config, history>>

\* The other jobs under the key of j.
Matching(j) == {k \in Jobs \ {j} : KeyOf[j] # NoKey /\ KeyOf[k] = KeyOf[j]}

\* Wrong: a job that has ended frees its key.
KeyTakenWhileActive(j) == \E k \in Matching(j) : status[k] \in {"queued", "leased"}

\* UNIQUE(idempotency_key): only a row that was swept frees its key.
KeyTaken(j) == \E k \in Matching(j) : status[k] # "absent"

\* A repeat is answered like any other: the collision is swallowed.
Accept(j) ==
  \/ KeyTaken(j) /\ repeats' = repeats \cup {j} /\ UNCHANGED lifeVars
  \/ ~KeyTaken(j) /\ Submit(j) /\ UNCHANGED repeats

\* The object takes the job and answers, or the call fails: the queue was full,
\* the request was lost, or only its answer was.
Enqueue(j) ==
  /\ enqueuer[j] = "sent"
  /\ \/ Accept(j) /\ Enqueuer(j, "returned") /\ handle' = handle \cup {j}
     \/ Accept(j) /\ Enqueuer(j, "failed") /\ UNCHANGED handle
     \/ Enqueuer(j, "failed") /\ UNCHANGED <<lifeVars, repeats, handle>>
  /\ UNCHANGED <<expired, reader, answer, drainer, overdue, flight, config, completed>>

-----------------------------------------------------------------------------
(* JobHandle.cancel, JobHandle.result.                                      *)

CancelHandle(j) ==
  /\ j \in handle
  /\ CancelOne(j)
  /\ UNCHANGED <<expired, caller, setup, history>>

\* Some time after the deadline and the retention of the result.
GiveUpPasses(j) ==
  /\ reader[j] # "idle"
  /\ overdue' = overdue \cup {j}
  /\ UNCHANGED <<lifeVars, expired, handle, reader, answer, drainer, setup, history>>

Reader(j, state) == reader' = [reader EXCEPT ![j] = state]

ResultCalled(j) ==
  /\ j \in handle
  /\ reader[j] = "idle"
  /\ Reader(j, "top")
  /\ UNCHANGED <<lifeVars, expired, handle, answer, drainer, overdue, setup, history>>

\* Wrong: asks for ever.
AskAlways(j) ==
  /\ reader[j] \in {"top", "sleeping"}
  /\ Reader(j, "asking")
  /\ UNCHANGED <<lifeVars, expired, handle, answer, drainer, overdue, setup, history>>

\* The top of the polling loop, first and after every sleep.
Ask(j) ==
  /\ reader[j] \in {"top", "sleeping"}
  /\ Reader(j, IF j \in overdue THEN "ResultExpiredError" ELSE "asking")
  /\ UNCHANGED <<lifeVars, expired, handle, answer, drainer, overdue, setup, history>>

Answered(j) ==
  /\ reader[j] = "asking"
  /\ answer' = [answer EXCEPT ![j] = Read(j)]
  /\ Reader(j, "answered")
  /\ UNCHANGED <<lifeVars, expired, handle, drainer, overdue, setup, history>>

\* The switch of the polling loop.
Outcome(word) ==
  CASE word = "done" -> "value"
    [] word = "cancelled" -> "cancelled"
    [] word = "failed" -> "error"
    [] word = "expired" -> "ResultExpiredError"
    [] word = "pending" -> "sleeping"

\* The answer arrives, or the call rejects and with it result().
Receive(j) ==
  /\ reader[j] = "answered"
  /\ \/ Reader(j, Outcome(answer[j]))
     \/ Reader(j, "rejected")
  /\ answer' = [answer EXCEPT ![j] = "none"]
  /\ UNCHANGED <<lifeVars, expired, handle, drainer, overdue, setup, history>>

-----------------------------------------------------------------------------
(* Scheduler.drain.                                                         *)

DrainCalled ==
  /\ drainer = "idle"
  /\ drainer' = "waiting"
  /\ SharedFlight
  /\ UNCHANGED <<lifeVars, expired, handle, reader, answer, overdue, config,
                 enqueuer, history>>

DrainSends ==
  /\ drainer = "waiting"
  /\ FlightSettled
  /\ drainer' = AfterFlight("asking")
  /\ UNCHANGED <<lifeVars, expired, handle, reader, answer, overdue, setup, history>>

\* s.<field> === 0.  A field the record does not have is undefined, not 0.
IsZero(s, field) == field \in DOMAIN s /\ s[field] = 0

\* The stats, and what the loop does with them when they arrive; or the call
\* rejects.
DrainAnswered ==
  /\ drainer = "asking"
  /\ \/ drainer' = IF IsZero(Stats, "queued") /\ IsZero(Stats, "leased")
                   THEN "returned" ELSE "sleeping"
     \/ drainer' = "failed"
  /\ UNCHANGED <<lifeVars, expired, handle, reader, answer, overdue, setup, history>>

DrainWakes ==
  /\ drainer = "sleeping"
  /\ drainer' = "asking"
  /\ UNCHANGED <<lifeVars, expired, handle, reader, answer, overdue, setup, history>>

-----------------------------------------------------------------------------

ObjectStep == LifeStep \/ Sweep \/ Restart \/ \E j \in Jobs : Done(j) \/ TtlPasses(j)

EnqueueStep(j) == EnqueueSends(j) \/ Enqueue(j)

ResultStep(j) == Ask(j) \/ Answered(j) \/ Receive(j)

DrainStep == DrainSends \/ DrainAnswered \/ DrainWakes

CallerStep ==
  \/ \E j \in Jobs : EnqueueCalled(j) \/ EnqueueStep(j) \/ CancelHandle(j)
                       \/ GiveUpPasses(j) \/ ResultCalled(j) \/ ResultStep(j)
  \/ ConfigureArrives \/ DrainCalled \/ DrainStep

ClientNext == ObjectStep \/ CallerStep

ClientSpec == ClientInit /\ [][ClientNext]_clientVars

\* Calls are answered, sleeps end and the clock reaches giveUpAfter.  Nothing
\* is assumed of the scheduler: the jobs may never run.
ClientFairSpec ==
  /\ ClientSpec
  /\ WF_clientVars(ConfigureArrives) /\ WF_clientVars(DrainStep)
  /\ \A j \in Jobs : /\ WF_clientVars(EnqueueStep(j)) /\ WF_clientVars(ResultStep(j))
                     /\ WF_clientVars(GiveUpPasses(j))

-----------------------------------------------------------------------------
(* Properties.                                                              *)

\* Shapes of the state.
ClientTypeOK ==
  /\ status \in [Jobs -> {"absent", "queued", "leased", "done", "failed", "cancelled"}]
  /\ attempts \in [Jobs -> Nat]
  /\ expired \subseteq Jobs /\ overdue \subseteq Jobs
  /\ handle \subseteq Jobs /\ completed \subseteq Jobs /\ repeats \subseteq Jobs
  /\ reader \in [Jobs -> ReaderState]
  /\ answer \in [Jobs -> Answer]
  /\ flight \in {"none", "sent", "set", "rejected"}
  /\ config \in {"defaults", "ours", "lost"}
  /\ enqueuer \in [Jobs -> {"idle", "waiting", "sent", "returned", "failed"}]
  /\ drainer \in {"idle", "waiting", "failed", "asking", "sleeping", "returned"}

\* api/scheduler.ts 151-215 with scheduler-do.ts 171: no call shares a flight
\* that has not landed or has failed, so jobs come only to an object that has
\* been given the limits of the options.  It keeps them until it restarts.
JobsSeeConfig ==
  \A j \in Jobs : enqueuer[j] = "sent" \/ status[j] # "absent" => config # "defaults"

Gone(j) == status[j] = "absent" /\ j \in expired

\* do-storage.ts 138-144: one row at a time is under a key, and a call that
\* inserted none came after one that did.
KeysDeduplicate ==
  /\ \A j \in Jobs : \A k \in Matching(j) : "absent" \in {status[j], status[k]}
  /\ \A j \in repeats : /\ status[j] = "absent"
                        /\ \E k \in Matching(j) : status[k] # "absent" \/ Gone(k)

\* api/scheduler.ts 223-251 with do-storage.ts 138-144 and 300-333: what a call
\* reports is so.  A handle is of a job the object accepted under the caller's
\* limits, or of a repeat.  Of an accepted job result() tells what became of it,
\* however long the answer travelled and whatever the sweep did meanwhile: it is
\* reported as failed only when it failed or its result had expired.  Of a
\* repeat it tells "failed" whatever became of the job under the key.
ResultIsTrue ==
  /\ ClientTypeOK
  /\ JobsSeeConfig
  /\ KeysDeduplicate
  /\ \A j \in handle : status[j] # "absent" \/ Gone(j) \/ j \in repeats
  /\ \A j \in Jobs :
       /\ reader[j] = "value" => j \in completed
       /\ reader[j] = "cancelled" => status[j] = "cancelled"
       /\ reader[j] = "error" => status[j] = "failed" \/ j \in expired \cup repeats

\* api/scheduler.ts 151-163 and 225-227: enqueue() settles although configure
\* fails, and result() although the scheduler never runs the job.
ResultSettles ==
  \A j \in Jobs :
    /\ enqueuer[j] # "idle" ~> enqueuer[j] \in {"returned", "failed"}
    /\ reader[j] # "idle" ~> reader[j] \in Returned

-----------------------------------------------------------------------------
(* A statement of the documentation that the code does not keep.             *)

Quiet == \A j \in Jobs : status[j] \notin {"queued", "leased"}

\* api/scheduler.ts 284-285, of drain: "Long-poll until the SchedulerDO
\* reports `queued === 0` and `leased === 0`."  Once no job is queued or
\* leased any more, it returns.
DrainReturns == <>[]Quiet => (drainer # "idle" ~> drainer \in {"returned", "failed"})
=============================================================================
