----------------------------- MODULE LoaderPool -----------------------------
(***************************************************************************)
(* Dispatch to Worker Loader isolates from one V8 isolate, the path of     *)
(* LoaderOnlyPool.submit: the retry loop and the race against timeout,     *)
(* cancel and deadline (transport/rpc-client.ts) around LoaderRunner       *)
(* (loader/runner.ts), which holds a permit of the isolate's               *)
(* LoaderSemaphore (loader/loader-budget.ts) while a function runs.        *)
(*                                                                         *)
(* An attempt that loses its race is not stopped: its task goes on, and    *)
(* that is what the permits have to live with.  A race and the code that   *)
(* handles its outcome are one step; nothing the caller or the runtime can *)
(* do in between changes what that code does.                              *)
(***************************************************************************)
EXTENDS Integers, Sequences, FiniteSets

CONSTANTS
  Calls,      \* calls of submit, each made once
  Cap,        \* the cap of the semaphore
  Retries,    \* options.retries of each call
  Timed,      \* calls with a timeout
  Dated,      \* calls with a deadline
  Hanging     \* calls whose function never returns

ASSUME LoaderPoolAssumption ==
  /\ IsFiniteSet(Calls)
  /\ Cap \in Nat \ {0}
  /\ Retries \in [Calls -> Nat]
  /\ Timed \subseteq Calls /\ Dated \subseteq Calls /\ Hanging \subseteq Calls

VARIABLES
  inFlight,   \* #inFlight
  waiters,    \* #waiters
  task,       \* the task of every attempt of every call
  at,         \* where each call is
  attempt,    \* its attempt
  outcome,    \* what its promise settled with
  cancelled,  \* the calls whose token was cancelled
  late        \* the calls whose deadline has passed

semaphore == <<inFlight, waiters>>
call == <<at, attempt, outcome>>
vars == <<semaphore, task, call, cancelled, late>>

Tasks == UNION {{c} \X (0 .. Retries[c]) : c \in Calls}

\* granted: #acquire has resolved and the continuation that calls the loader
\* has not run.  ok, retryable, fatal: how the task ended.
Ended == {"ok", "retryable", "fatal"}
TaskState == {"none", "queued", "granted", "running"} \cup Ended

CallState == {"idle", "racing", "backoff", "done"}

Outcome == {"none", "value", "TimeoutError", "CancelledError",
            "ExecutionError", "RetryExhaustedError", "retryable"}

Holders == {t \in Tasks : task[t] \in {"granted", "running"}}

Init ==
  /\ inFlight = 0
  /\ waiters = <<>>
  /\ task = [t \in Tasks |-> "none"]
  /\ at = [c \in Calls |-> "idle"]
  /\ attempt = [c \in Calls |-> 0]
  /\ outcome = [c \in Calls |-> "none"]
  /\ cancelled = {}
  /\ late = {}

-----------------------------------------------------------------------------
(* LoaderSemaphore.                                                         *)

\* Wrong: lets one task too many in.
AcquireOneMore(t) ==
  IF inFlight <= Cap
  THEN /\ inFlight' = inFlight + 1
       /\ task' = [task EXCEPT ![t] = "granted"]
       /\ UNCHANGED waiters
  ELSE /\ waiters' = Append(waiters, t)
       /\ task' = [task EXCEPT ![t] = "queued"]
       /\ UNCHANGED inFlight

Acquire(t) ==
  IF inFlight < Cap
  THEN /\ inFlight' = inFlight + 1
       /\ task' = [task EXCEPT ![t] = "granted"]
       /\ UNCHANGED waiters
  ELSE /\ waiters' = Append(waiters, t)
       /\ task' = [task EXCEPT ![t] = "queued"]
       /\ UNCHANGED inFlight

\* Wrong: frees the permit and wakes nobody.
ReleaseSilently(t, end) ==
  /\ inFlight' = inFlight - 1
  /\ task' = [task EXCEPT ![t] = end]
  /\ UNCHANGED waiters

\* The first waiter takes the permit over; only without one it is freed.
Release(t, end) ==
  IF waiters # <<>>
  THEN /\ waiters' = Tail(waiters)
       /\ task' = [task EXCEPT ![t] = end, ![Head(waiters)] = "granted"]
       /\ UNCHANGED inFlight
  ELSE /\ inFlight' = inFlight - 1
       /\ task' = [task EXCEPT ![t] = end]
       /\ UNCHANGED waiters

-----------------------------------------------------------------------------
(* dispatchWithResilience.                                                  *)

\* The error marshalError makes of the one that won the race.  Timeouts pass
\* through; what it does not know becomes an ExecutionError.
Marshalled ==
  [timeout |-> "TimeoutError", cancel |-> "ExecutionError",
   deadline |-> "ExecutionError", fatal |-> "ExecutionError"]

Finish(c, result) ==
  /\ at' = [at EXCEPT ![c] = "done"]
  /\ outcome' = [outcome EXCEPT ![c] = result]

\* Wrong: an attempt that timed out is tried again.
SettleRetryTimeouts(c, event) ==
  CASE event = "ok" -> Finish(c, "value")
    [] event \in {"retryable", "timeout"} /\ attempt[c] < Retries[c] ->
         at' = [at EXCEPT ![c] = "backoff"] /\ UNCHANGED outcome
    [] event = "retryable" /\ attempt[c] = Retries[c] ->
         Finish(c, IF Retries[c] > 0 THEN "RetryExhaustedError" ELSE "retryable")
    [] OTHER -> Finish(c, Marshalled[event])

\* The race of the current attempt is over: return, retry or give up.
Settle(c, event) ==
  CASE event = "ok" -> Finish(c, "value")
    [] event = "retryable" /\ attempt[c] < Retries[c] ->
         at' = [at EXCEPT ![c] = "backoff"] /\ UNCHANGED outcome
    [] event = "retryable" /\ attempt[c] = Retries[c] ->
         Finish(c, IF Retries[c] > 0 THEN "RetryExhaustedError" ELSE "retryable")
    [] OTHER -> Finish(c, Marshalled[event])

\* One turn of the retry loop.  The task is started before the race is set
\* up, and the race refuses a deadline that has passed.
Try(c, n) ==
  IF c \in cancelled
  THEN Finish(c, "CancelledError") /\ UNCHANGED <<semaphore, task>>
  ELSE /\ Acquire(<<c, n>>)
       /\ IF c \in late
          THEN Finish(c, Marshalled["deadline"])
          ELSE at' = [at EXCEPT ![c] = "racing"] /\ UNCHANGED outcome

Submit(c) ==
  /\ at[c] = "idle"
  /\ Try(c, 0)
  /\ UNCHANGED <<attempt, cancelled, late>>

BackoffEnds(c) ==
  /\ at[c] = "backoff"
  /\ attempt' = [attempt EXCEPT ![c] = @ + 1]
  /\ Try(c, attempt[c] + 1)
  /\ UNCHANGED <<cancelled, late>>

\* Wrong: the timer is cleared when the task gets its permit.
TimeoutWhileQueued(c) ==
  /\ c \in Timed
  /\ at[c] = "racing" /\ task[<<c, attempt[c]>>] = "queued"
  /\ Settle(c, "timeout")
  /\ UNCHANGED <<semaphore, task, attempt, cancelled, late>>

TimeoutFires(c) ==
  /\ c \in Timed
  /\ at[c] = "racing"
  /\ Settle(c, "timeout")
  /\ UNCHANGED <<semaphore, task, attempt, cancelled, late>>

DeadlineFires(c) ==
  /\ c \in late
  /\ at[c] = "racing"
  /\ Settle(c, "deadline")
  /\ UNCHANGED <<semaphore, task, attempt, cancelled, late>>

\* token.cancel(): aborts the signal, whose listener rejects the race.
Cancel(c) ==
  /\ c \notin cancelled
  /\ cancelled' = cancelled \cup {c}
  /\ IF at[c] = "racing" THEN Settle(c, "cancel") ELSE UNCHANGED <<at, outcome>>
  /\ UNCHANGED <<semaphore, task, attempt, late>>

-----------------------------------------------------------------------------
(* LoaderRunner.                                                            *)

TaskStarts(t) ==
  /\ task[t] = "granted"
  /\ task' = [task EXCEPT ![t] = "running"]
  /\ UNCHANGED <<semaphore, call, cancelled, late>>

\* The loaded function returns or throws, or the loader refuses; the call
\* hears of it if it still races on this attempt.
TaskEnds(t, end) ==
  /\ task[t] = "running"
  /\ t[1] \notin Hanging
  /\ Release(t, end)
  /\ IF at[t[1]] = "racing" /\ attempt[t[1]] = t[2]
     THEN Settle(t[1], end) ELSE UNCHANGED <<at, outcome>>
  /\ UNCHANGED <<attempt, cancelled, late>>

-----------------------------------------------------------------------------

DeadlinePasses(c) ==
  /\ c \in Dated \ late
  /\ late' = late \cup {c}
  /\ UNCHANGED <<semaphore, task, call, cancelled>>

CallStep(c) == Submit(c) \/ BackoffEnds(c) \/ TimeoutFires(c) \/ DeadlineFires(c)

TaskStep(t) == TaskStarts(t) \/ \E end \in Ended : TaskEnds(t, end)

Next ==
  \/ \E c \in Calls : CallStep(c) \/ Cancel(c) \/ DeadlinePasses(c)
  \/ \E t \in Tasks : TaskStep(t)

Spec == Init /\ [][Next]_vars

-----------------------------------------------------------------------------
(* Properties.                                                              *)

\* Shapes of the state.  An attempt has a task once the call got to it.
TypeOK ==
  /\ inFlight \in Nat
  /\ waiters \in Seq(Tasks)
  /\ task \in [Tasks -> TaskState]
  /\ at \in [Calls -> CallState]
  /\ attempt \in [Calls -> Nat] /\ \A c \in Calls : attempt[c] <= Retries[c]
  /\ outcome \in [Calls -> Outcome]
  /\ cancelled \subseteq Calls
  /\ late \subseteq Calls

\* loader-budget.ts 105-132: the counter and the permits agree, through every
\* hand-over to a waiter, and the loader cap of the isolate is kept although
\* nothing stops the tasks of calls that have given up.
PermitsConserved ==
  /\ inFlight = Cardinality(Holders)
  /\ inFlight <= Cap

\* The waiters are exactly the queued tasks, each once, and no permit is free
\* while one waits: no wake-up is lost and nobody overtakes the queue.
WaitersServed ==
  /\ \A i, k \in DOMAIN waiters : waiters[i] = waiters[k] => i = k
  /\ \A t \in Tasks : task[t] = "queued" <=> \E i \in DOMAIN waiters : waiters[i] = t
  /\ waiters # <<>> => inFlight = Cap

\* A retry follows only the end of the attempt before it (rpc-client.ts
\* 97-103, error-marshal.ts 115-119): a call's function never runs twice at a
\* time, whatever timed out or was cancelled.
OneTaskPerCall ==
  \A t, u \in Tasks :
    /\ t[1] = u[1] /\ t[2] < u[2] /\ task[u] # "none"
    => task[t] \in Ended

\* While one permit is out of the reach of the functions that hang, a queued
\* task gets its turn, although calls that gave up keep their place in the
\* queue and their permit (loader-budget.ts 114-132).
QueuedTasksRun ==
  \A t \in Tasks : task[t] = "queued" ~> task[t] \in {"granted", "running"}
=============================================================================
