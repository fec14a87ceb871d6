------------------------- MODULE LoaderPoolProofs --------------------------
(***************************************************************************)
(* What holds of the semaphore and the attempts of calls, and of map, for  *)
(* every number of calls, items, retries and permits.                      *)
(***************************************************************************)
EXTENDS LoaderOnlyPool, FiniteSetTheorems, SequenceTheorems, TLAPS

\* The waiters list the queued tasks, each once.
WaitersExact ==
  /\ \A i, k \in DOMAIN waiters : waiters[i] = waiters[k] => i = k
  /\ \A t \in Tasks : task[t] = "queued" <=> \E i \in DOMAIN waiters : waiters[i] = t

\* No permit is free while a task waits.
NoIdlePermit == waiters # <<>> => inFlight = Cap

\* Why OneTaskPerCall is kept by a step: the attempts before the current one
\* have ended, those after it have not begun, and only an ended attempt is
\* followed by a backoff.
AttemptsInOrder ==
  \A t \in Tasks :
    /\ t[2] > attempt[t[1]] => task[t] = "none"
    /\ t[2] < attempt[t[1]] => task[t] \in Ended
    /\ t[2] = attempt[t[1]] /\ at[t[1]] = "backoff" => task[t] \in Ended
    /\ at[t[1]] = "idle" => task[t] = "none"

BackoffHasNext == \A c \in Calls : at[c] = "backoff" => attempt[c] < Retries[c]

Permits == IsFiniteSet(Holders) /\ PermitsConserved

Inv == TypeOK /\ Permits /\ WaitersExact /\ NoIdlePermit
         /\ AttemptsInOrder /\ BackoffHasNext

\* A task is a call and the number of one of its attempts.
LEMMA TaskShape ==
  /\ \A t \in Tasks : /\ t[1] \in Calls /\ t[2] \in Nat /\ t[2] <= Retries[t[1]]
                      /\ t = <<t[1], t[2]>>
  /\ \A c \in Calls, n \in Nat : n <= Retries[c] => <<c, n>> \in Tasks
BY LoaderPoolAssumption DEF Tasks

-----------------------------------------------------------------------------
(* What Acquire and Release do to the semaphore and the tasks.               *)

\* A task that has not begun is given a permit or the last place in the queue.
LEMMA AcquireKeeps ==
  ASSUME TypeOK, Permits, WaitersExact, NoIdlePermit,
         NEW t \in Tasks, task[t] = "none", Acquire(t)
  PROVE  /\ inFlight' \in Nat /\ waiters' \in Seq(Tasks)
         /\ task' \in [Tasks -> TaskState]
         /\ Permits' /\ WaitersExact' /\ NoIdlePermit'
         /\ task'[t] \in {"granted", "queued"}
         /\ \A u \in Tasks : u # t => task'[u] = task[u]
<1>1. CASE inFlight < Cap
  <2>1. /\ inFlight' = inFlight + 1 /\ waiters' = waiters
        /\ task' = [task EXCEPT ![t] = "granted"]
    BY <1>1 DEF Acquire
  <2>2. waiters = <<>>
    BY <1>1, LoaderPoolAssumption DEF NoIdlePermit, TypeOK
  <2>3. Holders' = Holders \cup {t} /\ t \notin Holders
    BY <2>1 DEF Holders, TypeOK
  <2>4. Permits'
    BY <1>1, <2>1, <2>3, FS_AddElement, LoaderPoolAssumption
    DEF Permits, PermitsConserved, TypeOK
  <2>5. WaitersExact' /\ NoIdlePermit'
    BY <2>1, <2>2 DEF WaitersExact, NoIdlePermit, TypeOK
  <2> QED BY <2>1, <2>4, <2>5 DEF TypeOK, TaskState
<1>2. CASE ~ (inFlight < Cap)
  <2>1. /\ inFlight' = inFlight /\ waiters' = Append(waiters, t)
        /\ task' = [task EXCEPT ![t] = "queued"]
    BY <1>2 DEF Acquire
  <2>2. Holders' = Holders
    BY <2>1 DEF Holders, TypeOK
  <2>3. Permits' /\ NoIdlePermit'
    BY <1>2, <2>1, <2>2, LoaderPoolAssumption
    DEF Permits, PermitsConserved, NoIdlePermit, TypeOK
  <2>4. /\ Len(waiters') = Len(waiters) + 1 /\ waiters'[Len(waiters) + 1] = t
        /\ \A i \in 1 .. Len(waiters) : waiters'[i] = waiters[i]
        /\ waiters' \in Seq(Tasks)
    BY <2>1 DEF TypeOK
  <2>5. ~ \E i \in DOMAIN waiters : waiters[i] = t
    BY DEF WaitersExact
  <2>6. DOMAIN waiters = 1 .. Len(waiters) /\ DOMAIN waiters' = 1 .. (Len(waiters) + 1)
        /\ Len(waiters) \in Nat
    BY <2>4 DEF TypeOK
  <2>7. \A i, k \in DOMAIN waiters' : waiters'[i] = waiters'[k] => i = k
    BY <2>4, <2>5, <2>6 DEF WaitersExact
  <2>8. ASSUME NEW u \in Tasks
        PROVE  task'[u] = "queued" <=> \E i \in DOMAIN waiters' : waiters'[i] = u
    <3>1. CASE u = t
      <4>1. task'[u] = "queued"
        BY <2>1, <3>1 DEF TypeOK
      <4>2. Len(waiters) + 1 \in DOMAIN waiters' /\ waiters'[Len(waiters) + 1] = u
        BY <2>4, <2>6, <3>1
      <4> QED BY <4>1, <4>2
    <3>2. CASE u # t
      <4>1. task'[u] = task[u]
        BY <2>1, <3>2 DEF TypeOK
      <4>2. (\E i \in DOMAIN waiters' : waiters'[i] = u)
              <=> \E i \in DOMAIN waiters : waiters[i] = u
        BY <2>4, <2>6, <3>2
      <4> QED BY <4>1, <4>2 DEF WaitersExact
    <3> QED BY <3>1, <3>2
  <2>9. WaitersExact'
    BY <2>7, <2>8 DEF WaitersExact
  <2> QED BY <2>1, <2>3, <2>4, <2>9 DEF TypeOK, TaskState
<1> QED BY <1>1, <1>2

\* A running task ends: its permit passes to the first waiter or is freed.
LEMMA ReleaseKeeps ==
  ASSUME TypeOK, Permits, WaitersExact, NoIdlePermit,
         NEW t \in Tasks, task[t] = "running", NEW end \in Ended, Release(t, end)
  PROVE  /\ inFlight' \in Nat /\ waiters' \in Seq(Tasks)
         /\ task' \in [Tasks -> TaskState]
         /\ Permits' /\ WaitersExact' /\ NoIdlePermit'
         /\ task'[t] = end
         /\ \A u \in Tasks : u # t => \/ task'[u] = task[u]
                                       \/ (task[u] = "queued" /\ task'[u] = "granted")
<1>0. t \in Holders /\ inFlight > 0
  <2>1. t \in Holders
    BY DEF Holders
  <2>2. Cardinality(Holders \ {t}) = Cardinality(Holders) - 1
          /\ IsFiniteSet(Holders \ {t})
    BY <2>1, FS_RemoveElement DEF Permits
  <2> QED BY <2>1, <2>2, FS_CardinalityType DEF Permits, PermitsConserved
<1>1. CASE waiters # <<>>
  <2> DEFINE h == Head(waiters)
  <2>1. /\ inFlight' = inFlight /\ waiters' = Tail(waiters)
        /\ task' = [task EXCEPT ![t] = end, ![h] = "granted"]
    BY <1>1 DEF Release
  <2>2. /\ h = waiters[1] /\ h \in Tasks /\ waiters' \in Seq(Tasks)
        /\ Len(waiters) \in Nat /\ Len(waiters) > 0
        /\ DOMAIN waiters = 1 .. Len(waiters)
        /\ DOMAIN waiters' = 1 .. (Len(waiters) - 1)
        /\ \A i \in 1 .. (Len(waiters) - 1) : waiters'[i] = waiters[i + 1]
    BY <1>1, <2>1 DEF TypeOK
  <2>3. task[h] = "queued" /\ h # t
    BY <2>2 DEF WaitersExact
  <2>4. /\ task'[t] = end /\ task'[h] = "granted" /\ task' \in [Tasks -> TaskState]
        /\ \A u \in Tasks : u # t /\ u # h => task'[u] = task[u]
    BY <2>1, <2>2, <2>3 DEF TypeOK, TaskState
  <2>5. Holders' = (Holders \ {t}) \cup {h} /\ h \notin Holders \ {t}
    BY <2>2, <2>3, <2>4 DEF Holders, Ended
  <2>6. /\ IsFiniteSet(Holders \ {t})
        /\ Cardinality(Holders \ {t}) = Cardinality(Holders) - 1
    BY <1>0, FS_RemoveElement DEF Permits
  <2>7. /\ IsFiniteSet(Holders')
        /\ Cardinality(Holders') = Cardinality(Holders \ {t}) + 1
    BY <2>5, <2>6, FS_AddElement
  <2>8. Permits'
    BY <2>1, <2>6, <2>7 DEF Permits, PermitsConserved, TypeOK
  <2>9. NoIdlePermit'
    BY <1>1, <2>1 DEF NoIdlePermit
  <2>10. \A i, k \in DOMAIN waiters' : waiters'[i] = waiters'[k] => i = k
    <3>1. SUFFICES ASSUME NEW i \in DOMAIN waiters', NEW k \in DOMAIN waiters',
                          waiters'[i] = waiters'[k]
                   PROVE  i = k
      OBVIOUS
    <3>2. /\ i + 1 \in DOMAIN waiters /\ k + 1 \in DOMAIN waiters
          /\ waiters[i + 1] = waiters[k + 1] /\ i \in Nat /\ k \in Nat
      BY <2>2, <3>1
    <3>3. i + 1 = k + 1
      BY <3>2 DEF WaitersExact
    <3> QED BY <3>2, <3>3
  <2>11. ASSUME NEW u \in Tasks
         PROVE  task'[u] = "queued" <=> \E i \in DOMAIN waiters' : waiters'[i] = u
    <3>1. CASE u = h
      <4>1. \A i \in DOMAIN waiters' : waiters'[i] # h
        BY <2>2 DEF WaitersExact
      <4> QED BY <2>4, <3>1, <4>1
    <3>2. CASE u = t
      <4>1. \A i \in DOMAIN waiters : waiters[i] # t
        BY DEF WaitersExact
      <4> QED BY <2>2, <2>4, <3>2, <4>1 DEF Ended
    <3>3. CASE u # h /\ u # t
      <4>1. (\E i \in DOMAIN waiters : waiters[i] = u)
              => \E i \in DOMAIN waiters' : waiters'[i] = u
        <5>1. SUFFICES ASSUME NEW i \in DOMAIN waiters, waiters[i] = u
                       PROVE  \E k \in DOMAIN waiters' : waiters'[k] = u
          OBVIOUS
        <5>2. i - 1 \in DOMAIN waiters' /\ waiters'[i - 1] = waiters[i]
          BY <2>2, <3>3, <5>1
        <5> QED BY <5>1, <5>2
      <4>2. (\E i \in DOMAIN waiters' : waiters'[i] = u)
              => \E i \in DOMAIN waiters : waiters[i] = u
        BY <2>2
      <4> QED BY <2>4, <3>3, <4>1, <4>2 DEF WaitersExact
    <3> QED BY <3>1, <3>2, <3>3
  <2>12. WaitersExact'
    BY <2>10, <2>11 DEF WaitersExact
  <2> QED BY <2>1, <2>2, <2>3, <2>4, <2>8, <2>9, <2>12 DEF TypeOK
<1>2. CASE waiters = <<>>
  <2>1. /\ inFlight' = inFlight - 1 /\ waiters' = waiters
        /\ task' = [task EXCEPT ![t] = end]
    BY <1>2 DEF Release
  <2>2. /\ task'[t] = end /\ task' \in [Tasks -> TaskState]
        /\ \A u \in Tasks : u # t => task'[u] = task[u]
    BY <2>1 DEF TypeOK, TaskState
  <2>3. Holders' = Holders \ {t}
    BY <2>2 DEF Holders, Ended
  <2>4. /\ IsFiniteSet(Holders')
        /\ Cardinality(Holders') = Cardinality(Holders) - 1
    BY <1>0, <2>3, FS_RemoveElement DEF Permits
  <2>5. inFlight' \in Nat /\ Permits'
    BY <1>0, <2>1, <2>4, LoaderPoolAssumption
    DEF Permits, PermitsConserved, TypeOK
  <2>6. WaitersExact' /\ NoIdlePermit'
    BY <1>2, <2>1, <2>2 DEF WaitersExact, NoIdlePermit, TypeOK, Ended
  <2> QED BY <2>1, <2>2, <2>5, <2>6 DEF TypeOK
<1> QED BY <1>1, <1>2

-----------------------------------------------------------------------------
(* What Settle and Try do to a call.                                         *)

\* A call whose race is over is done, or backs off before an attempt it has.
LEMMA SettleKeeps ==
  ASSUME TypeOK, NEW c \in Calls,
         NEW event \in Ended \cup {"timeout", "cancel", "deadline"},
         Settle(c, event)
  PROVE  /\ at' \in [Calls -> CallState] /\ outcome' \in [Calls -> Outcome]
         /\ at'[c] \in {"backoff", "done"}
         /\ at'[c] = "backoff" => event = "retryable" /\ attempt[c] < Retries[c]
         /\ \A d \in Calls : d # c => at'[d] = at[d]
<1>1. attempt[c] \in Nat /\ Retries[c] \in Nat /\ attempt[c] <= Retries[c]
  BY LoaderPoolAssumption DEF TypeOK
<1>2. CASE event = "retryable" /\ attempt[c] < Retries[c]
  <2>1. at' = [at EXCEPT ![c] = "backoff"] /\ outcome' = outcome
    BY <1>1, <1>2 DEF Settle
  <2> QED BY <1>2, <2>1 DEF TypeOK, CallState
<1>3. CASE ~ (event = "retryable" /\ attempt[c] < Retries[c])
  <2>1. \E r \in Outcome : Finish(c, r)
    <3>1. CASE event = "ok"
      BY <3>1 DEF Settle, Outcome
    <3>2. CASE event = "retryable"
      <4>1. attempt[c] = Retries[c]
        BY <1>1, <1>3, <3>2
      <4> QED BY <3>2, <4>1 DEF Settle, Outcome
    <3>3. CASE event \in {"fatal", "timeout", "cancel", "deadline"}
      <4>1. Finish(c, Marshalled[event])
        BY <3>3 DEF Settle
      <4>2. Marshalled[event] \in Outcome
        BY <3>3 DEF Marshalled, Outcome
      <4> QED BY <4>1, <4>2
    <3> QED BY <3>1, <3>2, <3>3 DEF Ended
  <2>2. at' = [at EXCEPT ![c] = "done"] /\ outcome' \in [Calls -> Outcome]
    BY <2>1 DEF Finish, TypeOK
  <2> QED BY <2>2 DEF TypeOK, CallState
<1> QED BY <1>2, <1>3

\* A turn of the retry loop starts the task of its attempt, or none.
LEMMA TryKeeps ==
  ASSUME TypeOK, Permits, WaitersExact, NoIdlePermit,
         NEW c \in Calls, NEW n \in Nat, n <= Retries[c],
         task[<<c, n>>] = "none", Try(c, n)
  PROVE  /\ inFlight' \in Nat /\ waiters' \in Seq(Tasks)
         /\ task' \in [Tasks -> TaskState]
         /\ at' \in [Calls -> CallState] /\ outcome' \in [Calls -> Outcome]
         /\ Permits' /\ WaitersExact' /\ NoIdlePermit'
         /\ at'[c] \in {"racing", "done"}
         /\ \A d \in Calls : d # c => at'[d] = at[d]
         /\ \A u \in Tasks : u # <<c, n>> => task'[u] = task[u]
<1>1. <<c, n>> \in Tasks
  BY TaskShape
<1>2. CASE c \in cancelled
  <2>1. /\ at' = [at EXCEPT ![c] = "done"]
        /\ outcome' = [outcome EXCEPT ![c] = "CancelledError"]
        /\ inFlight' = inFlight /\ waiters' = waiters /\ task' = task
    BY <1>2 DEF Try, Finish, semaphore
  <2>2. Permits' /\ WaitersExact' /\ NoIdlePermit'
    BY <2>1 DEF Permits, PermitsConserved, Holders, WaitersExact, NoIdlePermit
  <2> QED BY <2>1, <2>2 DEF TypeOK, CallState, Outcome
<1>3. CASE c \notin cancelled
  <2>1. Acquire(<<c, n>>)
    BY <1>3 DEF Try
  <2>2. /\ inFlight' \in Nat /\ waiters' \in Seq(Tasks)
        /\ task' \in [Tasks -> TaskState]
        /\ Permits' /\ WaitersExact' /\ NoIdlePermit'
        /\ \A u \in Tasks : u # <<c, n>> => task'[u] = task[u]
    BY <1>1, <2>1, AcquireKeeps
  <2>3. \/ /\ at' = [at EXCEPT ![c] = "done"]
           /\ outcome' = [outcome EXCEPT ![c] = "ExecutionError"]
        \/ at' = [at EXCEPT ![c] = "racing"] /\ outcome' = outcome
    BY <1>3 DEF Try, Finish, Marshalled
  <2> QED BY <2>2, <2>3 DEF TypeOK, CallState, Outcome
<1> QED BY <1>2, <1>3

-----------------------------------------------------------------------------
(* The invariant.                                                            *)

LEMMA InvInit == Init => Inv
<1> SUFFICES ASSUME Init PROVE Inv
  OBVIOUS
<1>1. Holders = {}
  BY DEF Init, Holders
<1>2. TypeOK
  BY LoaderPoolAssumption DEF Init, TypeOK, TaskState, CallState, Outcome
<1>3. Permits
  BY <1>1, FS_EmptySet, LoaderPoolAssumption DEF Init, Permits, PermitsConserved
<1>4. WaitersExact /\ NoIdlePermit
  BY DEF Init, WaitersExact, NoIdlePermit
<1>5. AttemptsInOrder /\ BackoffHasNext
  BY TaskShape DEF Init, AttemptsInOrder, BackoffHasNext
<1> QED BY <1>2, <1>3, <1>4, <1>5 DEF Inv

\* A step that leaves the semaphore and the tasks alone.
LEMMA QuietKeeps ==
  ASSUME Permits, WaitersExact, NoIdlePermit, UNCHANGED <<semaphore, task>>
  PROVE  Permits' /\ WaitersExact' /\ NoIdlePermit'
BY DEF Permits, PermitsConserved, Holders, WaitersExact, NoIdlePermit, semaphore

\* A race lost to a timer or to the token.
LEMMA RaceLost ==
  ASSUME Inv, NEW c \in Calls, NEW event \in {"timeout", "cancel", "deadline"},
         Settle(c, event), UNCHANGED <<semaphore, task, attempt>>,
         cancelled' \subseteq Calls, late' \subseteq Calls
  PROVE  Inv'
<1>1. /\ at' \in [Calls -> CallState] /\ outcome' \in [Calls -> Outcome]
      /\ at'[c] = "done" /\ \A d \in Calls : d # c => at'[d] = at[d]
  BY SettleKeeps DEF Inv
<1>2. TypeOK'
  BY <1>1 DEF Inv, TypeOK, semaphore
<1>3. AttemptsInOrder'
  BY <1>1, TaskShape DEF Inv, AttemptsInOrder
<1>4. BackoffHasNext'
  BY <1>1 DEF Inv, BackoffHasNext
<1> QED BY <1>2, <1>3, <1>4, QuietKeeps DEF Inv

LEMMA SubmitKeeps == ASSUME Inv, NEW c \in Calls, Submit(c) PROVE Inv'
<1>1. <<c, 0>> \in Tasks /\ 0 <= Retries[c]
  BY TaskShape, LoaderPoolAssumption
<1>2. \A t \in Tasks : t[1] = c => task[t] = "none"
  BY DEF Submit, Inv, AttemptsInOrder
<1>3. Try(c, 0) /\ task[<<c, 0>>] = "none"
  BY <1>1, <1>2 DEF Submit
<1>4. /\ inFlight' \in Nat /\ waiters' \in Seq(Tasks)
      /\ task' \in [Tasks -> TaskState]
      /\ at' \in [Calls -> CallState] /\ outcome' \in [Calls -> Outcome]
      /\ Permits' /\ WaitersExact' /\ NoIdlePermit'
      /\ at'[c] \in {"racing", "done"}
      /\ \A d \in Calls : d # c => at'[d] = at[d]
      /\ \A u \in Tasks : u # <<c, 0>> => task'[u] = task[u]
  BY <1>1, <1>3, TryKeeps DEF Inv
<1>5. /\ attempt' = attempt /\ cancelled' = cancelled /\ late' = late
  BY DEF Submit
<1>6. TypeOK'
  BY <1>4, <1>5 DEF Inv, TypeOK
<1>7. attempt[c] = 0
  <2>1. attempt[c] \in Nat /\ <<c, 0>>[1] = c /\ <<c, 0>>[2] = 0
    BY DEF Inv, TypeOK
  <2>2. 0 < attempt[c] => task[<<c, 0>>] \in Ended
    BY <1>1, <2>1 DEF Inv, AttemptsInOrder
  <2> QED BY <1>3, <2>1, <2>2 DEF Ended
<1>8. AttemptsInOrder'
  BY <1>2, <1>4, <1>5, <1>7, TaskShape DEF Inv, AttemptsInOrder
<1>9. BackoffHasNext'
  BY <1>4, <1>5 DEF Inv, BackoffHasNext
<1> QED BY <1>4, <1>6, <1>8, <1>9 DEF Inv

LEMMA BackoffEndsKeeps == ASSUME Inv, NEW c \in Calls, BackoffEnds(c) PROVE Inv'
<1> DEFINE n == attempt[c] + 1
<1>1. n \in Nat /\ n <= Retries[c] /\ attempt[c] \in Nat /\ at[c] = "backoff"
  <2>1. attempt[c] \in Nat /\ Retries[c] \in Nat /\ at[c] = "backoff"
    BY LoaderPoolAssumption DEF Inv, TypeOK, BackoffEnds
  <2>2. attempt[c] < Retries[c]
    BY <2>1 DEF Inv, BackoffHasNext
  <2> QED BY <2>1, <2>2
<1>2. <<c, n>> \in Tasks /\ task[<<c, n>>] = "none"
  BY <1>1, TaskShape DEF Inv, AttemptsInOrder
<1>3. Try(c, n)
  BY DEF BackoffEnds
<1>4. /\ inFlight' \in Nat /\ waiters' \in Seq(Tasks)
      /\ task' \in [Tasks -> TaskState]
      /\ at' \in [Calls -> CallState] /\ outcome' \in [Calls -> Outcome]
      /\ Permits' /\ WaitersExact' /\ NoIdlePermit'
      /\ at'[c] \in {"racing", "done"}
      /\ \A d \in Calls : d # c => at'[d] = at[d]
      /\ \A u \in Tasks : u # <<c, n>> => task'[u] = task[u]
  BY <1>1, <1>2, <1>3, TryKeeps DEF Inv
<1>5. /\ attempt' = [attempt EXCEPT ![c] = n]
      /\ cancelled' = cancelled /\ late' = late
  BY DEF BackoffEnds
<1>6. TypeOK'
  BY <1>1, <1>4, <1>5 DEF Inv, TypeOK
<1>7. AttemptsInOrder'
  <2>1. SUFFICES ASSUME NEW t \in Tasks
                 PROVE  /\ t[2] > attempt'[t[1]] => task'[t] = "none"
                        /\ t[2] < attempt'[t[1]] => task'[t] \in Ended
                        /\ t[2] = attempt'[t[1]] /\ at'[t[1]] = "backoff"
                             => task'[t] \in Ended
                        /\ at'[t[1]] = "idle" => task'[t] = "none"
    BY DEF AttemptsInOrder
  <2>2. CASE t[1] # c
    <3>1. /\ attempt'[t[1]] = attempt[t[1]] /\ at'[t[1]] = at[t[1]]
          /\ task'[t] = task[t]
      BY <1>4, <1>5, <2>2, TaskShape DEF Inv, TypeOK
    <3> QED BY <3>1 DEF Inv, AttemptsInOrder
  <2>3. CASE t[1] = c
    <3>1. attempt'[c] = n /\ t[2] \in Nat /\ t = <<c, t[2]>>
      BY <1>5, <2>3, TaskShape DEF Inv, TypeOK
    <3>2. t[2] # n => task'[t] = task[t]
      BY <1>4, <3>1
    <3>3. t[2] > n => task[t] = "none"
      BY <1>1, <2>3, <3>1 DEF Inv, AttemptsInOrder
    <3>4. t[2] < n => task[t] \in Ended
      BY <1>1, <2>3, <3>1 DEF Inv, AttemptsInOrder
    <3> QED BY <1>1, <1>4, <2>3, <3>1, <3>2, <3>3, <3>4
  <2> QED BY <2>2, <2>3
<1>8. BackoffHasNext'
  BY <1>4, <1>5 DEF Inv, BackoffHasNext, TypeOK
<1> QED BY <1>4, <1>6, <1>7, <1>8 DEF Inv

LEMMA CancelKeeps == ASSUME Inv, NEW c \in Calls, Cancel(c) PROVE Inv'
<1>1. UNCHANGED <<semaphore, task, attempt, late>> /\ cancelled' \subseteq Calls
  BY DEF Cancel, Inv, TypeOK
<1>2. CASE at[c] = "racing"
  BY <1>1, <1>2, RaceLost DEF Cancel, Inv, TypeOK
<1>3. CASE at[c] # "racing"
  <2>1. at' = at /\ outcome' = outcome
    BY <1>3 DEF Cancel
  <2>2. TypeOK' /\ AttemptsInOrder' /\ BackoffHasNext'
    BY <1>1, <2>1 DEF Inv, TypeOK, AttemptsInOrder, BackoffHasNext, semaphore
  <2> QED BY <1>1, <2>2, QuietKeeps DEF Inv
<1> QED BY <1>2, <1>3

LEMMA TaskStartsKeeps == ASSUME Inv, NEW t \in Tasks, TaskStarts(t) PROVE Inv'
<1>1. /\ task' = [task EXCEPT ![t] = "running"] /\ task[t] = "granted"
      /\ inFlight' = inFlight /\ waiters' = waiters
      /\ UNCHANGED <<at, attempt, outcome, cancelled, late>>
  BY DEF TaskStarts, semaphore, call
<1>2. TypeOK'
  BY <1>1 DEF Inv, TypeOK, TaskState
<1>3. Holders' = Holders
  BY <1>1 DEF Inv, TypeOK, Holders
<1>4. Permits' /\ NoIdlePermit'
  BY <1>1, <1>3 DEF Inv, Permits, PermitsConserved, NoIdlePermit
<1>5. WaitersExact'
  BY <1>1 DEF Inv, WaitersExact, TypeOK
<1>6. AttemptsInOrder' /\ BackoffHasNext'
  BY <1>1 DEF Inv, AttemptsInOrder, BackoffHasNext, TypeOK, Ended
<1> QED BY <1>2, <1>4, <1>5, <1>6 DEF Inv

LEMMA TaskEndsKeeps ==
  ASSUME Inv, NEW t \in Tasks, NEW end \in Ended, TaskEnds(t, end)
  PROVE  Inv'
<1> DEFINE c == t[1]
<1>1. task[t] = "running" /\ Release(t, end) /\ c \in Calls
      /\ UNCHANGED <<attempt, cancelled, late>>
  BY TaskShape DEF TaskEnds
<1>2. /\ inFlight' \in Nat /\ waiters' \in Seq(Tasks)
      /\ task' \in [Tasks -> TaskState]
      /\ Permits' /\ WaitersExact' /\ NoIdlePermit'
      /\ task'[t] = end
      /\ \A u \in Tasks : u # t => \/ task'[u] = task[u]
                                   \/ (task[u] = "queued" /\ task'[u] = "granted")
  BY <1>1, ReleaseKeeps DEF Inv
<1>3. /\ at' \in [Calls -> CallState] /\ outcome' \in [Calls -> Outcome]
      /\ \A d \in Calls : d # c => at'[d] = at[d]
      /\ \/ at'[c] = at[c] /\ at[c] # "idle"
         \/ at'[c] = "done"
         \/ /\ at'[c] = "backoff" /\ attempt[c] = t[2] /\ attempt[c] < Retries[c]
  <2>1. CASE at[c] = "racing" /\ attempt[c] = t[2]
    <3>1. Settle(c, end)
      BY <2>1 DEF TaskEnds
    <3>2. end \in Ended \cup {"timeout", "cancel", "deadline"}
      OBVIOUS
    <3> QED BY <1>1, <2>1, <3>1, <3>2, SettleKeeps DEF Inv
  <2>2. CASE ~ (at[c] = "racing" /\ attempt[c] = t[2])
    <3>1. at' = at /\ outcome' = outcome
      BY <2>2 DEF TaskEnds
    <3>2. at[c] # "idle"
      BY <1>1 DEF Inv, AttemptsInOrder
    <3> QED BY <3>1, <3>2 DEF Inv, TypeOK
  <2> QED BY <2>1, <2>2
<1>4. TypeOK'
  BY <1>1, <1>2, <1>3 DEF Inv, TypeOK
<1>5. AttemptsInOrder'
  <2>1. SUFFICES ASSUME NEW u \in Tasks
                 PROVE  /\ u[2] > attempt[u[1]] => task'[u] = "none"
                        /\ u[2] < attempt[u[1]] => task'[u] \in Ended
                        /\ u[2] = attempt[u[1]] /\ at'[u[1]] = "backoff"
                             => task'[u] \in Ended
                        /\ at'[u[1]] = "idle" => task'[u] = "none"
    BY <1>1 DEF AttemptsInOrder
  <2>2. CASE u = t
    <3>1. at'[c] # "idle"
      BY <1>3
    <3>2. ~ (t[2] > attempt[c])
      BY <1>1 DEF Inv, AttemptsInOrder
    <3> QED BY <1>2, <2>2, <3>1, <3>2
  <2>3. CASE u # t
    <3>1. task[u] \in Ended \cup {"none"} => task'[u] = task[u]
      BY <1>2, <2>3 DEF Ended
    <3>2. CASE u[1] # c
      <4>1. at'[u[1]] = at[u[1]]
        BY <1>3, <3>2, TaskShape
      <4> QED BY <3>1, <4>1 DEF Inv, AttemptsInOrder
    <3>3. CASE u[1] = c
      <4>1. u[2] # t[2]
        BY <2>3, <3>3, TaskShape
      <4>2. at'[c] # "idle"
        BY <1>3
      <4>3. u[2] = attempt[c] /\ at'[c] = "backoff" => task[u] \in Ended
        BY <1>3, <3>3, <4>1 DEF Inv, AttemptsInOrder
      <4> QED BY <3>1, <3>3, <4>2, <4>3 DEF Inv, AttemptsInOrder
    <3> QED BY <3>2, <3>3
  <2> QED BY <2>2, <2>3
<1>6. BackoffHasNext'
  BY <1>1, <1>3 DEF Inv, BackoffHasNext
<1> QED BY <1>2, <1>4, <1>5, <1>6 DEF Inv

LEMMA InvNext == Inv /\ [Next]_vars => Inv'
<1> SUFFICES ASSUME Inv, [Next]_vars PROVE Inv'
  OBVIOUS
<1>1. ASSUME NEW c \in Calls, TimeoutFires(c) PROVE Inv'
  BY <1>1, RaceLost DEF TimeoutFires, Inv, TypeOK
<1>2. ASSUME NEW c \in Calls, DeadlineFires(c) PROVE Inv'
  BY <1>2, RaceLost DEF DeadlineFires, Inv, TypeOK
<1>3. ASSUME NEW c \in Calls, DeadlinePasses(c) PROVE Inv'
  <2>1. /\ UNCHANGED <<semaphore, task, at, attempt, outcome, cancelled>>
        /\ late' \subseteq Calls
    BY <1>3 DEF DeadlinePasses, call, Inv, TypeOK
  <2>2. TypeOK' /\ AttemptsInOrder' /\ BackoffHasNext'
    BY <2>1 DEF Inv, TypeOK, AttemptsInOrder, BackoffHasNext, semaphore
  <2> QED BY <2>1, <2>2, QuietKeeps DEF Inv
<1>4. CASE UNCHANGED vars
  <2>1. UNCHANGED <<semaphore, task, at, attempt, outcome, cancelled, late>>
    BY <1>4 DEF vars, call
  <2>2. TypeOK' /\ AttemptsInOrder' /\ BackoffHasNext'
    BY <2>1 DEF Inv, TypeOK, AttemptsInOrder, BackoffHasNext, semaphore
  <2> QED BY <2>1, <2>2, QuietKeeps DEF Inv
<1> QED BY <1>1, <1>2, <1>3, <1>4, SubmitKeeps, BackoffEndsKeeps, CancelKeeps,
           TaskStartsKeeps, TaskEndsKeeps DEF Next, CallStep, TaskStep

LEMMA InvAlways == Spec => []Inv
<1>1. Init => Inv
  BY InvInit
<1>2. Inv /\ [Next]_vars => Inv'
  BY InvNext
<1> QED BY <1>1, <1>2, PTL DEF Spec

\* loader-budget.ts 105-132: for any cap and any calls, the counter counts the
\* permits, the cap holds, and no waiter is forgotten or overtaken.
THEOREM SemaphoreInvariant == Spec => [](TypeOK /\ PermitsConserved /\ WaitersServed)
<1>1. Inv => TypeOK /\ PermitsConserved /\ WaitersServed
  BY DEF Inv, Permits, WaitersExact, NoIdlePermit, WaitersServed
<1> QED BY <1>1, InvAlways, PTL

\* rpc-client.ts 97-103: whatever times out, a call's function never runs
\* twice at a time, for any number of retries.
THEOREM NoOverlappingAttempts == Spec => []OneTaskPerCall
<1>1. Inv => OneTaskPerCall
  <2>1. SUFFICES ASSUME Inv, NEW t \in Tasks, NEW u \in Tasks,
                        t[1] = u[1], t[2] < u[2], task[u] # "none"
                 PROVE  task[t] \in Ended
    BY DEF OneTaskPerCall
  <2>2. u[2] <= attempt[u[1]]
    BY <2>1, TaskShape DEF Inv, AttemptsInOrder, TypeOK
  <2>3. t[2] < attempt[t[1]]
    BY <2>1, <2>2, TaskShape DEF Inv, TypeOK
  <2> QED BY <2>1, <2>3 DEF Inv, AttemptsInOrder
<1> QED BY <1>1, InvAlways, PTL

-----------------------------------------------------------------------------
(***************************************************************************)
(* FanOut, for every number of items, every width and every strategy: the  *)
(* items are handed out once, and the folding finds an outcome for each.   *)
(***************************************************************************)

\* The number of workers is between one and the number of items.
LEMMA WidthInRange ==
  ASSUME NEW c \in Int
  PROVE  Fan!Width(c) \in 1 .. Size
BY FanOutAssumption DEF Fan!Width

\* Every strategy ends in one of three kinds of result.
LEMMA FoldKinds ==
  ASSUME NEW s \in Strategies
  PROVE  Fan!Fold(s).kind \in {"returns", "error", "aggregate"}
<1>1. s \in {"throw", "throw-fast", "null", "skip", "settled"}
  BY FanOutAssumption
<1> QED
  BY <1>1 DEF Fan!Fold, Fan!Returns, Fan!ThrowsOne, Fan!Aggregate

LEMMA EachInit == Fan!Init => Fan!EachItemOnce
<1> SUFFICES ASSUME Fan!Init PROVE Fan!EachItemOnce
  OBVIOUS
<1> DEFINE n == Fan!Width(concurrency)
<1>1. n \in 1 .. Size /\ Size \in Nat
  BY FanOutAssumption, WidthInRange DEF Fan!Init
<1>2. Fan!TypeOK
  <2>1. DOMAIN worker = 1 .. n /\ \A w \in 1 .. n : worker[w] = w
    BY DEF Fan!Init
  <2>2. DOMAIN worker \in SUBSET Fan!Items /\ \A w \in DOMAIN worker : worker[w] \in Fan!Items
    BY <1>1, <2>1 DEF Fan!Items
  <2>3. cursor \in 1 .. (Size + 1)
    BY <1>1 DEF Fan!Init
  <2>4. result.kind = "none"
    BY DEF Fan!Init, Fan!NoResult
  <2> QED
    BY <2>2, <2>3, <2>4 DEF Fan!Init, Fan!TypeOK
<1>3. Fan!Running = 1 .. n /\ \A w \in Fan!Running : worker[w] = w
  BY <1>1 DEF Fan!Init, Fan!Running, Fan!Items
<1>4. ASSUME NEW i \in Fan!Items
      PROVE  /\ i < cursor <=> settled[i] # "unset" \/ \E w \in Fan!Running : worker[w] = i
             /\ settled[i] # "unset" => \A w \in Fan!Running : worker[w] # i
  <2>1. settled[i] = "unset" /\ cursor = n + 1
    BY DEF Fan!Init
  <2>2. i < cursor <=> i \in Fan!Running
    BY <1>1, <1>3, <2>1 DEF Fan!Items
  <2> QED
    BY <1>3, <2>1, <2>2
<1> QED
  BY <1>2, <1>3, <1>4 DEF Fan!EachItemOnce

\* The end of an item: it was running and has no outcome yet, and it is one
\* worker's only.
LEMMA EndEach ==
  ASSUME Fan!EachItemOnce, NEW w \in DOMAIN worker, NEW end \in {"ok", "error"},
         worker[w] \in Fan!Items,
         settled' = [settled EXCEPT ![worker[w]] = end],
         worker' = [worker EXCEPT ![w] = Fan!Between],
         aborted' \in BOOLEAN,
         UNCHANGED <<onError, concurrency, cursor, result>>
  PROVE  Fan!EachItemOnce'
<1>1. Size \in Nat /\ Fan!Between \notin Fan!Items /\ Fan!Over \notin Fan!Items
  BY FanOutAssumption DEF Fan!Items, Fan!Between, Fan!Over
<1>2. Fan!TypeOK'
  BY DEF Fan!EachItemOnce, Fan!TypeOK
<1>3. Fan!Running' = Fan!Running \ {w} /\ \A v \in Fan!Running' : worker'[v] = worker[v]
  BY <1>1 DEF Fan!Running, Fan!EachItemOnce, Fan!TypeOK
<1>4. w \in Fan!Running /\ \A v \in Fan!Running' : worker[v] # worker[w]
  BY <1>3 DEF Fan!EachItemOnce, Fan!Running
<1>5. \A v, u \in Fan!Running' : worker'[v] = worker'[u] => v = u
  BY <1>3 DEF Fan!EachItemOnce
<1>6. ASSUME NEW i \in Fan!Items'
      PROVE  /\ (i < cursor)' <=> settled'[i] # "unset" \/ \E v \in Fan!Running' : worker'[v] = i
             /\ settled'[i] # "unset" => \A v \in Fan!Running' : worker'[v] # i
  <2>1. CASE i = worker[w]
    BY <1>3, <1>4, <2>1 DEF Fan!EachItemOnce, Fan!TypeOK, Fan!Items
  <2>2. CASE i # worker[w]
    BY <1>3, <1>4, <2>2 DEF Fan!EachItemOnce, Fan!TypeOK, Fan!Items
  <2> QED
    BY <2>1, <2>2
<1> QED
  BY <1>2, <1>5, <1>6 DEF Fan!EachItemOnce

\* A worker's next item is the cursor's, which nobody has had.
LEMMA PullEach ==
  ASSUME Fan!EachItemOnce, NEW w \in DOMAIN worker, Fan!Pull(w)
  PROVE  Fan!EachItemOnce'
<1>1. Size \in Nat /\ Fan!Between \notin Fan!Items /\ cursor \in Fan!Items
  BY FanOutAssumption DEF Fan!Items, Fan!Between, Fan!Pull, Fan!EachItemOnce, Fan!TypeOK
<1>2. Fan!TypeOK'
  BY <1>1 DEF Fan!Pull, Fan!EachItemOnce, Fan!TypeOK, Fan!Items
<1>3. Fan!Running' = Fan!Running \cup {w} /\ w \notin Fan!Running /\ worker'[w] = cursor
  BY <1>1 DEF Fan!Running, Fan!Pull, Fan!Items, Fan!EachItemOnce, Fan!TypeOK
<1>4. \A v \in Fan!Running : worker'[v] = worker[v] /\ worker[v] # cursor
  BY <1>1, <1>3 DEF Fan!Pull, Fan!EachItemOnce, Fan!TypeOK, Fan!Running
<1>5. settled' = settled /\ settled[cursor] = "unset" /\ cursor' = cursor + 1
  <2>1. ~ (cursor < cursor)
    BY <1>1 DEF Fan!Items
  <2> QED
    BY <1>1, <2>1 DEF Fan!Pull, Fan!EachItemOnce
<1>6. \A v, u \in Fan!Running' : worker'[v] = worker'[u] => v = u
  BY <1>3, <1>4 DEF Fan!EachItemOnce
<1>7. ASSUME NEW i \in Fan!Items'
      PROVE  /\ (i < cursor)' <=> settled'[i] # "unset" \/ \E v \in Fan!Running' : worker'[v] = i
             /\ settled'[i] # "unset" => \A v \in Fan!Running' : worker'[v] # i
  <2>1. CASE i = cursor
    BY <1>3, <1>4, <1>5, <2>1 DEF Fan!Items
  <2>2. CASE i # cursor
    <3>1. (i < cursor)' <=> i < cursor
      BY <1>1, <1>5, <2>2 DEF Fan!Items
    <3> QED
      BY <1>3, <1>4, <1>5, <2>2, <3>1 DEF Fan!EachItemOnce, Fan!Items
  <2> QED
    BY <2>1, <2>2
<1> QED
  BY <1>2, <1>6, <1>7 DEF Fan!EachItemOnce

\* What a leaving worker settles nobody has had.
LEMMA LeaveEach ==
  ASSUME Fan!EachItemOnce, NEW w \in DOMAIN worker, Fan!Leave(w)
  PROVE  Fan!EachItemOnce'
<1>1. Size \in Nat /\ Fan!Between \notin Fan!Items /\ Fan!Over \notin Fan!Items /\ cursor \in 1 .. Size + 1
  BY FanOutAssumption DEF Fan!Items, Fan!Between, Fan!Over, Fan!EachItemOnce, Fan!TypeOK
<1>2. Fan!TypeOK'
  BY <1>1 DEF Fan!Leave, Fan!EachItemOnce, Fan!TypeOK, Fan!Items
<1>3. Fan!Running' = Fan!Running /\ \A v \in Fan!Running : worker'[v] = worker[v]
  BY <1>1 DEF Fan!Running, Fan!Leave, Fan!Items, Fan!EachItemOnce, Fan!TypeOK
<1>4. \A v \in Fan!Running : worker[v] \in Fan!Items /\ worker[v] < cursor
  BY DEF Fan!EachItemOnce, Fan!Running
<1>5. ASSUME NEW i \in Fan!Items'
      PROVE  /\ (i < cursor)' <=> settled'[i] # "unset" \/ \E v \in Fan!Running' : worker'[v] = i
             /\ settled'[i] # "unset" => \A v \in Fan!Running' : worker'[v] # i
  <2>1. i \in Fan!Items /\ (i < cursor)'
    BY <1>1 DEF Fan!Leave, Fan!Items
  <2>2. CASE i >= cursor
    BY <1>1, <1>3, <1>4, <2>1, <2>2 DEF Fan!Leave, Fan!Items
  <2>3. CASE i < cursor
    BY <1>1, <1>3, <2>1, <2>3 DEF Fan!Leave, Fan!EachItemOnce, Fan!Items
  <2> QED
    BY <1>1, <2>1, <2>2, <2>3 DEF Fan!Items
<1> QED
  BY <1>2, <1>3, <1>5 DEF Fan!EachItemOnce

LEMMA EachNext == Fan!EachItemOnce /\ [Fan!Next]_(Fan!vars) => Fan!EachItemOnce'
<1> SUFFICES ASSUME Fan!EachItemOnce, [Fan!Next]_(Fan!vars) PROVE Fan!EachItemOnce'
  OBVIOUS
<1>1. ASSUME NEW w \in DOMAIN worker, Fan!ItemOk(w) PROVE Fan!EachItemOnce'
  BY <1>1, EndEach DEF Fan!ItemOk, Fan!EachItemOnce, Fan!TypeOK
<1>2. ASSUME NEW w \in DOMAIN worker, Fan!ItemFails(w) PROVE Fan!EachItemOnce'
  <2>1. aborted' \in BOOLEAN
    BY <1>2 DEF Fan!ItemFails
  <2> QED
    BY <1>2, <2>1, EndEach DEF Fan!ItemFails
<1>3. CASE Fan!Conclude
  <2>1. Fan!Fold(onError).kind \in {"none", "returns", "error", "aggregate"}
    BY FoldKinds DEF Fan!EachItemOnce, Fan!TypeOK
  <2> QED
    BY <1>3, <2>1 DEF Fan!Conclude, Fan!EachItemOnce, Fan!TypeOK, Fan!Running, Fan!Items
<1>4. CASE UNCHANGED Fan!vars
  BY <1>4 DEF Fan!vars, Fan!EachItemOnce, Fan!TypeOK, Fan!Running, Fan!Items
<1> QED
  BY <1>1, <1>2, <1>3, <1>4, PullEach, LeaveEach DEF Fan!Next, Fan!WorkerStep

\* fan-out.ts 65-85, EachItemOnce: the shared cursor hands every item to one
\* worker, and no item is run again, settled while it runs, or left behind.
THEOREM ItemsHandedOutOnce == Fan!Spec => []Fan!EachItemOnce
BY EachInit, EachNext, PTL DEF Fan!Spec

---------------------------------------------------------------------------
(* No hole in what is folded.                                               *)

\* A worker leaves only when the cursor is past the end, and the call ends
\* only when all have left; there is at least one.
NoHole ==
  /\ DOMAIN worker # {}
  /\ (\E w \in DOMAIN worker : worker[w] = Fan!Over) => cursor = Size + 1
  /\ result # Fan!NoResult => \A i \in Fan!Items : settled[i] # "unset"

LEMMA HoleInit == Fan!Init => NoHole
<1> SUFFICES ASSUME Fan!Init PROVE NoHole
  OBVIOUS
<1>1. Fan!Width(concurrency) \in 1 .. Size
  BY FanOutAssumption, WidthInRange DEF Fan!Init
<1> QED
  BY <1>1 DEF Fan!Init, NoHole, Fan!Over

\* When all have left, every item has an outcome.
LEMMA AllSettled ==
  ASSUME Fan!EachItemOnce, NoHole, Fan!Conclude
  PROVE  \A i \in Fan!Items : settled[i] # "unset"
<1>1. Size \in Nat /\ Fan!Over \notin Fan!Items
  BY FanOutAssumption DEF Fan!Items, Fan!Over
<1>2. Fan!Running = {} /\ cursor = Size + 1
  BY <1>1 DEF Fan!Conclude, NoHole, Fan!Running
<1> QED
  BY <1>1, <1>2 DEF Fan!EachItemOnce, Fan!Items

LEMMA HoleNext == Fan!EachItemOnce /\ NoHole /\ [Fan!Next]_(Fan!vars) => NoHole'
<1> SUFFICES ASSUME Fan!EachItemOnce, NoHole, [Fan!Next]_(Fan!vars) PROVE NoHole'
  OBVIOUS
<1>1. Size \in Nat /\ Fan!Between \notin Fan!Items /\ Fan!Over \notin Fan!Items /\ Fan!Between # Fan!Over
  BY FanOutAssumption DEF Fan!Items, Fan!Between, Fan!Over
<1>2. ASSUME NEW w \in DOMAIN worker, Fan!ItemOk(w) \/ Fan!ItemFails(w) PROVE NoHole'
  BY <1>1, <1>2 DEF Fan!ItemOk, Fan!ItemFails, NoHole, Fan!EachItemOnce, Fan!TypeOK, Fan!Items
<1>3. ASSUME NEW w \in DOMAIN worker, Fan!Pull(w) PROVE NoHole'
  BY <1>1, <1>3 DEF Fan!Pull, NoHole, Fan!EachItemOnce, Fan!TypeOK, Fan!Items, Fan!Over
<1>4. ASSUME NEW w \in DOMAIN worker, Fan!Leave(w) PROVE NoHole'
  BY <1>1, <1>4 DEF Fan!Leave, NoHole, Fan!EachItemOnce, Fan!TypeOK, Fan!Items
<1>5. CASE Fan!Conclude
  <2>1. \A i \in Fan!Items : settled[i] # "unset"
    BY <1>5, AllSettled
  <2> QED
    BY <1>5, <2>1 DEF Fan!Conclude, NoHole, Fan!Items
<1>6. CASE UNCHANGED Fan!vars
  BY <1>6 DEF Fan!vars, NoHole, Fan!Items
<1> QED
  BY <1>2, <1>3, <1>4, <1>5, <1>6 DEF Fan!Next, Fan!WorkerStep

---------------------------------------------------------------------------
(* What is folded.                                                          *)

Sorted(S) ==
  [n \in 1 .. Cardinality(S) |-> CHOOSE i \in S : Cardinality({k \in S : k <= i}) = n]

LEMMA AscendingIsSorted == \A S : Fan!Ascending(S) = Sorted(S)
BY DEF Fan!Ascending, Fan!Cardinality, Sorted, Cardinality

\* A sequence that lists the members of a set by a rank that grows with them.
LEMMA RankedInOrder ==
  ASSUME NEW S \in SUBSET Int, NEW N \in Nat, NEW r \in [S -> 1 .. N],
         \A i, k \in S : i < k => r[i] < r[k],
         NEW a, DOMAIN a = 1 .. N, \A n \in 1 .. N : a[n] \in S /\ r[a[n]] = n
  PROVE  /\ {a[n] : n \in DOMAIN a} = S
         /\ \A n, m \in DOMAIN a : n < m => a[n] < a[m]
<1>1. \A i, k \in S : r[i] = r[k] => i = k
  <2> SUFFICES ASSUME NEW i \in S, NEW k \in S, r[i] = r[k], i # k PROVE FALSE
    OBVIOUS
  <2>1. r[i] \in Int /\ r[k] \in Int /\ ~(r[i] < r[k]) /\ ~(r[k] < r[i])
    OBVIOUS
  <2>2. i < k \/ k < i
    OBVIOUS
  <2> QED
    BY <2>1, <2>2
<1>2. \A i \in S : a[r[i]] = i
  BY <1>1
<1>3. {a[n] : n \in DOMAIN a} = S
  <2>1. \A n \in DOMAIN a : a[n] \in S
    OBVIOUS
  <2>2. \A i \in S : r[i] \in DOMAIN a
    OBVIOUS
  <2>3. \A i \in S : i \in {a[n] : n \in DOMAIN a}
    BY <1>2, <2>2, Zenon
  <2>4. \A x \in {a[n] : n \in DOMAIN a} : x \in S
    BY <2>1, Zenon
  <2> QED
    BY <2>3, <2>4, Zenon
<1>4. ASSUME NEW n \in 1 .. N, NEW m \in 1 .. N, n < m PROVE a[n] < a[m]
  <2>1. a[n] \in S /\ a[m] \in S /\ r[a[n]] = n /\ r[a[m]] = m
    OBVIOUS
  <2>2. n \in Int /\ m \in Int /\ n # m /\ ~(m < n)
    BY <1>4
  <2>3. a[n] # a[m] /\ ~(a[m] < a[n])
    BY <2>1, <2>2
  <2>4. a[n] \in Int /\ a[m] \in Int
    BY <2>1
  <2> QED
    BY <2>3, <2>4
<1> QED
  BY <1>3, <1>4

\* The members of a finite set of integers in order, by counting them instead
\* of going through them one by one: their ranks are distinct and there are as
\* many ranks as members, so every rank is some member's.
LEMMA SortedInOrder ==
  ASSUME NEW S \in SUBSET Int, IsFiniteSet(S)
  PROVE  /\ DOMAIN Sorted(S) = 1 .. Cardinality(S)
         /\ {Sorted(S)[n] : n \in DOMAIN Sorted(S)} = S
         /\ \A n, m \in DOMAIN Sorted(S) : n < m => Sorted(S)[n] < Sorted(S)[m]
<1> DEFINE Upto(i) == {k \in S : k <= i}
           r == [i \in S |-> Cardinality(Upto(i))]
           N == Cardinality(S)
<1>1. N \in Nat /\ \A i \in S : IsFiniteSet(Upto(i)) /\ r[i] \in Nat /\ r[i] <= N
  <2>1. ASSUME NEW i \in S PROVE IsFiniteSet(Upto(i)) /\ r[i] \in Nat /\ r[i] <= N
    <3>1. Upto(i) \in SUBSET S
      OBVIOUS
    <3> QED
      BY <3>1, FS_Subset, FS_CardinalityType
  <2> QED
    BY <2>1, FS_CardinalityType
<1>2. ASSUME NEW i \in S PROVE r[i] # 0
  <2>1. i \in Upto(i)
    OBVIOUS
  <2> QED
    BY <1>1, <2>1, FS_EmptySet
<1>3. ASSUME NEW i \in S, NEW k \in S, i < k PROVE r[i] < r[k]
  <2>1. i \in Int /\ k \in Int
    OBVIOUS
  <2>2. \A j \in Upto(i) : j \in Int /\ j <= i
    OBVIOUS
  <2>3. Upto(i) \in SUBSET Upto(k)
    <3>1. \A j \in Upto(i) : j <= k
      BY <1>3, <2>1, <2>2
    <3> QED
      BY <3>1
  <2>4. k \in Upto(k) /\ k \notin Upto(i)
    BY <1>3, <2>1
  <2>5. r[i] <= r[k] /\ r[i] # r[k]
    BY <1>1, <2>3, <2>4, FS_Subset
  <2>6. r[i] \in Nat /\ r[k] \in Nat
    BY <1>1
  <2> QED
    BY <2>5, <2>6
<1>4. r \in [S -> 1 .. N]
  BY <1>1, <1>2
<1>5. \A n \in 1 .. N : \E i \in S : r[i] = n
  <2>1. \A i, k \in S : r[i] = r[k] => i = k
    <3> SUFFICES ASSUME NEW i \in S, NEW k \in S, r[i] = r[k], i # k PROVE FALSE
      OBVIOUS
    <3>1. i < k \/ k < i
      OBVIOUS
    <3>2. r[i] \in Nat /\ r[k] \in Nat
      BY <1>1
    <3> HIDE DEF r
    <3> QED
      BY <1>3, <3>1, <3>2
  <2>2. IsFiniteSet(1 .. N) /\ Cardinality(1 .. N) = N
    BY <1>1, FS_Interval
  <2> HIDE DEF r
  <2>3. r \in Injection(S, 1 .. N)
    BY <1>4, <2>1 DEF Injection, IsInjective
  <2>4. r \in Surjection(S, 1 .. N)
    BY <2>2, <2>3, FS_Injection
  <2> QED
    BY <2>4 DEF Surjection
<1>6. /\ DOMAIN Sorted(S) = 1 .. N
      /\ \A n \in 1 .. N : Sorted(S)[n] \in S /\ r[Sorted(S)[n]] = n
  <2>1. \A n \in 1 .. N : \E i \in S : Cardinality(Upto(i)) = n
    BY <1>5
  <2>2. \A n \in 1 .. N : Sorted(S)[n] = CHOOSE i \in S : Cardinality(Upto(i)) = n
    BY DEF Sorted
  <2>3. \A n \in 1 .. N : Sorted(S)[n] \in S /\ Cardinality(Upto(Sorted(S)[n])) = n
    BY <2>1, <2>2
  <2> QED
    BY <2>3 DEF Sorted
<1> HIDE DEF r, N
<1>7. /\ {Sorted(S)[n] : n \in DOMAIN Sorted(S)} = S
      /\ \A n, m \in DOMAIN Sorted(S) : n < m => Sorted(S)[n] < Sorted(S)[m]
  BY <1>1, <1>3, <1>4, <1>6, RankedInOrder
<1> QED
  BY <1>6, <1>7 DEF N

\* What ResultIsFaithful says of a result, once it is there.
Faithful(f) ==
  LET shown == {f.items[i] : i \in DOMAIN f.items}
  IN /\ f.kind = "error" =>
          /\ Fan!Ok = {}
          /\ onError = "throw-fast" \/ (onError = "throw" /\ Size = 1)
          /\ \E i \in Fan!Items : settled[i] = "error" /\ f.items = <<i>>
     /\ f.kind = "aggregate" => shown = Fan!Items \ Fan!Ok /\ f.partial = Fan!Ok
     /\ f.kind = "returns" =>
          /\ Fan!Ok = Fan!Items \/ onError \in {"null", "skip", "settled"}
          /\ shown \ {0} = IF onError = "settled" THEN Fan!Items ELSE Fan!Ok
          /\ \A i, k \in DOMAIN f.items :
               i < k /\ f.items[i] # 0 /\ f.items[k] # 0 => f.items[i] < f.items[k]
     /\ f.kind = "returns" /\ onError # "skip" => DOMAIN f.items = Fan!Items

\* An item is left out only because an item before it failed: aborts are not
\* lost, and the items they leave out come after the cursor.
Genuine ==
  /\ aborted => \E k \in Fan!Items : k < cursor /\ settled[k] = "error"
  /\ \A i \in Fan!Items : settled[i] = "cancelled" =>
       \E k \in Fan!Items : k < i /\ settled[k] = "error"

LEMMA GenuineNext == Fan!EachItemOnce /\ Genuine /\ [Fan!Next]_(Fan!vars) => Genuine'
<1> SUFFICES ASSUME Fan!EachItemOnce, Genuine, [Fan!Next]_(Fan!vars) PROVE Genuine'
  OBVIOUS
<1>1. Fan!Items' = Fan!Items /\ Fan!Items \in SUBSET Int /\ cursor \in Int /\ Fan!Between \notin Fan!Items
  BY FanOutAssumption DEF Fan!Items, Fan!Between, Fan!EachItemOnce, Fan!TypeOK
<1>2. ASSUME NEW w \in DOMAIN worker, Fan!ItemOk(w) \/ Fan!ItemFails(w) PROVE Genuine'
  <2>1. worker[w] \in Fan!Items /\ settled[worker[w]] = "unset" /\ worker[w] < cursor
    BY <1>2 DEF Fan!ItemOk, Fan!ItemFails, Fan!EachItemOnce, Fan!Running
  <2>2. \E word \in {"ok", "error"} :
          /\ settled' = [settled EXCEPT ![worker[w]] = word]
          /\ word = "ok" => aborted' = aborted
    BY <1>2 DEF Fan!ItemOk, Fan!ItemFails
  <2>3. cursor' = cursor /\ settled \in [Fan!Items -> {"unset", "ok", "error", "cancelled"}]
    BY <1>2 DEF Fan!ItemOk, Fan!ItemFails, Fan!EachItemOnce, Fan!TypeOK
  <2>4. CASE settled' = [settled EXCEPT ![worker[w]] = "error"]
    <3>1. \A i \in Fan!Items : settled'[i] = IF i = worker[w] THEN "error" ELSE settled[i]
      BY <2>3, <2>4
    <3>2. worker[w] < cursor' /\ settled'[worker[w]] = "error"
      BY <2>1, <2>3, <3>1
    <3>3. ASSUME NEW i \in Fan!Items, settled'[i] = "cancelled"
          PROVE  \E k \in Fan!Items : k < i /\ settled'[k] = "error"
      <4>1. PICK k \in Fan!Items : k < i /\ settled[k] = "error"
        BY <3>1, <3>3 DEF Genuine
      <4> QED
        BY <3>1, <4>1
    <3> QED
      BY <1>1, <2>1, <3>2, <3>3 DEF Genuine
  <2>5. CASE settled' = [settled EXCEPT ![worker[w]] = "ok"] /\ aborted' = aborted
    <3>1. \A i \in Fan!Items : settled'[i] = IF i = worker[w] THEN "ok" ELSE settled[i]
      BY <2>3, <2>5
    <3> QED
      BY <1>1, <2>1, <2>3, <2>5, <3>1 DEF Genuine
  <2> QED
    BY <2>2, <2>4, <2>5
<1>3. ASSUME NEW w \in DOMAIN worker, Fan!Pull(w) PROVE Genuine'
  BY <1>1, <1>3 DEF Fan!Pull, Genuine
<1>4. ASSUME NEW w \in DOMAIN worker, Fan!Leave(w) PROVE Genuine'
  <2>1. /\ aborted \/ cursor > Size
        /\ settled' = [i \in Fan!Items |-> IF i >= cursor THEN "cancelled" ELSE settled[i]]
        /\ cursor' = Size + 1 /\ aborted' = aborted
    BY <1>4 DEF Fan!Leave
  <2>2. \A k \in Fan!Items : k < Size + 1 /\ k \in Int
    BY FanOutAssumption DEF Fan!Items
  <2> QED
    BY <1>1, <2>1, <2>2, FanOutAssumption DEF Genuine
<1>5. CASE Fan!Conclude \/ UNCHANGED Fan!vars
  BY <1>1, <1>5 DEF Fan!Conclude, Fan!vars, Genuine
<1> QED
  BY <1>2, <1>3, <1>4, <1>5 DEF Fan!Next, Fan!WorkerStep

LEMMA OkFinite ==
  /\ Fan!Ok \in SUBSET Fan!Items /\ IsFiniteSet(Fan!Ok) /\ Fan!Ok \in SUBSET Int
  /\ IsFiniteSet(Fan!Items \ Fan!Ok) /\ Fan!Items \ Fan!Ok \in SUBSET Int
<1>1. Fan!Ok \in SUBSET Fan!Items /\ Fan!Items \in SUBSET Int
  BY DEF Fan!Ok, Fan!Items
<1>2. IsFiniteSet(Fan!Items)
  BY FanOutAssumption, FS_Interval DEF Fan!Items
<1> QED
  BY <1>1, <1>2, FS_Subset

\* The first item that did not end well has failed itself.
LEMMA FirstFailedIsGenuine ==
  ASSUME Genuine, Fan!Ok # Fan!Items,
         \A i \in Fan!Items : settled[i] \in {"ok", "error", "cancelled"}
  PROVE  Fan!FirstFailed \in Fan!Items /\ settled[Fan!FirstFailed] = "error"
<1> DEFINE S == Fan!Items \ Fan!Ok
<1>1. S # {} /\ S \in SUBSET Int /\ IsFiniteSet(S)
  BY OkFinite
<1>2. \E i \in S : \A k \in S : i <= k
  <2> DEFINE a == Sorted(S)
  <2>1. /\ DOMAIN a = 1 .. Cardinality(S) /\ {a[n] : n \in DOMAIN a} = S
        /\ \A n, m \in DOMAIN a : n < m => a[n] < a[m]
    BY <1>1, SortedInOrder
  <2>2. Cardinality(S) \in Nat
    BY <1>1, FS_CardinalityType
  <2> HIDE DEF a, S
  <2>5. DOMAIN a # {} /\ \A n \in DOMAIN a : a[n] \in S
    BY <1>1, <2>1
  <2>3. 1 \in DOMAIN a /\ \A n \in DOMAIN a : n = 1 \/ 1 < n
    BY <2>1, <2>2, <2>5
  <2>4. a[1] \in S /\ \A n \in DOMAIN a : a[1] <= a[n]
    <3>1. \A n \in DOMAIN a : a[n] \in Int
      BY <1>1, <2>5
    <3>2. \A n \in DOMAIN a : n = 1 \/ a[1] < a[n]
      BY <2>1, <2>3
    <3> QED
      BY <2>3, <2>5, <3>1, <3>2
  <2> QED
    BY <2>1, <2>4
<1>3. Fan!FirstFailed \in S /\ \A k \in S : Fan!FirstFailed <= k
  BY <1>2 DEF Fan!FirstFailed
<1>4. ASSUME settled[Fan!FirstFailed] = "cancelled" PROVE FALSE
  <2>1. PICK k \in Fan!Items : k < Fan!FirstFailed /\ settled[k] = "error"
    BY <1>3, <1>4 DEF Genuine
  <2>2. k \in S
    BY <2>1 DEF Fan!Ok
  <2> QED
    BY <1>1, <1>3, <2>1, <2>2
<1> QED
  BY <1>3, <1>4 DEF Fan!Ok

\* Every strategy's result is faithful: by strategy.
LEMMA FoldFaithful ==
  ASSUME onError \in Strategies, Genuine,
         \A i \in Fan!Items : settled[i] \in {"ok", "error", "cancelled"}
  PROVE  Faithful(Fan!Fold(onError))
<1> DEFINE s == onError
<1> DEFINE f == Fan!Fold(s)
<1>1. s \in {"throw", "throw-fast", "null", "skip", "settled"}
  BY FanOutAssumption
<1>2. ASSUME Fan!Ok = Fan!Items \/ s = "settled" PROVE Faithful(Fan!Returns(Fan!InOrder))
  <2>1. DOMAIN Fan!InOrder = Fan!Items /\ \A i \in Fan!Items : Fan!InOrder[i] = i
    BY DEF Fan!InOrder
  <2>2. {Fan!InOrder[i] : i \in DOMAIN Fan!InOrder} = Fan!Items
    BY <2>1
  <2>3. 0 \notin Fan!Items
    BY DEF Fan!Items
  <2> QED
    BY <1>2, <2>1, <2>2, <2>3, OkFinite DEF Faithful, Fan!Returns
<1>3. Faithful(Fan!Aggregate)
  <2> DEFINE a == Fan!Ascending(Fan!Items \ Fan!Ok)
  <2>1. {a[i] : i \in DOMAIN a} = Fan!Items \ Fan!Ok
    BY OkFinite, SortedInOrder, AscendingIsSorted
  <2>2. /\ Fan!Aggregate.kind = "aggregate" /\ Fan!Aggregate.items = a
        /\ Fan!Aggregate.partial = Fan!Ok
    BY DEF Fan!Aggregate
  <2> HIDE DEF a
  <2> QED
    BY <2>1, <2>2 DEF Faithful
<1>4. ASSUME Fan!Ok = {}, Fan!Ok # Fan!Items, s = "throw-fast" \/ (s = "throw" /\ Size = 1)
      PROVE  Faithful(Fan!ThrowsOne(Fan!FirstFailed))
  BY <1>4, FirstFailedIsGenuine DEF Faithful, Fan!ThrowsOne
<1>5. CASE Fan!Ok = Fan!Items
  <2>1. f = Fan!Returns(Fan!InOrder)
    BY <1>5 DEF Fan!Fold
  <2> QED
    BY <1>2, <1>5, <2>1
<1>6. CASE Fan!Ok # Fan!Items /\ s \in {"throw", "throw-fast"}
  <2>1. \/ f = Fan!Aggregate
        \/ s = "throw-fast" /\ Fan!Ok = {} /\ f = Fan!ThrowsOne(Fan!FirstFailed)
        \/ s = "throw" /\ Size = 1 /\ Fan!Ok = {} /\ f = Fan!ThrowsOne(1)
    BY <1>6 DEF Fan!Fold
  <2>2. Size = 1 => Fan!FirstFailed = 1
    BY <1>6, FirstFailedIsGenuine DEF Fan!Items
  <2> QED
    BY <1>3, <1>4, <1>6, <2>1, <2>2
<1>7. CASE Fan!Ok # Fan!Items /\ s = "null"
  <2> DEFINE n == [i \in Fan!Items |-> IF i \in Fan!Ok THEN i ELSE 0]
  <2>1. f = Fan!Returns(n)
    BY <1>7 DEF Fan!Fold
  <2>2. /\ f.kind = "returns" /\ f.items = n
    BY <2>1 DEF Fan!Returns
  <2>3. DOMAIN n = Fan!Items /\ \A i \in Fan!Ok : i \in DOMAIN n /\ n[i] = i /\ i # 0
    BY OkFinite DEF Fan!Items
  <2>4. \A i \in DOMAIN n : n[i] # 0 => n[i] = i /\ i \in Fan!Ok
    OBVIOUS
  <2>6. {n[i] : i \in DOMAIN n} \ {0} = Fan!Ok
    BY <2>3, <2>4
  <2> HIDE DEF n, f
  <2>5. Faithful(f)
    BY <1>7, <2>2, <2>3, <2>4, <2>6 DEF Faithful
  <2> QED
    BY <2>5 DEF f
<1>8. CASE Fan!Ok # Fan!Items /\ s = "skip"
  <2> DEFINE a == Fan!Ascending(Fan!Ok)
  <2>1. f = Fan!Returns(a)
    BY <1>8 DEF Fan!Fold
  <2>2. /\ f.kind = "returns" /\ f.items = a
    BY <2>1 DEF Fan!Returns
  <2>3. /\ {a[i] : i \in DOMAIN a} = Fan!Ok
        /\ \A i, k \in DOMAIN a : i < k => a[i] < a[k]
    <3>1. a = Sorted(Fan!Ok) /\ IsFiniteSet(Fan!Ok) /\ Fan!Ok \in SUBSET Int
      BY OkFinite, AscendingIsSorted
    <3> HIDE DEF a
    <3> QED
      BY <3>1, SortedInOrder
  <2>5. 0 \notin Fan!Ok
    BY OkFinite DEF Fan!Items
  <2> HIDE DEF a, f
  <2>4. Faithful(f)
    BY <1>8, <2>2, <2>3, <2>5 DEF Faithful
  <2> QED
    BY <2>4 DEF f
<1>9. CASE Fan!Ok # Fan!Items /\ s = "settled"
  <2>1. f = Fan!Returns(Fan!InOrder)
    BY <1>9 DEF Fan!Fold
  <2> QED
    BY <1>2, <1>9, <2>1
<1> QED
  BY <1>1, <1>5, <1>6, <1>7, <1>8, <1>9

\* Nothing is settled once there is a result.
Folded ==
  /\ Fan!EachItemOnce /\ NoHole /\ Genuine
  /\ result # Fan!NoResult => \A w \in DOMAIN worker : worker[w] = Fan!Over
  /\ Faithful(result)

LEMMA FoldedInit == Fan!Init => Folded
<1> SUFFICES ASSUME Fan!Init PROVE Folded
  OBVIOUS
<1>1. result = Fan!NoResult /\ result.kind = "none"
  BY DEF Fan!Init, Fan!NoResult
<1>2. Faithful(result)
  BY <1>1 DEF Faithful
<1>3. Genuine
  BY DEF Fan!Init, Genuine
<1> QED
  BY <1>1, <1>2, <1>3, EachInit, HoleInit DEF Folded

LEMMA FoldedNext == Folded /\ [Fan!Next]_(Fan!vars) => Folded'
<1> SUFFICES ASSUME Folded, [Fan!Next]_(Fan!vars) PROVE Folded'
  OBVIOUS
<1>1. Fan!EachItemOnce' /\ NoHole' /\ Genuine'
  BY EachNext, HoleNext, GenuineNext DEF Folded
<1>2. ASSUME NEW w \in DOMAIN worker, Fan!WorkerStep(w) PROVE Folded'
  <2>1. worker[w] # Fan!Over
    BY <1>2, FanOutAssumption DEF Fan!WorkerStep, Fan!ItemOk, Fan!ItemFails, Fan!Pull, Fan!Leave,
                                  Fan!Items, Fan!Between, Fan!Over
  <2>2. result = Fan!NoResult
    BY <2>1 DEF Folded
  <2>3. result' = Fan!NoResult /\ Fan!NoResult.kind = "none"
    BY <1>2, <2>2 DEF Fan!WorkerStep, Fan!ItemOk, Fan!ItemFails, Fan!Pull, Fan!Leave, Fan!NoResult
  <2>4. Faithful(result)'
    BY <2>3 DEF Faithful
  <2> QED
    BY <1>1, <2>3, <2>4 DEF Folded
<1>3. CASE Fan!Conclude
  <2>1. onError \in Strategies
    BY DEF Folded, Fan!EachItemOnce, Fan!TypeOK
  <2>2. \A i \in Fan!Items : settled[i] \in {"ok", "error", "cancelled"}
    BY <1>3, AllSettled DEF Folded, Fan!EachItemOnce, Fan!TypeOK
  <2>6. Faithful(Fan!Fold(onError))
    BY <2>1, <2>2, FoldFaithful DEF Folded
  <2>3. result' = Fan!Fold(onError) /\ UNCHANGED <<settled, worker, onError>>
        /\ \A w \in DOMAIN worker : worker[w] = Fan!Over
    BY <1>3 DEF Fan!Conclude
  <2>4. Fan!Ok' = Fan!Ok
    BY <2>3 DEF Fan!Ok
  <2>5. Faithful(result)'
    BY <2>3, <2>4, <2>6 DEF Faithful, Fan!Items
  <2> QED
    BY <1>1, <2>3, <2>5 DEF Folded
<1>4. CASE UNCHANGED Fan!vars
  <2>1. Fan!Ok' = Fan!Ok /\ UNCHANGED <<result, worker, settled, onError>>
    BY <1>4 DEF Fan!vars, Fan!Ok
  <2>2. Faithful(result)'
    BY <2>1 DEF Folded, Faithful, Fan!Items
  <2> QED
    BY <1>1, <2>1, <2>2 DEF Folded
<1> QED
  BY <1>2, <1>3, <1>4 DEF Fan!Next

\* fan-out.ts 87-133, ResultIsFaithful: when the outcomes are folded every item
\* has one, however early a worker left and whenever the abort came; and by
\* every strategy the result keeps the items' order, has every value that came
\* and of the failures what the strategy is to show; a single error that is
\* thrown is a function's own.
THEOREM FaithfulFold == Fan!Spec => []Fan!ResultIsFaithful
<1>1. Folded => Fan!ResultIsFaithful
  BY DEF Folded, NoHole, Faithful, Fan!ResultIsFaithful
<1> QED
  BY <1>1, FoldedInit, FoldedNext, PTL DEF Fan!Spec

-----------------------------------------------------------------------------
(***************************************************************************)
(* LoaderOnlyPool is a LoaderPool and a FanOut at once: its steps are steps*)
(* or stutters of each.  What is proved of the two therefore holds of      *)
(* map, for every number of items and every cap.                           *)
(***************************************************************************)

\* Each step is one of dispatchWithResilience and LoaderRunner, or changes
\* nothing of theirs.
LEMMA StepOfLoaderPool == [PoolNext]_poolVars => [Next]_vars
<1> SUFFICES ASSUME [PoolNext]_poolVars PROVE [Next]_vars
  OBVIOUS
<1>1. CASE RunOnce
  BY <1>1 DEF RunOnce, Next, CallStep
<1>2. CASE CancelToken
  BY <1>2 DEF CancelToken, Next
<1>3. CASE CallMoves
  BY <1>3 DEF CallMoves, Timer, Next, CallStep
<1>4. CASE FanStep
  BY <1>4 DEF FanStep, ItemEnds, WorkerTurn, MapEnds
<1>5. CASE UNCHANGED poolVars
  BY <1>5 DEF poolVars
<1> QED
  BY <1>1, <1>2, <1>3, <1>4, <1>5 DEF PoolNext

\* Each step is one of runFanOut, or changes nothing of its state.
LEMMA StepOfFanOut == [PoolNext]_poolVars => [Fan!Next]_(Fan!vars)
<1> SUFFICES ASSUME [PoolNext]_poolVars PROVE [Fan!Next]_(Fan!vars)
  OBVIOUS
<1>1. CASE UNCHANGED fanVars
  BY <1>1 DEF fanVars, Fan!vars
<1>2. CASE FanStep
  BY <1>2 DEF FanStep, ItemEnds, WorkerTurn, MapEnds, Fan!Next, Fan!WorkerStep
<1> QED
  BY <1>1, <1>2 DEF PoolNext, RunOnce, CancelToken, CallMoves, poolVars, fanVars

LEMMA PoolIsFanOut == PoolSpec => Fan!Spec
<1>1. PoolInit => Fan!Init
  BY DEF PoolInit
<1> QED
  BY <1>1, StepOfFanOut, PTL DEF PoolSpec, Fan!Spec

\* loader-budget.ts 105-132, TypeOK, PermitsConserved and WaitersServed: the
\* semaphore keeps its permits and its queue under the calls map makes.
THEOREM MapKeepsPermits == PoolSpec => [](TypeOK /\ PermitsConserved /\ WaitersServed)
<1>1. PoolSpec => Spec
  BY StepOfLoaderPool, PTL DEF PoolSpec, PoolInit, Spec
<1> QED
  BY <1>1, SemaphoreInvariant, PTL

\* rpc-client.ts 97-103, OneTaskPerCall: no item's function runs twice at a
\* time.
THEOREM MapRunsItemsOneAttemptAtATime == PoolSpec => []OneTaskPerCall
<1>1. PoolSpec => Spec
  BY StepOfLoaderPool, PTL DEF PoolSpec, PoolInit, Spec
<1> QED
  BY <1>1, NoOverlappingAttempts, PTL

\* fan-out.ts 65-85, EachItemOnce: the cursor hands every item of map to one
\* worker, whatever the calls of the items do.
THEOREM MapHandsOutItemsOnce == PoolSpec => []EachItemOnce
BY PoolIsFanOut, ItemsHandedOutOnce, PTL DEF EachItemOnce

\* fan-out.ts 87-133, ResultIsFaithful: what map resolves or rejects with is
\* faithful to what became of its items.
THEOREM MapResultFaithful == PoolSpec => []ResultIsFaithful
BY PoolIsFanOut, FaithfulFold, PTL DEF ResultIsFaithful
=============================================================================
