------------------------------- MODULE Actor -------------------------------
(***************************************************************************)
(* An actor: handles (api/actor.ts) that seed, use and close one state,    *)
(* which a coordinator object keeps in its storage (coordinator.ts,        *)
(* actorEnsureInitialized, actorSubmit, actorClose).                       *)
(*                                                                         *)
(* actorSubmit reads the state, runs the function on it in a loaded        *)
(* isolate, and writes the state the function left; nothing keeps other    *)
(* submits out in between.  Storage calls do let nobody in: the runtime    *)
(* holds events back while one is under way, so a step of the object       *)
(* reaches from one call of an isolate to the next.  Its writes are        *)
(* unconfirmed: answers do not wait for them, and a crash loses the last   *)
(* of them.                                                                *)
(***************************************************************************)
EXTENDS Integers, Sequences, FiniteSets, SequencesExt

CONSTANTS
  Handles,     \* handles of the actor, each with its own initialState
  Submits,     \* calls of submit, each made once
  HandleOf,    \* the handle of each
  Retries,     \* options.retries of each
  Timed,       \* submits with a timeout, deadline or token that may fire
  Orderly,     \* bound: handles closed only when none of their submits is
               \* under way, and not used again before close returns
  MaxCloses,   \* bound: calls of close
  MaxCrashes,  \* bound: crashes of the object
  MaxCuts,     \* bound: calls that fail or time out while the object lives
  MaxEvents    \* bound: the three together

ASSUME ActorAssumption ==
  /\ HandleOf \in [Submits -> Handles] /\ "none" \notin Handles
  /\ Retries \in [Submits -> Nat]
  /\ Timed \subseteq Submits /\ Orderly \subseteq Handles
  /\ {MaxCloses, MaxCrashes, MaxCuts, MaxEvents} \subseteq Nat

VARIABLES
  log,       \* what the storage held since the last confirmed write: reads
             \* see the last entry, and the disk has one of them
  run,       \* the actorSubmit of each attempt of each submit
  known,     \* #initialized of each handle
  at,        \* where each submit is
  attempt,   \* its attempt
  outcome,   \* what it settled with
  closing,   \* where each handle's call of close is
  version,   \* writes so far
  closes,    \* the deletions so far: the handle and the version of each
  crashes,   \* crashes so far
  cuts       \* failed and timed-out calls so far

object == <<log, run, version>>
client == <<known, at, attempt, outcome>>
bounds == <<closes, crashes, cuts>>
vars == <<object, client, closing, bounds>>

Pending == {h \in Handles : closing[h] = "sent"}

\* The bounds on events.
MayClose == Len(closes) + Cardinality(Pending) < MaxCloses

MayCrash == crashes < MaxCrashes

MayCut == cuts < MaxCuts

MoreEvents == Len(closes) + Cardinality(Pending) + crashes + cuts < MaxEvents

Runs == UNION {{s} \X (0 .. Retries[s]) : s \in Submits}

\* The state: whose initialState it grew from, if any, and the runs whose
\* changes it has.  Fresh is what `?? {}` makes of a missing key.
Fresh == [seed |-> "none", applied |-> {}]

Seed(h) == [seed |-> h, applied |-> {}]

Empty == [state |-> Fresh, flag |-> FALSE]

Stored == Last(log)

NotRun == [at |-> "none", read |-> Fresh, readAt |-> 0, wroteAt |-> 0]

Init ==
  /\ log = <<Empty>>
  /\ run = [r \in Runs |-> NotRun]
  /\ known = [h \in Handles |-> FALSE]
  /\ at = [s \in Submits |-> "idle"]
  /\ attempt = [s \in Submits |-> 0]
  /\ outcome = [s \in Submits |-> "none"]
  /\ closing = [h \in Handles |-> "idle"]
  /\ version = 0
  /\ closes = <<>>
  /\ crashes = 0
  /\ cuts = 0

-----------------------------------------------------------------------------
(* The handle.                                                              *)

\* One turn of dispatchWithResilience.
Send(s, n) ==
  /\ run' = [run EXCEPT ![<<s, n>>].at = "sent"]
  /\ at' = [at EXCEPT ![s] = "racing"]
  /\ attempt' = [attempt EXCEPT ![s] = n]

Settle(s, out) ==
  /\ at' = [at EXCEPT ![s] = "done"]
  /\ outcome' = [outcome EXCEPT ![s] = out]

Submit(s) ==
  /\ at[s] = "idle"
  /\ HandleOf[s] \in Orderly => closing[HandleOf[s]] = "idle"
  /\ IF known[HandleOf[s]]
     THEN Send(s, 0)
     ELSE at' = [at EXCEPT ![s] = "ensuring"] /\ UNCHANGED <<run, attempt>>
  /\ UNCHANGED <<log, version, known, outcome, closing, bounds>>

EnsureReturns(s) ==
  /\ at[s] = "ensured"
  /\ known' = [known EXCEPT ![HandleOf[s]] = TRUE]
  /\ Send(s, 0)
  /\ UNCHANGED <<log, version, outcome, closing, bounds>>

\* The call that seeds is not retried.  Once it has returned the handle is
\* marked, and making the request (the function's source, the deadline of the
\* envelope) may still throw.
EnsureFails(s) ==
  /\ at[s] \in {"ensuring", "ensured"}
  /\ MayCut /\ MoreEvents
  /\ cuts' = cuts + 1
  /\ Settle(s, "failed")
  /\ \/ UNCHANGED known
     \/ at[s] = "ensured" /\ known' = [known EXCEPT ![HandleOf[s]] = TRUE]
  /\ UNCHANGED <<object, attempt, closing, closes, crashes>>

Current(s) == <<s, attempt[s]>>

AnswerArrives(s) ==
  /\ at[s] = "racing"
  /\ run[Current(s)].at \in {"ok", "thrown"}
  /\ Settle(s, run[Current(s)].at)
  /\ UNCHANGED <<object, known, attempt, closing, bounds>>

\* The call is cut off, and is retried while attempts are left unless its error
\* is not a retryable one.  A request that has not arrived may be lost with it
\* or arrive later.
CallFails(s) ==
  /\ at[s] = "racing"
  /\ IF run[Current(s)].at = "dead" THEN UNCHANGED cuts
     ELSE MayCut /\ MoreEvents /\ cuts' = cuts + 1
  /\ \/ UNCHANGED run
     \/ run[Current(s)].at = "sent" /\ run' = [run EXCEPT ![Current(s)].at = "dead"]
  /\ \/ attempt[s] < Retries[s] /\ at' = [at EXCEPT ![s] = "backoff"] /\ UNCHANGED outcome
     \/ Settle(s, "failed")
  /\ UNCHANGED <<log, version, known, attempt, closing, closes, crashes>>

BackoffEnds(s) ==
  /\ at[s] = "backoff"
  /\ Send(s, attempt[s] + 1)
  /\ UNCHANGED <<log, version, known, outcome, closing, bounds>>

\* A timeout, deadline or cancel is not retried; the run goes on.
TimeoutFires(s) ==
  /\ s \in Timed /\ at[s] = "racing"
  /\ MayCut /\ MoreEvents
  /\ cuts' = cuts + 1
  /\ Settle(s, "timeout")
  /\ UNCHANGED <<object, known, attempt, closing, closes, crashes>>

UnderWay(h) ==
  \/ \E s \in Submits : HandleOf[s] = h /\ at[s] \notin {"idle", "done"}
  \/ \E r \in Runs : HandleOf[r[1]] = h /\ run[r].at \in {"sent", "running"}

Close(h) ==
  /\ closing[h] = "idle"
  /\ h \in Orderly => ~ UnderWay(h)
  /\ MayClose /\ MoreEvents
  /\ closing' = [closing EXCEPT ![h] = "sent"]
  /\ UNCHANGED <<object, client, bounds>>

\* Wrong: the handle still takes the actor for initialized.
CloseKeepsKnown(h) ==
  /\ closing[h] = "closed"
  /\ closing' = [closing EXCEPT ![h] = "idle"]
  /\ UNCHANGED <<object, client, bounds>>

CloseReturns(h) ==
  /\ closing[h] = "closed"
  /\ closing' = [closing EXCEPT ![h] = "idle"]
  /\ known' = [known EXCEPT ![h] = FALSE]
  /\ UNCHANGED <<object, at, attempt, outcome, bounds>>

\* close rejects, before or after the state was deleted.
CloseFails(h) ==
  /\ closing[h] \in {"sent", "closed"}
  /\ MayCut /\ MoreEvents
  /\ cuts' = cuts + 1
  /\ closing' = [closing EXCEPT ![h] = "idle"]
  /\ UNCHANGED <<object, client, closes, crashes>>

-----------------------------------------------------------------------------
(* The object.                                                              *)

\* Wrong: the flag is written before the state.
SeedingFlagFirst(h) ==
  <<[Stored EXCEPT !.flag = TRUE], [state |-> Seed(h), flag |-> TRUE]>>

\* Two writes, in this order.
Seeding(h) ==
  <<[Stored EXCEPT !.state = Seed(h)], [state |-> Seed(h), flag |-> TRUE]>>

\* Wrong: seeds whatever is there.
ActorReseeds(s) ==
  /\ at[s] = "ensuring"
  /\ at' = [at EXCEPT ![s] = "ensured"]
  /\ log' = log \o Seeding(HandleOf[s]) /\ version' = version + 1
  /\ UNCHANGED <<run, known, attempt, outcome, closing, bounds>>

ActorEnsureInitialized(s) ==
  /\ at[s] = "ensuring"
  /\ at' = [at EXCEPT ![s] = "ensured"]
  /\ IF Stored.flag THEN UNCHANGED <<log, version>>
     ELSE log' = log \o Seeding(HandleOf[s]) /\ version' = version + 1
  /\ UNCHANGED <<run, known, attempt, outcome, closing, bounds>>

\* actorSubmit up to the call of the isolate.
ActorSubmitReads(r) ==
  /\ run[r].at = "sent"
  /\ run' = [run EXCEPT ![r] = [at |-> "running", read |-> Stored.state,
                                readAt |-> version, wroteAt |-> 0]]
  /\ UNCHANGED <<log, version, client, closing, bounds>>

Applied(state, r) == [state EXCEPT !.applied = @ \cup {r}]

\* The function returned: the state is written and the call answered.
ActorSubmitWrites(r) ==
  /\ run[r].at = "running"
  /\ log' = Append(log, [Stored EXCEPT !.state = Applied(run[r].read, r)])
  /\ version' = version + 1
  /\ run' = [run EXCEPT ![r] = [at |-> "ok", read |-> Fresh,
                                readAt |-> @.readAt, wroteAt |-> version']]
  /\ UNCHANGED <<client, closing, bounds>>

\* Wrong: the state the function left is written although it threw.
ThrownIsWritten(r) ==
  /\ run[r].at = "running"
  /\ log' = Append(log, [Stored EXCEPT !.state = Applied(run[r].read, r)])
  /\ version' = version + 1
  /\ run' = [run EXCEPT ![r].at = "thrown", ![r].wroteAt = version']
  /\ UNCHANGED <<client, closing, bounds>>

\* The function threw, or the isolate could not run it: { ok: false }.
ActorSubmitThrows(r) ==
  /\ run[r].at = "running"
  /\ run' = [run EXCEPT ![r] = [NotRun EXCEPT !.at = "thrown"]]
  /\ UNCHANGED <<log, version, client, closing, bounds>>

\* Wrong: deletes the flag only.
ClosedFlagOnly == <<[Stored EXCEPT !.flag = FALSE]>>

\* deleteAll.
Closed == <<Empty>>

\* This write is confirmed: no message leaves the object before it is on disk.
ActorClose(h) ==
  /\ closing[h] = "sent"
  /\ closing' = [closing EXCEPT ![h] = "closed"]
  /\ log' = Closed
  /\ version' = version + 1
  /\ closes' = Append(closes, [by |-> h, version |-> version'])
  /\ UNCHANGED <<run, client, crashes, cuts>>

-----------------------------------------------------------------------------
(* The runtime.                                                             *)

\* The object loses its memory and with it what runs; answers already given
\* may still arrive.
Crash ==
  /\ MayCrash /\ MoreEvents
  /\ crashes' = crashes + 1
  /\ \E i \in DOMAIN log : log' = <<log[i]>>
  /\ run' = [r \in Runs |-> IF run[r].at = "running" THEN [NotRun EXCEPT !.at = "dead"]
                            ELSE run[r]]
  /\ UNCHANGED <<version, client, closing, closes, cuts>>

Next ==
  \/ \E s \in Submits :
       \/ Submit(s) \/ ActorEnsureInitialized(s) \/ EnsureReturns(s) \/ EnsureFails(s)
       \/ AnswerArrives(s) \/ CallFails(s) \/ BackoffEnds(s) \/ TimeoutFires(s)
  \/ \E h \in Handles : Close(h) \/ ActorClose(h) \/ CloseReturns(h) \/ CloseFails(h)
  \/ \E r \in Runs : ActorSubmitReads(r) \/ ActorSubmitWrites(r) \/ ActorSubmitThrows(r)
  \/ Crash

Spec == Init /\ [][Next]_vars

-----------------------------------------------------------------------------

States == [seed : Handles \cup {"none"}, applied : SUBSET Runs]

RunRecords == [at : {"none", "sent", "running", "ok", "thrown", "dead"},
               read : States, readAt : Nat, wroteAt : Nat]

\* Types; what a run has read and written is not newer than the present.
TypeOK ==
  /\ log \in Seq([state : States, flag : BOOLEAN]) /\ log # <<>>
  /\ run \in [Runs -> RunRecords]
  /\ \A r \in Runs : run[r].readAt <= version /\ run[r].wroteAt <= version
  /\ known \in [Handles -> BOOLEAN]
  /\ at \in [Submits -> {"idle", "ensuring", "ensured", "racing", "backoff", "done"}]
  /\ attempt \in [Submits -> Nat] /\ \A s \in Submits : attempt[s] <= Retries[s]
  /\ outcome \in [Submits -> {"none", "ok", "thrown", "failed", "timeout"}]
  /\ closing \in [Handles -> {"idle", "sent", "closed"}]
  /\ closes \in Seq([by : Handles, version : Nat])
  /\ {version, crashes, cuts} \subseteq Nat

\* r's write came between what t read and what t wrote.
Overlaps(t, v) == run[t].readAt < v /\ v < run[t].wroteAt

\* While the actor is neither closed nor crashes, a change that was written is
\* lost only to a run that had read the state before it and wrote after it:
\* not to a second handle that seeds, not to a retry, a timeout or an error
\* (coordinator.ts actorEnsureInitialized, actorSubmit).
UpdatesLostOnlyToOverlap ==
  crashes = 0 /\ closes = <<>> =>
    \A r \in Runs : run[r].wroteAt > 0 =>
      r \in Stored.state.applied \/ \E t \in Runs : Overlaps(t, run[r].wroteAt)

\* What close deleted comes back only through a run that was under way when it
\* was deleted, whatever crashes and however handles seed again
\* (coordinator.ts actorClose).
ClosedStateStaysClosed ==
  \A i \in DOMAIN closes : \A r \in Stored.state.applied :
    run[r].wroteAt < closes[i].version =>
      \E t \in Runs : Overlaps(t, closes[i].version)

\* Only handle h has been used.
OnlyUsed(h) ==
  /\ \A s \in Submits : at[s] # "idle" => HandleOf[s] = h
  /\ \A i \in DOMAIN closes : closes[i].by = h

\* "Subsequent submit calls will re-initialize from opts.initialState"
\* (actor.ts 182): as long as the object does not crash and no call is cut
\* off, every function of the one handle in use runs on a state that grew from
\* its initialState, before and after each close.
ClosingHandleRestarts ==
  crashes = 0 /\ cuts = 0 =>
    \A h \in Orderly : OnlyUsed(h) =>
      \A r \in Runs : run[r].at = "running" => run[r].read.seed = h

\* Wherever a crash cuts the unconfirmed writes off, the disk is not marked as
\* initialized before it has a seeded state: no later handle would seed it
\* (coordinator.ts 545-546).
FlagFollowsSeed ==
  \A i \in DOMAIN log \ {1} :
    log[i].flag /\ ~ log[i - 1].flag => log[i].state.seed # "none"

\* The answer that settles a submit tells what the attempt it answers did: one
\* reported as done was written, and one whose function is reported to have
\* thrown left nothing.  What the storage may hold of such a submit all the same
\* is the change of an attempt before, which was cut off and ran on: an answer
\* is never taken for another attempt's, and the state that a function left
\* behind when it threw is dropped (coordinator.ts 582-599).
AnswersAreTrue ==
  \A s \in Submits :
    /\ outcome[s] = "ok" => run[Current(s)].wroteAt > 0
    /\ outcome[s] = "thrown" =>
         \A i \in DOMAIN log : \A n \in 0 .. Retries[s] :
           <<s, n>> \in log[i].state.applied => n < attempt[s]

-----------------------------------------------------------------------------

\* testing-fakes.test.ts 92: "Production actors are DO-serialized [...] Without
\* serialization, 100 concurrent increments would race and lose updates."  A
\* change that its caller was told is done is in the state.
SubmitsAreSerialized ==
  crashes = 0 /\ closes = <<>> =>
    \A s \in Submits : outcome[s] = "ok" => Current(s) \in Stored.state.applied
=============================================================================
