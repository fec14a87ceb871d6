----------------------------- MODULE SubmitPath -----------------------------
(***************************************************************************)
(* Pool.submit from its callers' side: the calls of one pool, made by its   *)
(* owner or by submitCodeHandler (api/submit-code-handler.ts) on behalf of  *)
(* an HTTP request, and what becomes of their errors on the way back        *)
(* (module ErrorClasses), of the pool's statistics and of its events.       *)
(*                                                                         *)
(* The coordinator (runOne of coordinator.ts or in-process.ts) answers a    *)
(* failed function with a record: for dispatchWithResilience the attempt    *)
(* has succeeded.  An attempt fails only when the RPC itself does.          *)
(***************************************************************************)
EXTENDS Integers, FiniteSets, ErrorClasses

CONSTANTS
  Calls,      \* calls of submit, each made once
  OverHttp,   \* those made by submitCodeHandler
  Retries,    \* options.retries of each call
  Public,     \* those whose handler has a policy of kind 'public'
  MaxBytes,   \* policy.maxBytes
  MaxChunk,   \* the longest chunk of a body
  Failures    \* what functions and the platform throw

ASSUME SubmitPathAssumption ==
  /\ IsFiniteSet(Calls) /\ OverHttp \subseteq Calls
  /\ Retries \in [Calls -> Nat]
  /\ Public \subseteq OverHttp
  /\ MaxBytes \in Nat /\ MaxChunk \in Nat \ {0}
  \* None is an instance of a class of the library: an isolate has its own
  \* classes, and an RPC keeps an error's name and message only.
  /\ Failures \subseteq [class : {Foreign}, name : STRING,
                         says : SUBSET DOMAIN MarkerClass, original : {"none"}]

VARIABLES
  at,         \* where each call is
  read,       \* the bytes kept of each request's body
  attempt,    \* the attempt of each call
  cancelled,  \* the calls whose token is cancelled
  stats,      \* #completed, #failed, #cancelled and #inFlight of the pool
  events,     \* the taskEnd and taskError events of each call
  outcome,    \* what the caller gets
  cause,      \* history: what happened to the call
  answered    \* history: the calls a coordinator answered with a failure

call == <<at, read, attempt, cancelled>>
vars == <<call, stats, events, outcome, cause, answered>>

None == [kind |-> "none"]
Value == [kind |-> "value"]
Throws(e) == [kind |-> "throws", error |-> e]
Response(status) == [kind |-> "response", status |-> status]
ErrorResponse(status, e) == [kind |-> "response", status |-> status, error |-> e]

Init ==
  /\ at = [c \in Calls |-> "idle"]
  /\ read = [c \in Calls |-> 0]
  /\ attempt = [c \in Calls |-> 0]
  /\ cancelled = {}
  /\ stats = [completed |-> 0, failed |-> 0, cancelled |-> 0, inFlight |-> 0]
  /\ events = [c \in Calls |-> [taskEnd |-> 0, taskError |-> 0]]
  /\ outcome = [c \in Calls |-> None]
  /\ cause = [c \in Calls |-> "none"]
  /\ answered = {}

-----------------------------------------------------------------------------
(* submitCodeHandler.                                                        *)

Done(c, result) == at' = [at EXCEPT ![c] = "done"] /\ outcome' = [outcome EXCEPT ![c] = result]

\* What the client rebuilds of the body.  A public policy hides originalName.
Shown(c, e) ==
  WireToError([ErrorToWire(e) EXCEPT !.original = IF c \in Public THEN "none" ELSE @])

JsonError(e) == ErrorResponse(ErrorToWire(e).httpStatus, WireToError(ErrorToWire(e)))
JsonErrorForced(e, status) == ErrorResponse(status, WireToError(ErrorToWire(e)))

Plain == Thrown("Error", {})

Pass(c, next) == at' = [at EXCEPT ![c] = next] /\ UNCHANGED outcome

Arrive(c) ==
  /\ c \in OverHttp /\ at[c] = "idle"
  /\ \/ Done(c, Response(405))
     \/ IF c \in Public THEN Pass(c, "admitting") ELSE Pass(c, "authorizing")
  /\ UNCHANGED <<read, attempt, cancelled, stats, events, cause, answered>>

\* policy.auth resolves to true or false, or throws: then the status is the
\* error's own.
Authorize(c) ==
  /\ at[c] = "authorizing"
  /\ \/ Pass(c, "admitting")
     \/ Done(c, Response(401))
     \/ Done(c, JsonError(Plain))
  /\ UNCHANGED <<read, attempt, cancelled, stats, events, cause, answered>>

\* policy.onSubmit returns or throws.  Then content-length, which need not be
\* there or true, is looked at.
Admit(c) ==
  /\ at[c] = "admitting"
  /\ \/ Pass(c, "reading")
     \/ Done(c, Response(413))
     \/ Done(c, JsonErrorForced(Plain, 429))
  /\ UNCHANGED <<read, attempt, cancelled, stats, events, cause, answered>>

ReadChunk(c, n) ==
  /\ at[c] = "reading"
  /\ IF read[c] + n > MaxBytes
     THEN Done(c, Response(413)) /\ read' = [read EXCEPT ![c] = 0]
     ELSE read' = [read EXCEPT ![c] = @ + n] /\ UNCHANGED <<at, outcome>>
  /\ UNCHANGED <<attempt, cancelled, stats, events, cause, answered>>

\* The body is no JSON, or fn is too long; fn is no string, whose error keeps
\* its own status; or the code is submitted.  opts.parse, where there is one,
\* reads the request by itself: then this is the first step of the body.
BodyEnds(c) ==
  /\ at[c] = "reading"
  /\ \/ Done(c, JsonErrorForced(Plain, 400))
     \/ Done(c, JsonError(Plain))
     \/ Pass(c, "submitting")
  /\ UNCHANGED <<read, attempt, cancelled, stats, events, cause, answered>>

-----------------------------------------------------------------------------
(* Pool.#runOneSource.                                                       *)

\* The handler submits to a pool made for the request (#restrictForSubmitted-
\* Code): nobody sees its statistics.
Count(c, changed) == stats' = IF c \in OverHttp THEN stats ELSE changed

\* A hook that throws is swallowed.
Emit(c, kind) == events' = [events EXCEPT ![c][kind] = @ + 1]

Returns(c) ==
  /\ Done(c, IF c \in OverHttp THEN Response(200) ELSE Value)
  /\ cause' = [cause EXCEPT ![c] = "value"]
  /\ Emit(c, "taskEnd")
  /\ Count(c, [stats EXCEPT !.completed = @ + 1, !.inFlight = @ - 1])

\* The caller gets e.
Leaves(c, e, why) ==
  /\ Done(c, IF c \in OverHttp
             THEN ErrorResponse(ErrorToWire(e).httpStatus, Shown(c, e)) ELSE Throws(e))
  /\ cause' = [cause EXCEPT ![c] = why]

\* Wrong: the catch block counts an error the answer already counted.
FailsAnsweredTwice(c, e, why) ==
  /\ Leaves(c, e, why)
  /\ events' = [events EXCEPT ![c].taskError = @ + 2]
  /\ Count(c, [stats EXCEPT !.failed = @ + 1, !.inFlight = @ - 1])
  /\ answered' = answered \cup {c}

\* Wrong: #failed counts what dispatchWithResilience throws as well.
FailsDispatchedCounted(c, e, why) ==
  /\ Leaves(c, e, why)
  /\ Emit(c, "taskError")
  /\ Count(c, [stats EXCEPT !.failed = @ + 1, !.inFlight = @ - 1,
                            !.cancelled = IF e.name = "CancelledError" THEN @ + 1 ELSE @])

\* The answer says that the function failed.
FailsAnswered(c, e, why) ==
  /\ Leaves(c, e, why)
  /\ Emit(c, "taskError")
  /\ Count(c, [stats EXCEPT !.failed = @ + 1, !.inFlight = @ - 1,
                            !.cancelled = IF e.name = "CancelledError" THEN @ + 1 ELSE @])
  /\ answered' = answered \cup {c}

\* dispatchWithResilience throws.
FailsDispatched(c, e, why) ==
  /\ Leaves(c, e, why)
  /\ Emit(c, "taskError")
  /\ Count(c, [stats EXCEPT !.inFlight = @ - 1,
                            !.cancelled = IF e.name = "CancelledError" THEN @ + 1 ELSE @])

\* buildEnvelope refuses the deadline; nothing has been counted.
Refused(c) ==
  /\ \E class \in {"SerializationError", "DeadlineTooShortError"} :
       Leaves(c, New(class, {}), "refused")
  /\ UNCHANGED <<stats, events>>

\* The start of an attempt.
Try(c) ==
  IF c \in cancelled
  THEN FailsDispatched(c, New("CancelledError", {}), "cancel")
  ELSE at' = [at EXCEPT ![c] = "racing"] /\ UNCHANGED <<stats, events, outcome, cause>>

Submit(c) ==
  /\ at[c] = IF c \in OverHttp THEN "submitting" ELSE "idle"
  /\ \/ Refused(c)
     \/ /\ at' = [at EXCEPT ![c] = "dispatching"]
        /\ Count(c, [stats EXCEPT !.inFlight = @ + 1])
        /\ UNCHANGED <<events, outcome, cause>>
  /\ UNCHANGED <<read, attempt, cancelled, answered>>

Dispatch(c) ==
  /\ at[c] = "dispatching"
  /\ Try(c)
  /\ UNCHANGED <<read, attempt, cancelled, answered>>

BackoffEnds(c) ==
  /\ at[c] = "backoff"
  /\ attempt' = [attempt EXCEPT ![c] = @ + 1]
  /\ Try(c)
  /\ UNCHANGED <<read, cancelled, answered>>

\* The race is lost to e: dispatchWithResilience throws or tries again.
Rejected(c, e, why) ==
  LET err == MarshalError(e)
  IN IF IsRetryable(err) /\ attempt[c] < Retries[c]
     THEN at' = [at EXCEPT ![c] = "backoff"] /\ UNCHANGED <<stats, events, outcome, cause>>
     ELSE IF IsRetryable(err) /\ Retries[c] > 0
     THEN FailsDispatched(c, New("RetryExhaustedError", err.says), "exhausted")
     ELSE FailsDispatched(c, err, why)

-----------------------------------------------------------------------------
(* The coordinator, and what else ends an attempt.                            *)

\* The class an error of the platform, of a function or of a return value
\* stands for.
Kind(e) ==
  CASE e.class # Foreign -> e.class
    [] e.class = Foreign /\ Marks(e) # {} -> MarkerClass[FirstMark(e)]
    [] OTHER -> "ExecutionError"

\* The runner marshals what was thrown, the coordinator makes a record of it.
AnswerFailed(c, e) ==
  /\ at[c] = "racing"
  /\ FailsAnswered(c, LeafErrorToTypedError(ErrorToRecord(MarshalError(e))), Kind(e))
  /\ UNCHANGED <<read, attempt, cancelled>>

\* What a function may return: "plain" and "stream" values, an RPC "target", a
\* "stub" that only shows itself at the runner, and what is "large".
Values == {"plain", "stream", "target", "stub", "large"}

\* cfpValidateReturn, in the isolate, throws an Error that is only named
\* SerializationError, rejectIfRpcStub at the runner one of the class.
ReturnError(value) ==
  CASE value = "target" -> Thrown("SerializationError", {})
    [] value = "stub"   -> New("SerializationError", {})
    [] value = "large"  -> New("ReturnTooLargeError", {})

Answer(c) ==
  \E value \in Values :
    IF value \in {"plain", "stream"}
    THEN at[c] = "racing" /\ Returns(c) /\ UNCHANGED <<read, attempt, cancelled, answered>>
    ELSE AnswerFailed(c, ReturnError(value))

\* The RPC itself fails: an error of the library does not survive it.
AnswerLost(c, e) ==
  /\ at[c] = "racing" /\ e.class = Foreign
  /\ Rejected(c, e, Kind(e))
  /\ UNCHANGED <<read, attempt, cancelled, answered>>

TimeoutFires(c) ==
  /\ at[c] = "racing"
  /\ Rejected(c, New("TimeoutError", {}), "timeout")
  /\ UNCHANGED <<read, attempt, cancelled, answered>>

DeadlineFires(c) ==
  /\ at[c] = "racing"
  /\ Rejected(c, New("DeadlineExceededError", {}), "deadline")
  /\ UNCHANGED <<read, attempt, cancelled, answered>>

Cancel(c) ==
  /\ c \notin OverHttp \cup cancelled
  /\ cancelled' = cancelled \cup {c}
  /\ IF at[c] = "racing"
     THEN Rejected(c, New("CancelledError", {}), "cancel")
     ELSE UNCHANGED <<at, stats, events, outcome, cause>>
  /\ UNCHANGED <<read, attempt, answered>>

Next ==
  \E c \in Calls :
    \/ Arrive(c) \/ Authorize(c) \/ Admit(c) \/ BodyEnds(c)
    \/ \E n \in 1 .. MaxChunk : ReadChunk(c, n)
    \/ Submit(c) \/ Dispatch(c) \/ BackoffEnds(c)
    \/ Answer(c) \/ TimeoutFires(c) \/ DeadlineFires(c) \/ Cancel(c)
    \/ \E e \in Failures : AnswerFailed(c, e) \/ AnswerLost(c, e)

Spec == Init /\ [][Next]_vars

-----------------------------------------------------------------------------
(* Properties.                                                               *)

Settled(c) == at[c] = "done" /\ cause[c] \notin {"none", "value"}

Held(c) == outcome[c].error

\* The name of the error that ended the race, where it is not the cause's own.
NameOf(why) ==
  CASE why = "cancel" -> "CancelledError"
    [] why = "deadline" -> "DeadlineExceededError"
    [] why = "timeout" -> "TimeoutError"
    [] why = "exhausted" -> "RetryExhaustedError"
    [] OTHER -> why

\* marshalError (error-marshal.ts), leafErrorToTypedError (error-decode.ts) and
\* wireToError (errors/index.ts) together: however an error travelled, and
\* however often it was classified, what the caller holds tells the causes
\* apart.  A cancel or a deadline in the middle of the race is told only by
\* originalName, which a public policy does not show.  The status of a response
\* (submit-code-handler.ts jsonError) is that of the class the client rebuilds,
\* and the type guards take the error and its JSON for the same.
CausesAreToldApart ==
  \A c \in Calls : Settled(c) =>
    /\ \/ Held(c).class = NameOf(cause[c])
       \/ cause[c] = "refused" /\ IsA(Held(c), "SerializationError")
       \/ /\ cause[c] \in {"cancel", "deadline"} /\ Held(c).class = "ExecutionError"
          /\ \/ Held(c).original = NameOf(cause[c])
             \/ c \in Public
    /\ c \in OverHttp => outcome[c].status = Table[Held(c).class].httpStatus
    /\ Guards(Held(c)) = GuardsOfCopy(ErrorToWire(Held(c)))

Dispatched(c) == at[c] \in {"dispatching", "racing", "backoff"}

Ended(c) == at[c] = "done" /\ cause[c] \notin {"none", "refused"}

\* #runOneSource (pool.ts) leaves a call by four paths: every call that was
\* dispatched, retried or not, reports one end or one error.  The statistics are
\* exact, of less than their names say: #completed and #inFlight are the owner's
\* calls that returned and those under way, #failed the calls a coordinator
\* answered with a failure, #cancelled those whose caller holds a CancelledError.
EventsMatchOutcomes ==
  LET owners == Calls \ OverHttp
      Number(P(_)) == Cardinality({c \in owners : P(c)})
      Returned(c) == cause[c] = "value"
      Answered(c) == c \in answered
      Turned(c) == Ended(c) /\ ~Returned(c) /\ Held(c).class = "CancelledError"
  IN /\ \A c \in Calls : LET n == events[c] IN
          CASE ~Ended(c)   -> n.taskEnd = 0 /\ n.taskError = 0
            [] Returned(c) -> n.taskEnd = 1 /\ n.taskError = 0
            [] OTHER       -> n.taskEnd = 0 /\ n.taskError = 1
     /\ stats = [completed |-> Number(Returned), failed |-> Number(Answered),
                 cancelled |-> Number(Turned), inFlight |-> Number(Dispatched)]
=============================================================================
