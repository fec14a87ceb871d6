---------------------------- MODULE ErrorClasses ----------------------------
(***************************************************************************)
(* The error classes (errors/index.ts) and what becomes of an error on its *)
(* way to the caller: marshalError (transport/error-marshal.ts), the record *)
(* of a failed answer (coordinator/protocol.ts, api/error-decode.ts) and    *)
(* the JSON of an HTTP response (errorToWire, wireToError).                 *)
(*                                                                         *)
(* A message is the set of the markers marshalError finds in it.  An error  *)
(* that is not of the library has class Foreign and the name it was given;  *)
(* so has a library error that crossed an RPC by being thrown.              *)
(***************************************************************************)
EXTENDS Integers

Foreign == "Foreign"

Class(parent, httpStatus) == [parent |-> parent, httpStatus |-> httpStatus]

SerializationClasses ==
  [SerializationError    |-> Class("ParallelError", 400),
   ReturnTooLargeError   |-> Class("SerializationError", 413),
   DeadlineTooShortError |-> Class("SerializationError", 400)]

ExecutionClasses ==
  [ExecutionError    |-> Class("ParallelError", 500),
   DisconnectedError |-> Class("ExecutionError", 502),
   OutOfMemoryError  |-> Class("ExecutionError", 507),
   BillingLimitError |-> Class("ExecutionError", 402)]

TimeoutRetryBindingClasses ==
  [TimeoutError        |-> Class("ParallelError", 504),
   RetryExhaustedError |-> Class("ParallelError", 503),
   BindingError        |-> Class("ParallelError", 500),
   MissingBindingError |-> Class("BindingError", 500)]

CallerClasses ==
  [CancelledError        |-> Class("ParallelError", 499),
   DeadlineExceededError |-> Class("ParallelError", 504),
   BackpressureError     |-> Class("ParallelError", 503),
   QueueFullError        |-> Class("BackpressureError", 429),
   ResultExpiredError    |-> Class("ParallelError", 410),
   ConflictError         |-> Class("ParallelError", 409),
   TopologyError         |-> Class("ParallelError", 400),
   PolicyRequiredError   |-> Class("ParallelError", 500),
   AggregateExecutionError |-> Class("ParallelError", 500)]

Joined(f, g) == [x \in DOMAIN f \cup DOMAIN g |-> IF x \in DOMAIN f THEN f[x] ELSE g[x]]

Table == Joined(Joined(SerializationClasses, ExecutionClasses),
                Joined(TimeoutRetryBindingClasses, CallerClasses))

Library == DOMAIN Table

\* e instanceof class.  No class is more than two below ParallelError.
IsA(e, class) ==
  /\ e.class \in Library
  /\ class \in {e.class, Table[e.class].parent, "ParallelError"}

\* originalName is "none" where the code leaves it undefined.
Error(class, name, says, original) ==
  [class |-> class, name |-> name, says |-> says, original |-> original]

\* new <class>(message): the name is the class.
New(class, says) == Error(class, class, says, "none")

Thrown(name, says) == Error(Foreign, name, says, "none")

-----------------------------------------------------------------------------
(* marshalError.                                                            *)

\* In the order in which they are looked for, each with the class it makes.
Markers == <<"quota", "cpu", "subrequest", "memory", "gone", "clone">>

MarkerClass ==
  [quota |-> "BackpressureError", cpu |-> "BillingLimitError",
   subrequest |-> "BillingLimitError", memory |-> "OutOfMemoryError",
   gone |-> "DisconnectedError", clone |-> "SerializationError"]

\* The markers of e, those looked for in its name included.
Marks(e) == e.says \cup (CASE e.name = "Disconnected" -> {"gone"}
                           [] e.name = "DataCloneError" -> {"clone"}
                           [] OTHER -> {})

FirstMark(e) ==
  Markers[CHOOSE i \in DOMAIN Markers :
            Markers[i] \in Marks(e) /\ \A k \in 1 .. (i - 1) : Markers[k] \notin Marks(e)]

PassedThrough(e) ==
  \E class \in {"ExecutionError", "BackpressureError", "TimeoutError", "SerializationError"} :
    IsA(e, class)

\* Wrong: lets no typed error pass.
MarshalAnew(e) ==
  IF Marks(e) # {} THEN New(MarkerClass[FirstMark(e)], e.says)
  ELSE Error("ExecutionError", "ExecutionError", e.says,
             IF e.name = "Error" THEN "none" ELSE e.name)

MarshalError(e) ==
  IF PassedThrough(e) THEN e
  ELSE IF Marks(e) # {} THEN New(MarkerClass[FirstMark(e)], e.says)
  ELSE Error("ExecutionError", "ExecutionError", e.says,
             IF e.name = "Error" THEN "none" ELSE e.name)

IsRetryable(e) == IsA(e, "BackpressureError") \/ IsA(e, "DisconnectedError")

-----------------------------------------------------------------------------
(* The record of a failed answer.                                           *)

ErrorToRecord(e) == [name |-> e.name, says |-> e.says, original |-> e.original]

\* The classes the caller's side rebuilds by name.
Decoded ==
  {"CancelledError", "DeadlineExceededError", "TimeoutError", "BackpressureError",
   "DisconnectedError", "OutOfMemoryError", "BillingLimitError", "ReturnTooLargeError",
   "SerializationError", "ResultExpiredError", "ConflictError", "TopologyError"}

\* The classes whose constructor makes the message, and drops the record's.
OwnMessage ==
  {"DeadlineExceededError", "TimeoutError", "ReturnTooLargeError", "ResultExpiredError"}

\* Wrong: one case of the switch is missing.
LeafErrorToTypedErrorLessOne(r) ==
  IF r.name \in Decoded \ {"OutOfMemoryError"}
  THEN New(r.name, IF r.name \in OwnMessage THEN {} ELSE r.says)
  ELSE Error("ExecutionError", "ExecutionError", r.says,
             IF r.original = "none" THEN r.name ELSE r.original)

LeafErrorToTypedError(r) ==
  IF r.name \in Decoded
  THEN New(r.name, IF r.name \in OwnMessage THEN {} ELSE r.says)
  ELSE Error("ExecutionError", "ExecutionError", r.says,
             IF r.original = "none" THEN r.name ELSE r.original)

-----------------------------------------------------------------------------
(* The JSON of a response.                                                   *)

\* The code stands for the class: each class has its own.
ErrorToWire(e) ==
  IF e.class \in Library
  THEN [code |-> e.class, name |-> e.name, says |-> e.says,
        httpStatus |-> Table[e.class].httpStatus, original |-> e.original]
  ELSE [code |-> "ExecutionError", name |-> e.name, says |-> e.says, httpStatus |-> 500,
        original |-> IF e.name = "Error" THEN "none" ELSE e.name]

\* The codes wireToError knows: QueueFullError's is missing.
WireCodes == Library \ {"QueueFullError", "ExecutionError"}

WireToError(w) ==
  IF w.code \in WireCodes THEN New(w.code, w.says)
  ELSE Error("ExecutionError", "ExecutionError", w.says,
             IF w.original = "none" THEN w.name ELSE w.original)

-----------------------------------------------------------------------------
(* The type guards, isBackpressureError and the others.                     *)

Guarded == {"BackpressureError", "CancelledError", "ExecutionError",
            "AggregateExecutionError", "DeadlineExceededError", "TimeoutError"}

Guards(e) == {class \in Guarded : IsA(e, class)}

\* Wrong: a subclass of ExecutionError is forgotten.
GuardCodesLessOne(class) ==
  IF class = "ExecutionError" THEN DOMAIN ExecutionClasses \ {"OutOfMemoryError"} ELSE {class}

\* The codes a guard accepts of an error that has lost its prototype.
GuardCodes(class) ==
  IF class = "ExecutionError" THEN DOMAIN ExecutionClasses ELSE {class}

GuardsOfCopy(wire) == {class \in Guarded : wire.code \in GuardCodes(class)}
=============================================================================
