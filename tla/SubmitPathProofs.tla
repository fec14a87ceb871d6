------------------------- MODULE SubmitPathProofs -------------------------
(***************************************************************************)
(* Proofs about SubmitPath, for every set of calls, of retries, of public  *)
(* handlers and of failures: what the caller holds tells what happened, and *)
(* the pool's events and statistics are those of its calls' outcomes.      *)
(***************************************************************************)
EXTENDS SubmitPath, FiniteSetTheorems, TLAPS

-----------------------------------------------------------------------------
(* The classes.                                                              *)

\* The classes a caller of submit can hold.
HeldClasses ==
  {"SerializationError", "ReturnTooLargeError", "DeadlineTooShortError",
   "ExecutionError", "DisconnectedError", "OutOfMemoryError", "BillingLimitError",
   "TimeoutError", "RetryExhaustedError", "CancelledError", "BackpressureError"}

\* The table without its statuses.
LEMMA Parents ==
  /\ HeldClasses \subseteq Library
  /\ Foreign \notin Library
  /\ "DeadlineExceededError" \in Library
  /\ Table["DeadlineExceededError"].parent = "ParallelError"
  /\ \A k \in {"ReturnTooLargeError", "DeadlineTooShortError"} :
       Table[k].parent = "SerializationError"
  /\ \A k \in {"DisconnectedError", "OutOfMemoryError", "BillingLimitError"} :
       Table[k].parent = "ExecutionError"
  /\ \A k \in {"SerializationError", "ExecutionError", "TimeoutError", "RetryExhaustedError",
               "CancelledError", "BackpressureError"} : Table[k].parent = "ParallelError"
<1>1. /\ DOMAIN SerializationClasses =
           {"SerializationError", "ReturnTooLargeError", "DeadlineTooShortError"}
      /\ DOMAIN ExecutionClasses =
           {"ExecutionError", "DisconnectedError", "OutOfMemoryError", "BillingLimitError"}
      /\ DOMAIN TimeoutRetryBindingClasses =
           {"TimeoutError", "RetryExhaustedError", "BindingError", "MissingBindingError"}
      /\ DOMAIN CallerClasses =
           {"CancelledError", "DeadlineExceededError", "BackpressureError", "QueueFullError",
            "ResultExpiredError", "ConflictError", "TopologyError", "PolicyRequiredError",
            "AggregateExecutionError"}
  BY DEF SerializationClasses, ExecutionClasses, TimeoutRetryBindingClasses, CallerClasses
<1>2. /\ SerializationClasses["SerializationError"].parent = "ParallelError"
      /\ SerializationClasses["ReturnTooLargeError"].parent = "SerializationError"
      /\ SerializationClasses["DeadlineTooShortError"].parent = "SerializationError"
  BY DEF SerializationClasses, Class
<1>3. /\ ExecutionClasses["ExecutionError"].parent = "ParallelError"
      /\ \A k \in {"DisconnectedError", "OutOfMemoryError", "BillingLimitError"} :
           ExecutionClasses[k].parent = "ExecutionError"
  BY DEF ExecutionClasses, Class
<1>4. \A k \in {"TimeoutError", "RetryExhaustedError"} :
        TimeoutRetryBindingClasses[k].parent = "ParallelError"
  BY DEF TimeoutRetryBindingClasses, Class
<1>5. \A k \in {"CancelledError", "DeadlineExceededError", "BackpressureError"} :
        CallerClasses[k].parent = "ParallelError"
  BY DEF CallerClasses, Class
<1>6. ASSUME NEW k \in HeldClasses \cup {"DeadlineExceededError"}
      PROVE  /\ k \in Library
             /\ k \in DOMAIN SerializationClasses => Table[k] = SerializationClasses[k]
             /\ k \in DOMAIN ExecutionClasses => Table[k] = ExecutionClasses[k]
             /\ k \in DOMAIN TimeoutRetryBindingClasses =>
                  Table[k] = TimeoutRetryBindingClasses[k]
             /\ k \in DOMAIN CallerClasses => Table[k] = CallerClasses[k]
  BY <1>1 DEF Table, Joined, Library, HeldClasses
<1>7. Library = (DOMAIN SerializationClasses \cup DOMAIN ExecutionClasses)
                  \cup (DOMAIN TimeoutRetryBindingClasses \cup DOMAIN CallerClasses)
  BY DEF Library, Table, Joined
<1>8. Foreign \notin Library
  BY <1>1, <1>7 DEF Foreign
<1> QED
  BY <1>1, <1>2, <1>3, <1>4, <1>5, <1>6, <1>8 DEF HeldClasses

LEMMA GuardsAgree ==
  ASSUME NEW e, e.class \in HeldClasses
  PROVE  Guards(e) = GuardsOfCopy(ErrorToWire(e))
<1>1. ErrorToWire(e).code = e.class
  BY Parents DEF ErrorToWire
<1>2. DOMAIN ExecutionClasses =
        {"ExecutionError", "DisconnectedError", "OutOfMemoryError", "BillingLimitError"}
  BY DEF ExecutionClasses
<1>3. ASSUME NEW g \in Guarded
      PROVE  e.class \in GuardCodes(g) <=> g \in {e.class, Table[e.class].parent, "ParallelError"}
  <2>1. CASE g = "ExecutionError"
    BY <1>2, <2>1, Parents DEF GuardCodes, HeldClasses
  <2>2. CASE g # "ExecutionError"
    BY <1>2, <2>2, Parents DEF GuardCodes, HeldClasses, Guarded
  <2> QED
    BY <2>1, <2>2
<1> QED
  BY <1>1, <1>3, Parents DEF Guards, GuardsOfCopy, IsA

-----------------------------------------------------------------------------
(* What marshalError makes of an error.                                      *)

\* new <class>(message).
LEMMA NewFields ==
  ASSUME NEW class, NEW says
  PROVE  /\ New(class, says).class = class /\ New(class, says).name = class
         /\ New(class, says).says = says /\ New(class, says).original = "none"
BY DEF New, Error

\* The first marker of a message that has one is one of its markers.
LEMMA FirstMarkIsMarker ==
  ASSUME NEW e, Marks(e) # {}, Marks(e) \subseteq DOMAIN MarkerClass
  PROVE  FirstMark(e) \in DOMAIN MarkerClass
<1> DEFINE First(i) == Markers[i] \in Marks(e) /\ \A k \in 1 .. (i - 1) : Markers[k] \notin Marks(e)
<1>1. /\ DOMAIN MarkerClass = {"quota", "cpu", "subrequest", "memory", "gone", "clone"}
      /\ DOMAIN Markers = 1 .. 6
      /\ Markers[1] = "quota" /\ Markers[2] = "cpu" /\ Markers[3] = "subrequest"
      /\ Markers[4] = "memory" /\ Markers[5] = "gone" /\ Markers[6] = "clone"
  BY DEF MarkerClass, Markers
<1>2. \E i \in DOMAIN Markers : First(i)
  <2>1. \E i \in 1 .. 6 : Markers[i] \in Marks(e)
    BY <1>1
  <2>2. First(1) \/ First(2) \/ First(3) \/ First(4) \/ First(5) \/ First(6)
    BY <2>1
  <2> QED
    BY <1>1, <2>2
<1>3. FirstMark(e) \in Marks(e)
  <2>1. First(CHOOSE i \in DOMAIN Markers : First(i))
    BY <1>2
  <2> QED
    BY <2>1 DEF FirstMark
<1> QED
  BY <1>3

LEMMA MarkerClassHeld ==
  /\ \A m \in DOMAIN MarkerClass :
       MarkerClass[m] \in {"BackpressureError", "BillingLimitError", "OutOfMemoryError",
                           "DisconnectedError", "SerializationError"}
  /\ DOMAIN MarkerClass = {"quota", "cpu", "subrequest", "memory", "gone", "clone"}
BY DEF MarkerClass

\* An error that is not of the library becomes one of the class it stands for.
LEMMA MarshalForeign ==
  ASSUME NEW e, e.class = Foreign, e.says \in SUBSET DOMAIN MarkerClass
  PROVE  /\ MarshalError(e).class = Kind(e)
         /\ MarshalError(e).name = Kind(e)
         /\ Kind(e) \in {"ExecutionError", "BackpressureError", "BillingLimitError",
                         "OutOfMemoryError", "DisconnectedError", "SerializationError"}
<1>2. ~PassedThrough(e)
  BY Parents DEF PassedThrough, IsA
<1>3. Marks(e) \subseteq DOMAIN MarkerClass
  <2>1. \E more \in {{}, {"gone"}, {"clone"}} : Marks(e) = e.says \cup more
    <3>1. CASE e.name = "Disconnected"
      <4>1. Marks(e) = e.says \cup {"gone"}
        BY <3>1, Zenon DEF Marks
      <4> QED
        BY <4>1
    <3>2. CASE e.name = "DataCloneError"
      <4>1. e.name # "Disconnected"
        BY <3>2
      <4>2. Marks(e) = e.says \cup {"clone"}
        BY <3>2, <4>1, Zenon DEF Marks
      <4> QED
        BY <4>2
    <3>3. CASE e.name # "Disconnected" /\ e.name # "DataCloneError"
      <4>1. Marks(e) = e.says \cup {}
        BY <3>3, Zenon DEF Marks
      <4> QED
        BY <4>1
    <3> QED
      BY <3>1, <3>2, <3>3
  <2> QED
    BY <2>1, MarkerClassHeld
<1>4. CASE Marks(e) # {}
  <2> DEFINE k == MarkerClass[FirstMark(e)]
  <2>1. k \in {"BackpressureError", "BillingLimitError", "OutOfMemoryError",
               "DisconnectedError", "SerializationError"}
    BY <1>3, <1>4, FirstMarkIsMarker, MarkerClassHeld
  <2>2. MarshalError(e) = New(k, e.says)
    BY <1>2, <1>4 DEF MarshalError
  <2>3. Kind(e) = k
    BY <1>4, Zenon DEF Kind
  <2> QED
    BY <2>1, <2>2, <2>3, NewFields
<1>5. CASE Marks(e) = {}
  <2>1. Kind(e) = "ExecutionError"
    BY <1>5, Zenon DEF Kind
  <2>2. MarshalError(e) = Error("ExecutionError", "ExecutionError", e.says,
                                IF e.name = "Error" THEN "none" ELSE e.name)
    BY <1>2, <1>5 DEF MarshalError
  <2> QED
    BY <2>1, <2>2 DEF Error
<1> QED
  BY <1>4, <1>5

\* The two errors of the library that the runner throws pass as they are.
LEMMA MarshalReturnError ==
  ASSUME NEW class \in {"SerializationError", "ReturnTooLargeError"}
  PROVE  /\ MarshalError(New(class, {})) = New(class, {})
         /\ Kind(New(class, {})) = class
<1>1. New(class, {}).class = class /\ class # Foreign
  BY NewFields DEF Foreign
<1>2. IsA(New(class, {}), "SerializationError")
  BY <1>1, Parents DEF IsA, HeldClasses
<1>3. PassedThrough(New(class, {}))
  BY <1>2 DEF PassedThrough
<1>4. Kind(New(class, {})) = New(class, {}).class
  BY <1>1, Zenon DEF Kind
<1> QED
  BY <1>1, <1>3, <1>4 DEF MarshalError

\* A timeout keeps its class; a cancel and a deadline become an ExecutionError
\* that keeps their name.
LEMMA MarshalRaceError ==
  /\ MarshalError(New("TimeoutError", {})) = New("TimeoutError", {})
  /\ \A class \in {"CancelledError", "DeadlineExceededError"} :
       /\ MarshalError(New(class, {})).class = "ExecutionError"
       /\ MarshalError(New(class, {})).name = "ExecutionError"
       /\ MarshalError(New(class, {})).original = class
<1>1. MarshalError(New("TimeoutError", {})) = New("TimeoutError", {})
  <2>1. IsA(New("TimeoutError", {}), "TimeoutError")
    BY NewFields, Parents DEF IsA, HeldClasses
  <2> QED
    BY <2>1, NewFields DEF MarshalError, PassedThrough
<1>2. ASSUME NEW class \in {"CancelledError", "DeadlineExceededError"}
      PROVE  /\ MarshalError(New(class, {})).class = "ExecutionError"
             /\ MarshalError(New(class, {})).name = "ExecutionError"
             /\ MarshalError(New(class, {})).original = class
  <2> DEFINE e == New(class, {})
  <2>1. e.class = class /\ e.name = class /\ e.says = {}
    BY NewFields
  <2>2. ~PassedThrough(e)
    BY <2>1, Parents DEF PassedThrough, IsA, HeldClasses
  <2>3. Marks(e) = {}
    <3>1. e.name # "Disconnected" /\ e.name # "DataCloneError"
      BY <2>1
    <3>2. Marks(e) = e.says \cup {}
      BY <3>1, Zenon DEF Marks
    <3> QED
      BY <2>1, <3>2
  <2>4. MarshalError(e) = Error("ExecutionError", "ExecutionError", e.says, class)
    BY <2>1, <2>2, <2>3 DEF MarshalError
  <2> QED
    BY <2>4 DEF Error
<1> QED
  BY <1>1, <1>2

\* Of a failed answer the caller rebuilds the class the error stands for.
LEMMA AnsweredClass ==
  ASSUME NEW e, \/ e.class = Foreign /\ e.says \in SUBSET DOMAIN MarkerClass
                \/ e \in {New("SerializationError", {}), New("ReturnTooLargeError", {})}
  PROVE  LET h == LeafErrorToTypedError(ErrorToRecord(MarshalError(e))) IN
           /\ h.class = Kind(e) /\ h.name = Kind(e)
           /\ Kind(e) \in HeldClasses \ {"CancelledError"}
<1> DEFINE m == MarshalError(e)
           h == LeafErrorToTypedError(ErrorToRecord(m))
<1>1. m.name = Kind(e) /\ Kind(e) \in {"ExecutionError", "BackpressureError",
        "BillingLimitError", "OutOfMemoryError", "DisconnectedError", "SerializationError",
        "ReturnTooLargeError"}
  BY MarshalForeign, MarshalReturnError, NewFields
<1>2. ErrorToRecord(m).name = Kind(e)
  BY <1>1 DEF ErrorToRecord
<1>3. h.class = Kind(e) /\ h.name = Kind(e)
  <2>1. CASE Kind(e) = "ExecutionError"
    BY <1>2, <2>1 DEF LeafErrorToTypedError, Decoded, Error
  <2>2. CASE Kind(e) # "ExecutionError"
    BY <1>1, <1>2, <2>2, NewFields DEF LeafErrorToTypedError, Decoded
  <2> QED
    BY <2>1, <2>2
<1> QED
  BY <1>1, <1>3 DEF HeldClasses

LEMMA Names ==
  /\ NameOf("cancel") = "CancelledError" /\ NameOf("deadline") = "DeadlineExceededError"
  /\ NameOf("timeout") = "TimeoutError" /\ NameOf("exhausted") = "RetryExhaustedError"
  /\ \A k \in HeldClasses : NameOf(k) = k
<1>1. NameOf("cancel") = "CancelledError"
  BY Zenon DEF NameOf
<1>2. NameOf("deadline") = "DeadlineExceededError"
  BY Zenon DEF NameOf
<1>3. NameOf("timeout") = "TimeoutError"
  BY Zenon DEF NameOf
<1>4. NameOf("exhausted") = "RetryExhaustedError"
  BY Zenon DEF NameOf
<1>5. ASSUME NEW k \in HeldClasses PROVE NameOf(k) = k
  <2>1. k # "cancel" /\ k # "deadline" /\ k # "timeout" /\ k # "exhausted"
    BY DEF HeldClasses
  <2> QED
    BY <2>1, Zenon DEF NameOf
<1> QED
  BY <1>1, <1>2, <1>3, <1>4, <1>5

-----------------------------------------------------------------------------
(* What the steps of a call do.                                              *)

States == {"idle", "authorizing", "admitting", "reading", "submitting",
           "dispatching", "racing", "backoff", "done"}

Stats == [completed : Int, failed : Int, cancelled : Int, inFlight : Int]

Typed ==
  /\ at \in [Calls -> States]
  /\ DOMAIN outcome = Calls /\ DOMAIN cause = Calls
  /\ events \in [Calls -> [taskEnd : Int, taskError : Int]]
  /\ stats \in Stats

\* CausesAreToldApart of one call.
ToldApart(c) == Settled(c) =>
  /\ \/ Held(c).class = NameOf(cause[c])
     \/ cause[c] = "refused" /\ IsA(Held(c), "SerializationError")
     \/ /\ cause[c] \in {"cancel", "deadline"} /\ Held(c).class = "ExecutionError"
        /\ \/ Held(c).original = NameOf(cause[c])
           \/ c \in Public
  /\ c \in OverHttp => outcome[c].status = Table[Held(c).class].httpStatus
  /\ Guards(Held(c)) = GuardsOfCopy(ErrorToWire(Held(c)))

\* e tells that why ended the race.
Tells(e, why) ==
  /\ e.class \in HeldClasses /\ why \notin {"none", "value", "refused"}
  /\ \/ e.class = NameOf(why)
     \/ /\ why \in {"cancel", "deadline"} /\ e.class = "ExecutionError"
        /\ e.original = NameOf(why)

OthersKeep(c) ==
  /\ DOMAIN outcome' = Calls /\ DOMAIN cause' = Calls
  /\ \A d \in Calls \ {c} : outcome'[d] = outcome[d] /\ cause'[d] = cause[d]

Moves(c) ==
  /\ at[c] # "done"
  /\ at'[c] \in States /\ at' = [at EXCEPT ![c] = at'[c]]
  /\ Dispatched(c)' = Dispatched(c)
  /\ OthersKeep(c)
  /\ cause' = cause /\ events' = events /\ stats' = stats /\ answered' = answered

Enters(c) ==
  /\ at[c] # "done" /\ ~Dispatched(c)
  /\ at' = [at EXCEPT ![c] = "dispatching"]
  /\ Count(c, [stats EXCEPT !.inFlight = @ + 1])
  /\ cause' = cause /\ outcome' = outcome /\ events' = events /\ answered' = answered

\* The statistics of a call of the owner that fails: it is answered, or it is
\* cancelled before an attempt, or it is counted nowhere.
CountsAnswered(c) ==
  /\ answered' = answered \cup {c} /\ Held(c)'.class # "CancelledError"
  /\ stats'.failed = stats.failed + 1 /\ stats'.cancelled = stats.cancelled

CountsDispatched(c) ==
  /\ answered' = answered
  /\ stats'.failed = stats.failed
  /\ stats'.cancelled = IF Held(c)'.class = "CancelledError"
                        THEN stats.cancelled + 1 ELSE stats.cancelled

Fails(c) ==
  /\ Dispatched(c)
  /\ at' = [at EXCEPT ![c] = "done"]
  /\ cause'[c] \notin {"none", "value", "refused"} /\ ToldApart(c)'
  /\ OthersKeep(c)
  /\ events' = [events EXCEPT ![c].taskError = @ + 1]
  /\ stats' \in Stats
  /\ IF c \in OverHttp
     THEN stats' = stats /\ answered' \in {answered, answered \cup {c}}
     ELSE /\ stats'.completed = stats.completed
          /\ stats'.inFlight = stats.inFlight - 1
          /\ CountsAnswered(c) \/ CountsDispatched(c)

IsRefused(c) ==
  /\ at[c] # "done" /\ ~Dispatched(c)
  /\ at' = [at EXCEPT ![c] = "done"]
  /\ cause'[c] = "refused" /\ ToldApart(c)'
  /\ OthersKeep(c)
  /\ stats' = stats /\ events' = events /\ answered' = answered

Step(c) ==
  \/ Moves(c) \/ Enters(c) \/ Fails(c) \/ IsRefused(c)
  \/ Dispatched(c) /\ Returns(c) /\ answered' = answered
  \/ UNCHANGED <<at, outcome, cause, events, stats, answered>>

\* What the client of a handler rebuilds.
LEMMA ShownClass ==
  ASSUME NEW c, NEW e, e.class \in HeldClasses
  PROVE  /\ Shown(c, e).class = e.class
         /\ c \notin Public /\ e.class = "ExecutionError" /\ e.original # "none"
              => Shown(c, e).original = e.original
         /\ ErrorToWire(e).httpStatus = Table[e.class].httpStatus
<1> DEFINE w == [ErrorToWire(e) EXCEPT !.original = IF c \in Public THEN "none" ELSE @]
<1>1. ErrorToWire(e) = [code |-> e.class, name |-> e.name, says |-> e.says,
                        httpStatus |-> Table[e.class].httpStatus, original |-> e.original]
  BY Parents DEF ErrorToWire
<1>2. w.code = e.class /\ (c \notin Public => w.original = e.original)
  BY <1>1
<1>3. CASE e.class = "ExecutionError"
  <2>1. w.code \notin WireCodes
    BY <1>2, <1>3 DEF WireCodes
  <2> QED
    BY <1>1, <1>2, <1>3, <2>1 DEF Shown, WireToError, Error
<1>4. CASE e.class # "ExecutionError"
  <2>1. w.code \in WireCodes
    BY <1>2, <1>4, Parents DEF WireCodes, HeldClasses
  <2> QED
    BY <1>1, <1>2, <1>4, <2>1, NewFields DEF Shown, WireToError
<1> QED
  BY <1>3, <1>4

LEMMA LeavesTold ==
  ASSUME Typed, NEW c \in Calls, NEW e, NEW why, Leaves(c, e, why),
         \/ Tells(e, why)
         \/ why = "refused" /\ e.class \in {"SerializationError", "DeadlineTooShortError"}
  PROVE  /\ ToldApart(c)' /\ OthersKeep(c) /\ cause'[c] = why
         /\ Held(c)'.class = e.class
<1> DEFINE h == outcome'[c].error
<1>1. e.class \in HeldClasses
  BY DEF Tells, HeldClasses
<1>2. OthersKeep(c) /\ cause'[c] = why
  BY DEF OthersKeep, Leaves, Done, Typed
<1>3. outcome'[c] = IF c \in OverHttp
                    THEN ErrorResponse(ErrorToWire(e).httpStatus, Shown(c, e)) ELSE Throws(e)
  BY DEF Leaves, Done, Typed
<1>4. /\ h = IF c \in OverHttp THEN Shown(c, e) ELSE e
      /\ c \in OverHttp => outcome'[c].status = ErrorToWire(e).httpStatus
  BY <1>3 DEF ErrorResponse, Throws
<1>5. h.class = e.class
  BY <1>1, <1>4, ShownClass
<1>6. \/ h.class = NameOf(why)
      \/ why = "refused" /\ IsA(h, "SerializationError")
      \/ /\ why \in {"cancel", "deadline"} /\ h.class = "ExecutionError"
         /\ h.original = NameOf(why) \/ c \in Public
  <2>1. CASE Tells(e, why)
    <3>1. NameOf(why) # "none" \/ why \notin {"cancel", "deadline"}
      BY Names
    <3> QED
      BY <1>1, <1>4, <1>5, <2>1, <3>1, ShownClass DEF Tells
  <2>2. CASE why = "refused" /\ e.class \in {"SerializationError", "DeadlineTooShortError"}
    BY <1>1, <1>5, <2>2, Parents DEF IsA
  <2> QED
    BY <2>1, <2>2
<1>7. c \in OverHttp => outcome'[c].status = Table[h.class].httpStatus
  BY <1>1, <1>4, <1>5, ShownClass
<1>8. Guards(h) = GuardsOfCopy(ErrorToWire(h))
  BY <1>1, <1>5, GuardsAgree
<1> QED
  BY <1>2, <1>5, <1>6, <1>7, <1>8 DEF ToldApart, Held

\* The updates of the statistics keep their type.
LEMMA StatsUpdated ==
  ASSUME NEW s \in Stats, NEW t,
         \/ t = [s EXCEPT !.completed = @ + 1, !.inFlight = @ - 1]
         \/ t = [s EXCEPT !.failed = @ + 1, !.inFlight = @ - 1, !.cancelled = @]
         \/ t = [s EXCEPT !.inFlight = @ - 1, !.cancelled = @ + 1]
         \/ t = [s EXCEPT !.inFlight = @ - 1, !.cancelled = @]
         \/ t = [s EXCEPT !.inFlight = @ + 1]
  PROVE  t \in Stats
<1>1. /\ s.completed \in Int /\ s.failed \in Int /\ s.cancelled \in Int /\ s.inFlight \in Int
  BY DEF Stats
<1>2. PICK a \in Int, f \in Int, k \in Int, n \in Int, m \in Int :
        /\ a = s.completed + 1 /\ f = s.failed + 1 /\ k = s.cancelled + 1
        /\ n = s.inFlight - 1 /\ m = s.inFlight + 1
  BY <1>1
<1>3. /\ [s EXCEPT !.completed = a, !.inFlight = n] \in Stats
      /\ [s EXCEPT !.inFlight = m] \in Stats
  BY DEF Stats
<1>4. /\ [s EXCEPT !.failed = f, !.inFlight = n, !.cancelled = s.cancelled] \in Stats
      /\ [s EXCEPT !.inFlight = n, !.cancelled = k] \in Stats
      /\ [s EXCEPT !.inFlight = n, !.cancelled = s.cancelled] \in Stats
  BY <1>1 DEF Stats
<1> QED
  BY <1>2, <1>3, <1>4

\* dispatchWithResilience throws: the call fails, and is counted when it was
\* cancelled.
LEMMA FailsDispatchedStep ==
  ASSUME Typed, NEW c \in Calls, Dispatched(c), NEW e, NEW why,
         Tells(e, why), e.name = e.class, FailsDispatched(c, e, why), answered' = answered
  PROVE  Fails(c)
<1>1. ToldApart(c)' /\ OthersKeep(c) /\ cause'[c] = why /\ Held(c)'.class = e.class
  BY LeavesTold DEF FailsDispatched
<1>2. at' = [at EXCEPT ![c] = "done"] /\ events' = [events EXCEPT ![c].taskError = @ + 1]
  BY DEF FailsDispatched, Leaves, Done, Emit
<1>3. /\ c \in OverHttp => stats' = stats
      /\ c \notin OverHttp =>
           \/ /\ e.class = "CancelledError"
              /\ stats' = [stats EXCEPT !.inFlight = @ - 1, !.cancelled = @ + 1]
           \/ /\ e.class # "CancelledError"
              /\ stats' = [stats EXCEPT !.inFlight = @ - 1, !.cancelled = @]
  BY DEF FailsDispatched, Count
<1>4. /\ stats.completed \in Int /\ stats.failed \in Int
      /\ stats.cancelled \in Int /\ stats.inFlight \in Int
  BY DEF Typed, Stats
<1>5. c \notin OverHttp =>
        /\ stats' \in Stats
        /\ stats'.completed = stats.completed
        /\ stats'.inFlight = stats.inFlight - 1
        /\ stats'.failed = stats.failed
        /\ stats'.cancelled = IF e.class = "CancelledError"
                              THEN stats.cancelled + 1 ELSE stats.cancelled
  <2>1. CASE /\ e.class = "CancelledError"
             /\ stats' = [stats EXCEPT !.inFlight = @ - 1, !.cancelled = @ + 1]
    <3>1. stats' \in Stats
      BY <1>4, <2>1, StatsUpdated DEF Typed
    <3> QED
      BY <1>4, <2>1, <3>1 DEF Typed, Stats
  <2>2. CASE /\ e.class # "CancelledError"
             /\ stats' = [stats EXCEPT !.inFlight = @ - 1, !.cancelled = @]
    <3>1. stats' \in Stats
      BY <1>4, <2>2, StatsUpdated DEF Typed
    <3> QED
      BY <1>4, <2>2, <3>1 DEF Typed, Stats
  <2> QED
    BY <1>3, <2>1, <2>2
<1>6. c \notin OverHttp => CountsDispatched(c)
  BY <1>1, <1>5 DEF CountsDispatched
<1>7. stats' \in Stats
  BY <1>3, <1>5 DEF Typed
<1> QED
  BY <1>1, <1>2, <1>3, <1>5, <1>6, <1>7 DEF Fails, Tells

\* The answer says that the function failed: the call is counted once, as
\* failed, for no answer is a CancelledError.
LEMMA FailsAnsweredStep ==
  ASSUME Typed, NEW c \in Calls, Dispatched(c), NEW e, NEW why,
         Tells(e, why), e.name = e.class, e.class # "CancelledError", FailsAnswered(c, e, why)
  PROVE  Fails(c)
<1>1. ToldApart(c)' /\ OthersKeep(c) /\ cause'[c] = why /\ Held(c)'.class = e.class
  BY LeavesTold DEF FailsAnswered
<1>2. at' = [at EXCEPT ![c] = "done"] /\ events' = [events EXCEPT ![c].taskError = @ + 1]
  BY DEF FailsAnswered, Leaves, Done, Emit
<1>3. /\ c \in OverHttp => stats' = stats
      /\ c \notin OverHttp =>
           stats' = [stats EXCEPT !.failed = @ + 1, !.inFlight = @ - 1, !.cancelled = @]
  BY DEF FailsAnswered, Count
<1>4. /\ stats.completed \in Int /\ stats.failed \in Int
      /\ stats.cancelled \in Int /\ stats.inFlight \in Int
  BY DEF Typed, Stats
<1>5. c \notin OverHttp =>
        /\ stats' \in Stats
        /\ stats'.completed = stats.completed
        /\ stats'.inFlight = stats.inFlight - 1
        /\ stats'.failed = stats.failed + 1
        /\ stats'.cancelled = stats.cancelled
  <2> SUFFICES ASSUME c \notin OverHttp
               PROVE  /\ stats' \in Stats
                      /\ stats'.completed = stats.completed
                      /\ stats'.inFlight = stats.inFlight - 1
                      /\ stats'.failed = stats.failed + 1
                      /\ stats'.cancelled = stats.cancelled
    OBVIOUS
  <2>1. stats' = [stats EXCEPT !.failed = @ + 1, !.inFlight = @ - 1, !.cancelled = @]
    BY <1>3
  <2>2. stats' \in Stats
    BY <2>1, StatsUpdated DEF Typed
  <2>3. DOMAIN stats = {"completed", "failed", "cancelled", "inFlight"}
    BY DEF Typed, Stats
  <2> QED
    BY <2>1, <2>2, <2>3
<1>6. answered' = answered \cup {c}
  BY DEF FailsAnswered
<1>7. c \notin OverHttp => CountsAnswered(c)
  BY <1>1, <1>5, <1>6 DEF CountsAnswered
<1>8. stats' \in Stats
  BY <1>3, <1>5 DEF Typed
<1> QED
  BY <1>1, <1>2, <1>3, <1>5, <1>6, <1>7, <1>8 DEF Fails, Tells

\* A lost race is tried again or fails the call.
LEMMA RejectedStep ==
  ASSUME Typed, NEW c \in Calls, at[c] = "racing", NEW e, NEW why,
         Tells(MarshalError(e), why), MarshalError(e).name = MarshalError(e).class,
         Rejected(c, e, why), answered' = answered
  PROVE  Step(c)
<1> DEFINE err == MarshalError(e)
<1>1. Dispatched(c)
  BY DEF Dispatched
<1>2. CASE IsRetryable(err) /\ attempt[c] < Retries[c]
  <2>1. at' = [at EXCEPT ![c] = "backoff"] /\ UNCHANGED <<stats, events, outcome, cause>>
    BY <1>2 DEF Rejected
  <2>2. at'[c] = "backoff"
    BY <2>1 DEF Typed
  <2> QED
    BY <2>1, <2>2 DEF Step, Moves, OthersKeep, Typed, Dispatched, States
<1>3. CASE ~(IsRetryable(err) /\ attempt[c] < Retries[c]) /\ IsRetryable(err) /\ Retries[c] > 0
  <2>1. FailsDispatched(c, New("RetryExhaustedError", err.says), "exhausted")
    BY <1>3 DEF Rejected
  <2>2. Tells(New("RetryExhaustedError", err.says), "exhausted")
    BY NewFields, Names DEF Tells, HeldClasses
  <2>3. New("RetryExhaustedError", err.says).name = New("RetryExhaustedError", err.says).class
    BY NewFields
  <2> QED
    BY <1>1, <2>1, <2>2, <2>3, FailsDispatchedStep DEF Step
<1>4. CASE ~(IsRetryable(err) /\ attempt[c] < Retries[c]) /\ ~(IsRetryable(err) /\ Retries[c] > 0)
  <2>1. FailsDispatched(c, err, why)
    BY <1>4 DEF Rejected
  <2> QED
    BY <1>1, <2>1, FailsDispatchedStep DEF Step
<1> QED
  BY <1>2, <1>3, <1>4

LEMMA AnswerFailedStep ==
  ASSUME Typed, NEW c \in Calls, NEW e, AnswerFailed(c, e),
         \/ e.class = Foreign /\ e.says \in SUBSET DOMAIN MarkerClass
         \/ e \in {New("SerializationError", {}), New("ReturnTooLargeError", {})}
  PROVE  Fails(c)
<1> DEFINE h == LeafErrorToTypedError(ErrorToRecord(MarshalError(e)))
<1>1. h.class = Kind(e) /\ h.name = Kind(e) /\ Kind(e) \in HeldClasses \ {"CancelledError"}
  BY AnsweredClass
<1>2. Dispatched(c) /\ FailsAnswered(c, h, Kind(e))
  BY DEF AnswerFailed, Dispatched
<1>3. Tells(h, Kind(e)) /\ h.name = h.class /\ h.class # "CancelledError"
  BY <1>1, Names DEF Tells, HeldClasses
<1> QED
  BY <1>2, <1>3, FailsAnsweredStep

\* Every step is one of these, of one call.
LEMMA NextIsStep ==
  ASSUME Typed, Next
  PROVE  \E c \in Calls : Step(c)
<1> SUFFICES ASSUME NEW c \in Calls,
               \/ Arrive(c) \/ Authorize(c) \/ Admit(c) \/ BodyEnds(c)
               \/ \E n \in 1 .. MaxChunk : ReadChunk(c, n)
               \/ Submit(c) \/ Dispatch(c) \/ BackoffEnds(c)
               \/ Answer(c) \/ TimeoutFires(c) \/ DeadlineFires(c) \/ Cancel(c)
               \/ \E e \in Failures : AnswerFailed(c, e) \/ AnswerLost(c, e)
             PROVE Step(c)
  BY DEF Next
<1>1. ASSUME at[c] # "done", ~Dispatched(c), NEW s \in States,
             s \notin {"dispatching", "racing", "backoff"},
             at' = [at EXCEPT ![c] = s], OthersKeep(c), UNCHANGED <<stats, events, cause, answered>>
      PROVE  Step(c)
  BY <1>1 DEF Step, Moves, Typed, Dispatched
<1>2. ASSUME NEW next \in States, Pass(c, next), cause' = cause
      PROVE  at' = [at EXCEPT ![c] = next] /\ OthersKeep(c)
  BY <1>2 DEF Pass, OthersKeep, Typed
<1>3. ASSUME NEW r, Done(c, r), cause' = cause
      PROVE  at' = [at EXCEPT ![c] = "done"] /\ OthersKeep(c)
  BY <1>3 DEF Done, OthersKeep, Typed
<1>4. CASE Arrive(c)
  BY <1>1, <1>2, <1>3, <1>4 DEF Arrive, Dispatched, States
<1>5. CASE Authorize(c)
  BY <1>1, <1>2, <1>3, <1>5 DEF Authorize, Dispatched, States
<1>6. CASE Admit(c)
  BY <1>1, <1>2, <1>3, <1>6 DEF Admit, Dispatched, States
<1>7. CASE BodyEnds(c)
  BY <1>1, <1>2, <1>3, <1>7 DEF BodyEnds, Dispatched, States
<1>8. ASSUME NEW n \in 1 .. MaxChunk, ReadChunk(c, n) PROVE Step(c)
  <2>1. CASE read[c] + n > MaxBytes
    BY <1>1, <1>3, <1>8, <2>1 DEF ReadChunk, Dispatched, States
  <2>2. CASE ~(read[c] + n > MaxBytes)
    BY <1>8, <2>2 DEF ReadChunk, Step
  <2> QED
    BY <2>1, <2>2
<1>9. CASE Submit(c)
  <2>1. ~Dispatched(c) /\ at[c] # "done" /\ answered' = answered
    BY <1>9 DEF Submit, Dispatched
  <2>2. CASE Refused(c)
    <3>1. PICK class \in {"SerializationError", "DeadlineTooShortError"} :
            Leaves(c, New(class, {}), "refused")
      BY <2>2 DEF Refused
    <3>2. New(class, {}).class \in HeldClasses /\ New(class, {}).class = class
      BY NewFields DEF HeldClasses
    <3>3. ToldApart(c)' /\ OthersKeep(c) /\ cause'[c] = "refused"
      BY <3>1, <3>2, LeavesTold
    <3> QED
      BY <2>1, <2>2, <3>1, <3>3 DEF Refused, Leaves, Done, Step, IsRefused
  <2>3. CASE ~Refused(c)
    BY <1>9, <2>1, <2>3 DEF Submit, Step, Enters
  <2> QED
    BY <2>2, <2>3
<1>10. ASSUME Dispatched(c), Try(c), answered' = answered PROVE Step(c)
  <2>1. CASE c \in cancelled
    <3>1. Tells(New("CancelledError", {}), "cancel")
      BY NewFields, Names DEF Tells, HeldClasses
    <3>2. New("CancelledError", {}).name = New("CancelledError", {}).class
      BY NewFields
    <3> QED
      BY <1>10, <2>1, <3>1, <3>2, FailsDispatchedStep DEF Try, Step
  <2>2. CASE c \notin cancelled
    BY <1>10, <2>2 DEF Try, Step, Moves, OthersKeep, Typed, Dispatched, States
  <2> QED
    BY <2>1, <2>2
<1>11. CASE Dispatch(c)
  BY <1>10, <1>11 DEF Dispatch, Dispatched
<1>12. CASE BackoffEnds(c)
  BY <1>10, <1>12 DEF BackoffEnds, Dispatched
<1>13. CASE Answer(c)
  <2>1. PICK value \in Values :
          IF value \in {"plain", "stream"}
          THEN at[c] = "racing" /\ Returns(c) /\ UNCHANGED <<read, attempt, cancelled, answered>>
          ELSE AnswerFailed(c, ReturnError(value))
    BY <1>13 DEF Answer
  <2>2. CASE value \in {"plain", "stream"}
    BY <2>1, <2>2 DEF Step, Dispatched
  <2>3. CASE value = "target"
    <3>1. ReturnError(value) = Thrown("SerializationError", {})
      BY <2>3, Zenon DEF ReturnError
    <3>2. /\ ReturnError(value).class = Foreign
          /\ ReturnError(value).says \in SUBSET DOMAIN MarkerClass
      BY <3>1 DEF Thrown, Error
    <3> QED
      BY <2>1, <2>3, <3>2, AnswerFailedStep DEF Step
  <2>4. CASE value = "stub"
    <3>1. ReturnError(value) = New("SerializationError", {})
      BY <2>4, Zenon DEF ReturnError
    <3> QED
      BY <2>1, <2>4, <3>1, AnswerFailedStep DEF Step
  <2>5. CASE value = "large"
    <3>1. ReturnError(value) = New("ReturnTooLargeError", {})
      BY <2>5, Zenon DEF ReturnError
    <3> QED
      BY <2>1, <2>5, <3>1, AnswerFailedStep DEF Step
  <2> QED
    BY <2>2, <2>3, <2>4, <2>5 DEF Values
<1>14. CASE TimeoutFires(c)
  <2>1. /\ Tells(MarshalError(New("TimeoutError", {})), "timeout")
        /\ MarshalError(New("TimeoutError", {})).name = MarshalError(New("TimeoutError", {})).class
    BY MarshalRaceError, NewFields, Names DEF Tells, HeldClasses
  <2> QED
    BY <1>14, <2>1, RejectedStep DEF TimeoutFires
<1>15. CASE DeadlineFires(c)
  <2>1. /\ Tells(MarshalError(New("DeadlineExceededError", {})), "deadline")
        /\ MarshalError(New("DeadlineExceededError", {})).name
             = MarshalError(New("DeadlineExceededError", {})).class
    BY MarshalRaceError, Names DEF Tells, HeldClasses
  <2> QED
    BY <1>15, <2>1, RejectedStep DEF DeadlineFires
<1>16. CASE Cancel(c)
  <2>1. /\ Tells(MarshalError(New("CancelledError", {})), "cancel")
        /\ MarshalError(New("CancelledError", {})).name
             = MarshalError(New("CancelledError", {})).class
    BY MarshalRaceError, Names DEF Tells, HeldClasses
  <2>2. CASE at[c] = "racing"
    BY <1>16, <2>1, <2>2, RejectedStep DEF Cancel
  <2>3. CASE at[c] # "racing"
    BY <1>16, <2>3 DEF Cancel, Step
  <2> QED
    BY <2>2, <2>3
<1>17. ASSUME NEW e \in Failures, AnswerFailed(c, e) PROVE Step(c)
  <2>1. e.class = Foreign /\ e.says \in SUBSET DOMAIN MarkerClass
    BY SubmitPathAssumption
  <2> QED
    BY <1>17, <2>1, AnswerFailedStep DEF Step
<1>18. ASSUME NEW e \in Failures, AnswerLost(c, e) PROVE Step(c)
  <2>1. e.class = Foreign /\ e.says \in SUBSET DOMAIN MarkerClass
    BY SubmitPathAssumption
  <2>2. Tells(MarshalError(e), Kind(e)) /\ MarshalError(e).name = MarshalError(e).class
    BY <2>1, MarshalForeign, Names DEF Tells, HeldClasses
  <2> QED
    BY <1>18, <2>2, RejectedStep DEF AnswerLost
<1> QED
  BY <1>4, <1>5, <1>6, <1>7, <1>8, <1>9, <1>11, <1>12, <1>13, <1>14, <1>15, <1>16, <1>17, <1>18

-----------------------------------------------------------------------------
(* The causes are told apart.                                                *)

\* A call that has not ended has no cause yet.
Unsettled == \A c \in Calls : at[c] # "done" => cause[c] = "none"

LEMMA ToldEach == CausesAreToldApart <=> \A c \in Calls : ToldApart(c)
BY DEF CausesAreToldApart, ToldApart

\* Nothing is told of a call that no step of its own has ended.
LEMMA Untold ==
  ASSUME NEW c \in Calls, cause[c] \in {"none", "value"} PROVE ToldApart(c)
BY DEF ToldApart, Settled

LEMMA OthersTold ==
  ASSUME Typed, NEW c \in Calls, OthersKeep(c), NEW d \in Calls \ {c},
         NEW s, at' = [at EXCEPT ![c] = s]
  PROVE  /\ ToldApart(d) => ToldApart(d)'
         /\ at'[d] = at[d] /\ cause'[d] = cause[d]
<1>1. at'[d] = at[d] /\ cause'[d] = cause[d] /\ outcome'[d] = outcome[d]
  BY DEF Typed, OthersKeep
<1> QED
  BY <1>1 DEF ToldApart, Settled, Held

LEMMA TypedStep ==
  ASSUME Typed, NEW c \in Calls, Step(c)
  PROVE  Typed'
<1>1. CASE Moves(c)
  BY <1>1 DEF Moves, OthersKeep, Typed
<1>2. CASE Enters(c)
  <2>1. stats' \in Stats
    BY <1>2, StatsUpdated DEF Enters, Count, Typed
  <2> QED
    BY <1>2, <2>1 DEF Enters, Typed, States
<1>3. CASE Fails(c)
  <2>1. events' \in [Calls -> [taskEnd : Int, taskError : Int]]
    BY <1>3 DEF Fails, Typed
  <2> QED
    BY <1>3, <2>1 DEF Fails, CountsAnswered, CountsDispatched, OthersKeep, Typed, States
<1>4. CASE IsRefused(c)
  BY <1>4 DEF IsRefused, OthersKeep, Typed, States
<1>5. CASE Returns(c)
  <2>1. events' \in [Calls -> [taskEnd : Int, taskError : Int]]
    BY <1>5 DEF Returns, Emit, Typed
  <2>2. \/ stats' = stats
        \/ stats' = [stats EXCEPT !.completed = @ + 1, !.inFlight = @ - 1]
    BY <1>5 DEF Returns, Count
  <2>3. stats' \in Stats
    BY <2>2, StatsUpdated DEF Typed
  <2>4. at' \in [Calls -> States] /\ DOMAIN outcome' = Calls /\ DOMAIN cause' = Calls
    BY <1>5 DEF Returns, Done, Typed, States
  <2> QED
    BY <2>1, <2>3, <2>4 DEF Typed
<1>6. CASE UNCHANGED <<at, outcome, cause, events, stats, answered>>
  BY <1>6 DEF Typed
<1> QED
  BY <1>1, <1>2, <1>3, <1>4, <1>5, <1>6 DEF Step

Told == Typed /\ Unsettled /\ \A c \in Calls : ToldApart(c)

LEMMA ToldInit == Init => Told
<1> SUFFICES ASSUME Init PROVE Told
  OBVIOUS
<1>1. Typed
  BY DEF Init, Typed, Stats, States
<1>2. \A c \in Calls : at[c] = "idle" /\ cause[c] = "none"
  BY DEF Init
<1> QED
  BY <1>1, <1>2, Untold DEF Told, Unsettled

LEMMA ToldStep ==
  ASSUME Told, NEW c \in Calls, Step(c)
  PROVE  Told'
<1>1. Typed'
  BY TypedStep DEF Told
<1>2. CASE UNCHANGED <<at, outcome, cause, events, stats, answered>>
  BY <1>1, <1>2 DEF Told, Unsettled, ToldApart, Settled, Held
<1>3. ASSUME NEW s, at' = [at EXCEPT ![c] = s], OthersKeep(c),
             ToldApart(c)', s = "done" \/ cause'[c] = "none"
      PROVE  Told'
  <2>1. \A d \in Calls \ {c} : ToldApart(d)' /\ at'[d] = at[d] /\ cause'[d] = cause[d]
    BY <1>3, OthersTold DEF Told
  <2>2. at'[c] = s
    BY <1>3 DEF Told, Typed
  <2> QED
    BY <1>1, <1>3, <2>1, <2>2 DEF Told, Unsettled
<1>4. CASE Moves(c)
  <2>1. cause'[c] = "none"
    BY <1>4 DEF Moves, Told, Unsettled
  <2>2. ToldApart(c)'
    BY <2>1 DEF ToldApart, Settled
  <2> QED
    BY <1>3, <1>4, <2>1, <2>2 DEF Moves
<1>5. CASE Enters(c)
  <2>1. cause'[c] = "none"
    BY <1>5 DEF Enters, Told, Unsettled
  <2>2. ToldApart(c)'
    BY <2>1 DEF ToldApart, Settled
  <2>3. OthersKeep(c)
    BY <1>5 DEF Enters, OthersKeep, Told, Typed
  <2> QED
    BY <1>3, <1>5, <2>1, <2>2, <2>3 DEF Enters
<1>6. CASE Fails(c)
  BY <1>3, <1>6 DEF Fails
<1>7. CASE IsRefused(c)
  BY <1>3, <1>7 DEF IsRefused
<1>8. CASE Returns(c)
  <2>1. cause'[c] = "value" /\ OthersKeep(c) /\ at' = [at EXCEPT ![c] = "done"]
    BY <1>8 DEF Returns, Done, OthersKeep, Told, Typed
  <2>2. ToldApart(c)'
    BY <2>1 DEF ToldApart, Settled
  <2> QED
    BY <1>3, <2>1, <2>2
<1> QED
  BY <1>2, <1>4, <1>5, <1>6, <1>7, <1>8 DEF Step

LEMMA ToldNext == Told /\ [Next]_vars => Told'
<1> SUFFICES ASSUME Told, [Next]_vars PROVE Told'
  OBVIOUS
<1>1. CASE Next
  BY <1>1, NextIsStep, ToldStep DEF Told
<1>2. CASE UNCHANGED vars
  BY <1>2 DEF vars, call, Told, Typed, Unsettled, ToldApart, Settled, Held
<1> QED
  BY <1>1, <1>2

\* error-marshal.ts, error-decode.ts and errors/index.ts, CausesAreToldApart:
\* by whatever way an error came to the caller, its class, or the name it kept,
\* tells what ended the call, the status of a response is the one of the class
\* the client rebuilds, and the guards take an error and its JSON for the same.
THEOREM CausesTold == Spec => []CausesAreToldApart
<1>1. Told => CausesAreToldApart
  BY ToldEach DEF Told
<1> QED
  BY <1>1, ToldInit, ToldNext, PTL DEF Spec

-----------------------------------------------------------------------------
(* Events and statistics.                                                    *)

\* EventsMatchOutcomes of one call.
Reported(c) ==
  /\ ~Ended(c) => events[c].taskEnd = 0 /\ events[c].taskError = 0
  /\ Ended(c) /\ cause[c] = "value" => events[c].taskEnd = 1 /\ events[c].taskError = 0
  /\ Ended(c) /\ cause[c] # "value" => events[c].taskEnd = 0 /\ events[c].taskError = 1

Owners == Calls \ OverHttp
Returned == {c \in Owners : cause[c] = "value"}
Flying == {c \in Owners : Dispatched(c)}
Answered == {c \in Owners : c \in answered}
Turned == {c \in Owners : Ended(c) /\ ~(cause[c] = "value") /\ Held(c).class = "CancelledError"}

Numbers ==
  /\ stats.completed = Cardinality(Returned) /\ stats.inFlight = Cardinality(Flying)
  /\ stats.failed = Cardinality(Answered) /\ stats.cancelled = Cardinality(Turned)

\* Only a call that ended was answered.
AnsweredEnded == answered \subseteq Calls /\ \A c \in answered : Ended(c)

LEMMA MatchEach ==
  ASSUME Typed, Unsettled, \A c \in Calls : Reported(c), Numbers
  PROVE  EventsMatchOutcomes
<1>1. ASSUME NEW c \in Calls
      PROVE  CASE ~Ended(c)   -> events[c].taskEnd = 0 /\ events[c].taskError = 0
               [] cause[c] = "value" -> events[c].taskEnd = 1 /\ events[c].taskError = 0
               [] OTHER       -> events[c].taskEnd = 0 /\ events[c].taskError = 1
  <2>1. CASE ~Ended(c)
    <3>1. cause[c] # "value"
      BY <2>1 DEF Unsettled, Ended
    <3> QED
      BY <2>1, <3>1, Zenon DEF Reported
  <2>2. CASE Ended(c) /\ cause[c] = "value"
    BY <2>2, Zenon DEF Reported
  <2>3. CASE Ended(c) /\ cause[c] # "value"
    BY <2>3, Zenon DEF Reported
  <2> QED
    BY <2>1, <2>2, <2>3, Zenon
<1>2. stats = [completed |-> Cardinality(Returned), failed |-> Cardinality(Answered),
               cancelled |-> Cardinality(Turned), inFlight |-> Cardinality(Flying)]
  BY DEF Numbers, Typed, Stats
<1>3. stats = [completed |-> Cardinality({c \in Calls \ OverHttp : cause[c] = "value"}),
               failed |-> Cardinality({c \in Calls \ OverHttp : c \in answered}),
               cancelled |-> Cardinality({c \in Calls \ OverHttp :
                 Ended(c) /\ ~(cause[c] = "value") /\ Held(c).class = "CancelledError"}),
               inFlight |-> Cardinality({c \in Calls \ OverHttp : Dispatched(c)})]
  BY <1>2, Zenon DEF Returned, Flying, Answered, Turned, Owners
<1> QED
  BY <1>1, <1>3, Zenon DEF EventsMatchOutcomes

\* The calls of a set that a step changes for one of them only.
LEMMA OthersSame ==
  ASSUME Typed, NEW c \in Calls, NEW s, at' = [at EXCEPT ![c] = s], OthersKeep(c)
  PROVE  \A d \in Calls \ {c} : /\ Dispatched(d)' = Dispatched(d) /\ Ended(d)' = Ended(d)
                                /\ cause'[d] = cause[d] /\ Held(d)' = Held(d)
<1> SUFFICES ASSUME NEW d \in Calls \ {c}
             PROVE  /\ Dispatched(d)' = Dispatched(d) /\ Ended(d)' = Ended(d)
                    /\ cause'[d] = cause[d] /\ Held(d)' = Held(d)
  OBVIOUS
<1>1. at'[d] = at[d] /\ cause'[d] = cause[d] /\ outcome'[d] = outcome[d]
  BY DEF Typed, OthersKeep
<1> QED
  BY <1>1 DEF Dispatched, Ended, Held

LEMMA Finite ==
  \A S \in {Returned, Flying, Answered, Turned} : IsFiniteSet(S) /\ Cardinality(S) \in Nat
<1>1. \A S \in {Returned, Flying, Answered, Turned} : S \subseteq Calls
  BY DEF Returned, Flying, Answered, Turned, Owners
<1> QED
  BY <1>1, SubmitPathAssumption, FS_Subset, FS_CardinalityType

Matched == Typed /\ Unsettled /\ (\A c \in Calls : Reported(c)) /\ AnsweredEnded /\ Numbers

LEMMA MatchedInit == Init => Matched
<1> SUFFICES ASSUME Init PROVE Matched
  OBVIOUS
<1>1. Typed /\ Unsettled
  BY ToldInit DEF Told
<1>2. \A c \in Calls : ~Ended(c) /\ ~Dispatched(c) /\ cause[c] # "value"
  BY DEF Init, Ended, Dispatched
<1>3. \A c \in Calls : Reported(c)
  BY <1>2 DEF Init, Reported
<1>4. AnsweredEnded
  BY DEF Init, AnsweredEnded
<1>5. Returned = {} /\ Flying = {} /\ Answered = {} /\ Turned = {}
  BY <1>2 DEF Init, Returned, Flying, Answered, Turned, Owners
<1>6. Numbers
  BY <1>5, FS_EmptySet DEF Init, Numbers
<1> QED
  BY <1>1, <1>3, <1>4, <1>6 DEF Matched

\* A step of one call that leaves what is said of the others.
LEMMA OthersMatched ==
  ASSUME Matched, NEW c \in Calls, NEW s, at' = [at EXCEPT ![c] = s], OthersKeep(c),
         \A d \in Calls \ {c} : events'[d] = events[d],
         answered' \in {answered, answered \cup {c}},
         Reported(c)', c \in answered' => Ended(c)'
  PROVE  /\ \A d \in Calls : Reported(d)'
         /\ AnsweredEnded'
<1>1. \A d \in Calls \ {c} : /\ Dispatched(d)' = Dispatched(d) /\ Ended(d)' = Ended(d)
                             /\ cause'[d] = cause[d] /\ Held(d)' = Held(d)
  BY OthersSame DEF Matched
<1>2. \A d \in Calls : Reported(d)'
  BY <1>1 DEF Matched, Reported
<1>3. AnsweredEnded'
  BY <1>1 DEF Matched, AnsweredEnded
<1> QED
  BY <1>2, <1>3

LEMMA MatchedStep ==
  ASSUME Matched, NEW c \in Calls, Step(c), Unsettled'
  PROVE  Matched'
<1>1. Typed'
  BY TypedStep DEF Matched
<1>2. CASE UNCHANGED <<at, outcome, cause, events, stats, answered>>
  BY <1>1, <1>2 DEF Matched, Reported, AnsweredEnded, Numbers, Returned, Flying, Answered,
                    Turned, Ended, Dispatched, Held
<1>3. /\ stats.completed \in Int /\ stats.failed \in Int
      /\ stats.cancelled \in Int /\ stats.inFlight \in Int
  BY DEF Matched, Typed, Stats
<1>4. ASSUME NEW s, at' = [at EXCEPT ![c] = s], OthersKeep(c)
      PROVE  \A d \in Calls \ {c} : /\ Dispatched(d)' = Dispatched(d) /\ Ended(d)' = Ended(d)
                                    /\ cause'[d] = cause[d] /\ Held(d)' = Held(d)
  BY <1>4, OthersSame DEF Matched
<1>5. CASE Moves(c)
  <2>1. \A d \in Calls \ {c} : /\ Dispatched(d)' = Dispatched(d) /\ Ended(d)' = Ended(d)
                               /\ cause'[d] = cause[d] /\ Held(d)' = Held(d)
    BY <1>4, <1>5 DEF Moves
  <2>2. /\ ~Ended(c) /\ ~Ended(c)' /\ cause'[c] = cause[c] /\ Dispatched(c)' = Dispatched(c)
        /\ answered' = answered
    BY <1>5 DEF Moves, Ended, Matched, Unsettled
  <2>3. Returned' = Returned /\ Flying' = Flying /\ Answered' = Answered /\ Turned' = Turned
    BY <2>1, <2>2 DEF Returned, Flying, Answered, Turned, Owners
  <2>4. Reported(c)' /\ c \notin answered'
    BY <1>5, <2>2 DEF Moves, Matched, Reported, AnsweredEnded
  <2>5. (\A d \in Calls : Reported(d)') /\ AnsweredEnded'
    BY <1>5, <2>2, <2>4, OthersMatched DEF Moves
  <2> QED
    BY <1>1, <1>5, <2>3, <2>5 DEF Moves, Matched, Numbers
<1>6. CASE Enters(c)
  <2>1. OthersKeep(c)
    BY <1>6 DEF Enters, OthersKeep, Matched, Typed
  <2>2. \A d \in Calls \ {c} : /\ Dispatched(d)' = Dispatched(d) /\ Ended(d)' = Ended(d)
                               /\ cause'[d] = cause[d] /\ Held(d)' = Held(d)
    BY <1>4, <1>6, <2>1 DEF Enters
  <2>3. /\ ~Ended(c) /\ ~Ended(c)' /\ cause'[c] = cause[c] /\ ~Dispatched(c) /\ Dispatched(c)'
        /\ answered' = answered
    BY <1>6 DEF Enters, Ended, Dispatched, Matched, Typed
  <2>4. /\ Returned' = Returned /\ Answered' = Answered /\ Turned' = Turned
        /\ Flying' = IF c \in OverHttp THEN Flying ELSE Flying \cup {c}
        /\ c \notin Flying
    BY <2>2, <2>3 DEF Returned, Flying, Answered, Turned, Owners
  <2>5. Reported(c)' /\ c \notin answered'
    BY <1>6, <2>3 DEF Enters, Matched, Reported, AnsweredEnded
  <2>6. (\A d \in Calls : Reported(d)') /\ AnsweredEnded'
    BY <1>6, <2>1, <2>3, <2>5, OthersMatched DEF Enters
  <2>7. Cardinality(Flying') = IF c \in OverHttp THEN Cardinality(Flying)
                               ELSE Cardinality(Flying) + 1
    BY <2>4, Finite, FS_AddElement
  <2>8. /\ stats'.completed = stats.completed /\ stats'.failed = stats.failed
        /\ stats'.cancelled = stats.cancelled
        /\ stats'.inFlight = IF c \in OverHttp THEN stats.inFlight ELSE stats.inFlight + 1
    BY <1>6 DEF Enters, Count, Matched, Typed, Stats
  <2> QED
    BY <1>1, <2>4, <2>6, <2>7, <2>8 DEF Matched, Numbers
<1>7. ASSUME Dispatched(c), at' = [at EXCEPT ![c] = "done"], OthersKeep(c),
             cause'[c] \notin {"none", "refused"}, answered' \in {answered, answered \cup {c}}
      PROVE  LET owned == c \notin OverHttp
                 returns == owned /\ cause'[c] = "value"
                 answers == owned /\ c \in answered'
                 turns == owned /\ cause'[c] # "value" /\ Held(c)'.class = "CancelledError"
                 Grown(S, P) == IF P THEN Cardinality(S) + 1 ELSE Cardinality(S)
             IN /\ ~Ended(c) /\ Ended(c)'
                /\ Cardinality(Flying') = IF owned THEN Cardinality(Flying) - 1
                                          ELSE Cardinality(Flying)
                /\ Cardinality(Returned') = Grown(Returned, returns)
                /\ Cardinality(Answered') = Grown(Answered, answers)
                /\ Cardinality(Turned') = Grown(Turned, turns)
                /\ c \notin answered
  <2>1. \A d \in Calls \ {c} : /\ Dispatched(d)' = Dispatched(d) /\ Ended(d)' = Ended(d)
                               /\ cause'[d] = cause[d] /\ Held(d)' = Held(d)
    BY <1>4, <1>7
  <2>2. ~Ended(c) /\ Ended(c)' /\ cause[c] = "none" /\ ~Dispatched(c)'
    BY <1>7 DEF Dispatched, Ended, Matched, Typed, Unsettled
  <2>3. /\ c \notin answered
        /\ c \notin Returned /\ c \notin Answered /\ c \notin Turned
    BY <2>2 DEF Matched, AnsweredEnded, Returned, Answered, Turned
  <2>4. /\ Flying' = IF c \in OverHttp THEN Flying ELSE Flying \ {c}
        /\ c \notin OverHttp => c \in Flying
    BY <1>7, <2>1, <2>2 DEF Flying, Owners
  <2>5. Returned' = IF c \notin OverHttp /\ cause'[c] = "value"
                    THEN Returned \cup {c} ELSE Returned
    BY <2>1, <2>2 DEF Returned, Owners
  <2>6. Answered' = IF c \notin OverHttp /\ c \in answered'
                    THEN Answered \cup {c} ELSE Answered
    BY <1>7, <2>3 DEF Answered, Owners
  <2>7. Turned' = IF c \notin OverHttp /\ cause'[c] # "value" /\ Held(c)'.class = "CancelledError"
                  THEN Turned \cup {c} ELSE Turned
    BY <2>1, <2>2 DEF Turned, Owners
  <2>8. c \notin OverHttp => Cardinality(Flying \ {c}) = Cardinality(Flying) - 1
    BY <2>4, Finite, FS_RemoveElement
  <2>9. /\ Cardinality(Returned \cup {c}) = Cardinality(Returned) + 1
        /\ Cardinality(Answered \cup {c}) = Cardinality(Answered) + 1
        /\ Cardinality(Turned \cup {c}) = Cardinality(Turned) + 1
    BY <2>3, Finite, FS_AddElement
  <2> QED
    BY <2>2, <2>3, <2>4, <2>5, <2>6, <2>7, <2>8, <2>9
<1>8. CASE Fails(c)
  <2>1. /\ cause'[c] # "value" /\ cause'[c] \notin {"none", "refused"}
        /\ answered' \in {answered, answered \cup {c}}
    BY <1>8 DEF Fails, CountsAnswered, CountsDispatched
  <2>2. /\ ~Ended(c) /\ Ended(c)'
        /\ Cardinality(Flying') = IF c \in OverHttp THEN Cardinality(Flying)
                                  ELSE Cardinality(Flying) - 1
        /\ Cardinality(Returned') = Cardinality(Returned)
        /\ Cardinality(Answered') = IF c \notin OverHttp /\ c \in answered'
                                    THEN Cardinality(Answered) + 1 ELSE Cardinality(Answered)
        /\ Cardinality(Turned') = IF c \notin OverHttp /\ Held(c)'.class = "CancelledError"
                                  THEN Cardinality(Turned) + 1 ELSE Cardinality(Turned)
        /\ c \notin answered
    BY <1>7, <1>8, <2>1 DEF Fails
  <2>3. Reported(c)'
    BY <1>8, <2>1, <2>2 DEF Fails, Matched, Typed, Reported
  <2>4. \A d \in Calls \ {c} : events'[d] = events[d]
    BY <1>8 DEF Fails, Matched, Typed
  <2>5. (\A d \in Calls : Reported(d)') /\ AnsweredEnded'
    BY <1>8, <2>1, <2>2, <2>3, <2>4, OthersMatched DEF Fails
  <2>6. Numbers'
    <3>1. CASE c \in OverHttp
      BY <1>8, <2>2, <3>1 DEF Fails, Matched, Numbers
    <3>2. CASE c \notin OverHttp /\ CountsAnswered(c)
      BY <1>8, <2>2, <3>2 DEF Fails, CountsAnswered, Matched, Numbers
    <3>3. CASE c \notin OverHttp /\ CountsDispatched(c)
      BY <1>8, <2>2, <3>3 DEF Fails, CountsDispatched, Matched, Numbers
    <3> QED
      BY <1>8, <3>1, <3>2, <3>3 DEF Fails
  <2> QED
    BY <1>1, <2>5, <2>6 DEF Matched
<1>9. CASE Dispatched(c) /\ Returns(c) /\ answered' = answered
  <2>1. /\ at' = [at EXCEPT ![c] = "done"] /\ OthersKeep(c) /\ cause'[c] = "value"
        /\ events' = [events EXCEPT ![c].taskEnd = @ + 1]
    BY <1>9 DEF Returns, Done, Emit, OthersKeep, Matched, Typed
  <2>2. /\ ~Ended(c) /\ Ended(c)'
        /\ Cardinality(Flying') = IF c \in OverHttp THEN Cardinality(Flying)
                                  ELSE Cardinality(Flying) - 1
        /\ Cardinality(Returned') = IF c \in OverHttp THEN Cardinality(Returned)
                                    ELSE Cardinality(Returned) + 1
        /\ Cardinality(Answered') = Cardinality(Answered)
        /\ Cardinality(Turned') = Cardinality(Turned)
    BY <1>7, <1>9, <2>1
  <2>3. Reported(c)'
    BY <2>1, <2>2 DEF Matched, Typed, Reported
  <2>4. \A d \in Calls \ {c} : events'[d] = events[d]
    BY <2>1 DEF Matched, Typed
  <2>5. (\A d \in Calls : Reported(d)') /\ AnsweredEnded'
    BY <1>9, <2>1, <2>2, <2>3, <2>4, OthersMatched
  <2>6. /\ stats'.failed = stats.failed /\ stats'.cancelled = stats.cancelled
        /\ stats'.completed = IF c \in OverHttp THEN stats.completed ELSE stats.completed + 1
        /\ stats'.inFlight = IF c \in OverHttp THEN stats.inFlight ELSE stats.inFlight - 1
    BY <1>9 DEF Returns, Count, Matched, Typed, Stats
  <2>7. Numbers'
    BY <2>2, <2>6 DEF Matched, Numbers
  <2> QED
    BY <1>1, <2>5, <2>7 DEF Matched
<1>10. CASE IsRefused(c)
  <2>1. \A d \in Calls \ {c} : /\ Dispatched(d)' = Dispatched(d) /\ Ended(d)' = Ended(d)
                               /\ cause'[d] = cause[d] /\ Held(d)' = Held(d)
    BY <1>4, <1>10 DEF IsRefused
  <2>2. /\ ~Ended(c) /\ ~Ended(c)' /\ cause[c] = "none" /\ cause'[c] = "refused"
        /\ ~Dispatched(c) /\ ~Dispatched(c)' /\ answered' = answered
    BY <1>10 DEF IsRefused, Ended, Dispatched, Matched, Typed, Unsettled
  <2>3. Returned' = Returned /\ Flying' = Flying /\ Answered' = Answered /\ Turned' = Turned
    BY <2>1, <2>2 DEF Returned, Flying, Answered, Turned, Owners
  <2>4. Reported(c)' /\ c \notin answered'
    BY <1>10, <2>2 DEF IsRefused, Matched, Reported, AnsweredEnded
  <2>5. (\A d \in Calls : Reported(d)') /\ AnsweredEnded'
    BY <1>10, <2>2, <2>4, OthersMatched DEF IsRefused
  <2> QED
    BY <1>1, <1>10, <2>3, <2>5 DEF IsRefused, Matched, Numbers
<1> QED
  BY <1>2, <1>5, <1>6, <1>8, <1>9, <1>10 DEF Step

LEMMA MatchedNext == Told /\ Matched /\ [Next]_vars => Matched'
<1> SUFFICES ASSUME Told, Matched, [Next]_vars PROVE Matched'
  OBVIOUS
<1>1. Unsettled'
  BY ToldNext DEF Told
<1>2. CASE Next
  BY <1>1, <1>2, NextIsStep, MatchedStep DEF Matched
<1>3. CASE UNCHANGED vars
  BY <1>3 DEF vars, call, Matched, Typed, Unsettled, Reported, AnsweredEnded, Numbers,
              Returned, Flying, Answered, Turned, Ended, Dispatched, Held
<1> QED
  BY <1>2, <1>3

\* pool.ts #runOneSource, EventsMatchOutcomes: whichever of its four paths a
\* call leaves by, it reports one end or one error, and the pool's statistics
\* are the numbers of its owner's calls that returned, that are under way, that
\* a coordinator answered with a failure and that a cancel kept from an attempt.
THEOREM EventsMatch == Spec => []EventsMatchOutcomes
<1>1. Matched => EventsMatchOutcomes
  BY MatchEach DEF Matched
<1> QED
  BY <1>1, ToldInit, ToldNext, MatchedInit, MatchedNext, PTL DEF Spec
=============================================================================
