----------------------------- MODULE CancelPath -----------------------------
(***************************************************************************)
(* How a cancel travels from a CancelToken to env.signal of the functions  *)
(* that run for a call.  Pool makes one cancel stream per call             *)
(* (transport/cancel-stream.ts), every tier that fans out forks it, and    *)
(* LoaderRunner (loader/runner.ts) hands the last one to the Worker Loader *)
(* as env.cancelStream of the isolate it asks for.                         *)
(*                                                                         *)
(* A stream is named by its hop.  The Worker Loader is external: it loads  *)
(* an isolate when it holds none under the key (loader/cache-key.ts), and  *)
(* env is that of the load; the request that loads an isolate is the first *)
(* to run in it; it may unload an isolate nothing runs in.                 *)
(***************************************************************************)
EXTENDS CancelToken

CONSTANTS
  Calls,        \* calls of a pool, each with a token
  TokenOf,      \* options.cancel of each call
  Streams,      \* the hops: each call's own stream and the forks of it
  CallOf,       \* the call of each stream
  Up,           \* the stream it is forked from, NoStream for a call's own
  Slots,        \* keys of isolates: function, context and taskSlot
  SlotOf,       \* the slot of each stream that ends at an isolate
  FreshCalls,   \* calls with freshIsolate
  MaxResets,    \* leaf requests that fail with a transient error
  MaxResends,   \* requests that Pool sends again
  NoStream, NotLoaded

Down(s) == {d \in Streams : Up[d] = s}
Leaves == {s \in Streams : Down(s) = {}}
Inner == Streams \ Leaves
Own(c) == CHOOSE s \in Streams : CallOf[s] = c /\ Up[s] = NoStream

ASSUME CancelPathAssumption ==
  /\ IsFiniteSet(Tokens) /\ IsFiniteSet(Streams)
  /\ TokenOf \in [Calls -> Tokens]
  /\ CallOf \in [Streams -> Calls]
  /\ NoStream \notin Streams /\ NotLoaded \notin Streams /\ NotLoaded # NoStream
  /\ Up \in [Streams -> Streams \cup {NoStream}]
  /\ \A s \in Streams : Up[s] \in Streams => CallOf[Up[s]] = CallOf[s]
  /\ \A c \in Calls : \E s \in Streams : {r \in Streams : CallOf[r] = c /\ Up[r] = NoStream} = {s}
  /\ SlotOf \in [Leaves -> Slots]
  /\ FreshCalls \subseteq Calls
  /\ MaxResets \in Nat /\ MaxResends \in Nat

VARIABLES
  call,         \* "idle", "active" or "ended"
  stream,       \* "none", "open", "chunk" (written and closed) or "closed"
  locked,       \* streams somebody has taken the reader of
  arrived,      \* inner hops whose request was received
  run,          \* per leaf: "waiting", "running" or "done"
  passes,       \* leaves whose request carries their stream
  hears,        \* the stream the function's signal waits for, or NoStream
  tripped,      \* leaves whose env.signal has aborted
  isolate,      \* env.cancelStream of the isolate under each key
  resets, resends

pathVars == <<call, stream, locked, arrived, run, passes, hears, tripped,
              isolate, resets, resends>>
vars == <<tokenVars, pathVars>>

Settled(s) == stream[s] \in {"chunk", "closed"}
LeavesOf(c) == {l \in Leaves : CallOf[l] = c}

Init ==
  /\ TokenInit
  /\ call = [c \in Calls |-> "idle"]
  /\ stream = [s \in Streams |-> "none"]
  /\ locked = {}
  /\ arrived = {}
  /\ run = [l \in Leaves |-> "waiting"]
  /\ passes = Leaves
  /\ hears = [l \in Leaves |-> NoStream]
  /\ tripped = {}
  /\ isolate = [k \in Slots |-> NotLoaded]
  /\ resets = 0
  /\ resends = 0

-----------------------------------------------------------------------------
(* The writers: createCancelStream.  A stream settles once.                 *)

Settle(ss, how) ==
  [s \in Streams |-> IF s \in ss /\ stream[s] = "open" THEN how ELSE stream[s]]

\* Wrong: the subscription of a call whose token is a child is forgotten.
WriteToBareTokens ==
  stream' = Settle({Own(c) : c \in {d \in Calls : /\ token[TokenOf[d]] = "live"
                                                  /\ token'[TokenOf[d]] = "cancelled"
                                                  /\ \A t \in Tokens : TokenOf[d] \notin children[t]}},
                   "chunk")

\* The token's subscribers run inside cancel(): the streams of active calls
\* get the chunk.  A call that has ended has closed its stream.
WriteChunks ==
  stream' = Settle({Own(c) : c \in {d \in Calls : /\ token[TokenOf[d]] = "live"
                                                  /\ token'[TokenOf[d]] = "cancelled"}},
                   "chunk")

TokenStep ==
  /\ TokenNext
  /\ WriteChunks
  /\ UNCHANGED <<call, locked, arrived, run, passes, hears, tripped, isolate,
                 resets, resends>>

-----------------------------------------------------------------------------
(* Pool.                                                                    *)

\* A call makes its stream and subscribes; with a token that is cancelled
\* already no request is sent (dispatchWithResilience looks first).
StartCall(c) ==
  /\ call[c] = "idle"
  /\ token[TokenOf[c]] # "none"
  /\ IF token[TokenOf[c]] = "cancelled"
     THEN call' = [call EXCEPT ![c] = "ended"] /\ UNCHANGED stream
     ELSE /\ call' = [call EXCEPT ![c] = "active"]
          /\ stream' = [stream EXCEPT ![Own(c)] = "open"]
  /\ UNCHANGED <<tokenVars, locked, arrived, run, passes, hears, tripped, isolate,
                 resets, resends>>

\* Wrong: nobody closes the stream of a call that has ended.
EndCallOnly(c) ==
  /\ call[c] = "active"
  /\ call' = [call EXCEPT ![c] = "ended"]
  /\ UNCHANGED <<tokenVars, stream, locked, arrived, run, passes, hears, tripped,
                 isolate, resets, resends>>

\* The call is answered, or its race ends with a timeout, an error or the
\* cancel; what runs for it is not stopped.  The stream is closed.
EndCall(c) ==
  /\ call[c] = "active"
  /\ call' = [call EXCEPT ![c] = "ended"]
  /\ stream' = Settle({Own(c)}, "closed")
  /\ UNCHANGED <<tokenVars, locked, arrived, run, passes, hears, tripped, isolate,
                 resets, resends>>

\* The request failed with an error that dispatchWithResilience retries, and
\* is sent again with the same stream.  A stream that has been read or sent
\* cannot be read again: the forks made from it are closed from the start.
\* Within one isolate a stream nobody has read yet may still do.
Resend(c) ==
  /\ call[c] = "active"
  /\ token[TokenOf[c]] = "live"
  /\ resends < MaxResends
  /\ resends' = resends + 1
  /\ \A l \in LeavesOf(c) : run[l] # "running"
  /\ run' = [l \in Leaves |-> IF CallOf[l] = c THEN "waiting" ELSE run[l]]
  /\ \E keep \in {{}, {Own(c)} \ locked} :
       passes' = passes \ (LeavesOf(c) \ keep)
  /\ UNCHANGED <<tokenVars, call, stream, locked, arrived, hears, tripped, isolate,
                 resets>>

-----------------------------------------------------------------------------
(* forkCancelStream, at the coordinator and at each sub-coordinator.        *)

\* The request of an inner hop is received: a fork for every child.
Fork(s) ==
  /\ s \in Inner \ arrived
  /\ stream[s] # "none"
  /\ Up[s] = NoStream \/ Up[s] \in arrived
  /\ arrived' = arrived \cup {s}
  /\ locked' = locked \cup {s}
  /\ stream' = [d \in Streams |-> IF d \in Down(s) THEN "open" ELSE stream[d]]
  /\ UNCHANGED <<tokenVars, call, run, passes, hears, tripped, isolate, resets, resends>>

\* Wrong: the pump passes a chunk on and forgets the end of the stream.
PumpChunksOnly(s) ==
  /\ s \in arrived
  /\ stream[s] = "chunk"
  /\ \E d \in Down(s) : stream[d] = "open"
  /\ stream' = Settle(Down(s), stream[s])
  /\ UNCHANGED <<tokenVars, call, locked, arrived, run, passes, hears, tripped,
                 isolate, resets, resends>>

\* The pump reads: one chunk cancels every fork, the end closes them.
Pump(s) ==
  /\ s \in arrived
  /\ Settled(s)
  /\ \E d \in Down(s) : stream[d] = "open"
  /\ stream' = Settle(Down(s), stream[s])
  /\ UNCHANGED <<tokenVars, call, locked, arrived, run, passes, hears, tripped,
                 isolate, resets, resends>>

-----------------------------------------------------------------------------
(* LoaderRunner, the Worker Loader and the prologue of a loaded function.   *)

Requested(l) == stream[l] # "none" /\ (Up[l] = NoStream \/ Up[l] \in arrived)

\* Options of the run in the code: what the isolate is loaded with.
Offered(l) == IF l \in passes THEN l ELSE NoStream

\* freshIsolate makes a key of its own; otherwise the key is the slot's.
Env(l) ==
  IF CallOf[l] \in FreshCalls \/ isolate[SlotOf[l]] = NotLoaded
  THEN Offered(l) ELSE isolate[SlotOf[l]]

\* Wrong: a reader of its own for every run, whoever reads already.
ListensAnyway(s) == s

\* The prologue takes the reader of env.cancelStream; a stream that is locked
\* makes it throw, and the signal never aborts.
Listens(s) == IF s = NoStream \/ s \in locked THEN NoStream ELSE s

RunStarts(l) ==
  /\ run[l] = "waiting"
  /\ Requested(l)
  /\ run' = [run EXCEPT ![l] = "running"]
  /\ isolate' = IF CallOf[l] \in FreshCalls THEN isolate
                ELSE [isolate EXCEPT ![SlotOf[l]] = Env(l)]
  /\ hears' = [hears EXCEPT ![l] = Listens(Env(l))]
  /\ locked' = locked \cup ({Env(l)} \ {NoStream})
  /\ tripped' = tripped \ {l}
  /\ UNCHANGED <<tokenVars, call, stream, arrived, passes, resets, resends>>

\* Wrong: the end of the stream aborts the signal as a chunk does.
HearAnything(l) ==
  /\ hears[l] # NoStream
  /\ Settled(hears[l])
  /\ tripped' = tripped \cup {l}
  /\ hears' = [hears EXCEPT ![l] = NoStream]
  /\ UNCHANGED <<tokenVars, call, stream, locked, arrived, run, passes, isolate,
                 resets, resends>>

\* The one read: a chunk aborts env.signal, the end does nothing.  A run that
\* has returned leaves its read pending.
Hear(l) ==
  /\ hears[l] # NoStream
  /\ Settled(hears[l])
  /\ tripped' = IF stream[hears[l]] = "chunk" THEN tripped \cup {l} ELSE tripped
  /\ hears' = [hears EXCEPT ![l] = NoStream]
  /\ UNCHANGED <<tokenVars, call, stream, locked, arrived, run, passes, isolate,
                 resets, resends>>

RunEnds(l) ==
  /\ run[l] = "running"
  /\ run' = [run EXCEPT ![l] = "done"]
  /\ UNCHANGED <<tokenVars, call, stream, locked, arrived, passes, hears, tripped,
                 isolate, resets, resends>>

\* The leaf object is reset: its caller sends the batch again, without a stream.
Reset(l) ==
  /\ run[l] = "running"
  /\ Up[l] # NoStream
  /\ resets < MaxResets
  /\ resets' = resets + 1
  /\ run' = [run EXCEPT ![l] = "waiting"]
  /\ passes' = passes \ {l}
  /\ UNCHANGED <<tokenVars, call, stream, locked, arrived, hears, tripped, isolate,
                 resends>>

\* The Worker Loader unloads an isolate.
Evict(k) ==
  /\ isolate[k] # NotLoaded
  /\ \A l \in Leaves : run[l] = "running" => SlotOf[l] # k
  /\ isolate' = [isolate EXCEPT ![k] = NotLoaded]
  /\ UNCHANGED <<tokenVars, call, stream, locked, arrived, run, passes, hears,
                 tripped, resets, resends>>

Next ==
  \/ TokenStep
  \/ \E c \in Calls : StartCall(c) \/ EndCall(c) \/ Resend(c)
  \/ \E s \in Inner : Fork(s) \/ Pump(s)
  \/ \E l \in Leaves : RunStarts(l) \/ Hear(l) \/ RunEnds(l) \/ Reset(l)
  \/ \E k \in Slots : Evict(k)

Spec == Init /\ [][Next]_vars

\* Fairness: what has been written or closed is read, and a started function
\* takes its reader; nobody has to cancel, to return or to end a call.
FairSpec ==
  /\ Spec
  /\ \A s \in Inner : WF_vars(Pump(s))
  /\ \A l \in Leaves : WF_vars(Hear(l))

-----------------------------------------------------------------------------
(* Properties.                                                              *)

\* Every variable has its type.  Code: the states of api/cancel.ts,
\* transport/cancel-stream.ts and the requests that carry a stream.
TypeOK ==
  /\ token \in [Tokens -> {"none", "live", "cancelled"}]
  /\ children \in [Tokens -> SUBSET Tokens]
  /\ mirrors \subseteq Tokens /\ due \subseteq Tokens /\ aborted \in BOOLEAN
  /\ linked \subseteq Tokens \X Tokens
  /\ call \in [Calls -> {"idle", "active", "ended"}]
  /\ stream \in [Streams -> {"none", "open", "chunk", "closed"}]
  /\ locked \subseteq Streams /\ arrived \subseteq Inner
  /\ run \in [Leaves -> {"waiting", "running", "done"}]
  /\ passes \subseteq Leaves /\ tripped \subseteq Leaves
  /\ hears \in [Leaves -> Streams \cup {NoStream}]
  /\ isolate \in [Slots -> Streams \cup {NoStream, NotLoaded}]
  /\ resets \in 0 .. MaxResets /\ resends \in 0 .. MaxResends

\* No child of a cancelled token stays live, however cancels, the creation of
\* children and the outside signal follow each other; only a parent that was
\* disposed lets its children go.  Code: CancelToken.cancel and child.
CancelCoversTree ==
  \A l \in linked : token[l[1]] = "cancelled" => token[l[2]] = "cancelled"

\* A function's signal aborts only for the cancel of its own call, although
\* isolates, and the stream in their env, are shared between calls.  Code: the
\* prologue's reader (loader/codegen.ts) against the cached env.
NoStrayAbort == \A l \in tripped : token[TokenOf[CallOf[l]]] = "cancelled"

\* A run that loaded its isolate with its own stream hears the cancel.  Code:
\* the path Pool, Coordinator, leaf, env.cancelStream, cfpMakeAbortSignal.
ListensToItsOwn(l) == run[l] = "running" /\ hears[l] = l
Cancelled(l) == call[CallOf[l]] = "active" /\ token[TokenOf[CallOf[l]]] = "cancelled"
CancelReachesListeners ==
  \A l \in Leaves : (ListensToItsOwn(l) /\ Cancelled(l)) ~> (l \in tripped \/ run[l] # "running")

\* Once a call has ended no read stays pending on any of its streams.  Code:
\* cancelWriter.close() in Pool's catch and finally, and the pump's done branch.
EndedCallsReleaseReaders ==
  \A c \in Calls : (call[c] = "ended") ~>
    \A l \in Leaves : hears[l] # NoStream => CallOf[hears[l]] # c

=============================================================================
