--------------------------- MODULE LoaderOnlyPool ---------------------------
(***************************************************************************)
(* LoaderOnlyPool.map and scatter (api/loader-only-pool.ts): runFanOut     *)
(* over items, each run by #runOnce, that is by dispatchWithResilience     *)
(* around the runner.  Item i is call i of LoaderPool.  FanOut leaves open *)
(* when an item ends and how; here it ends when its call has settled, and  *)
(* a worker that pulls an item makes its call at once.                     *)
(*                                                                         *)
(* One token is shared by all items: options.cancel.                       *)
(***************************************************************************)
EXTENDS LoaderPool, FanOutOptions

ASSUME LoaderOnlyPoolAssumption == Calls = 1 .. Size

VARIABLES onError, concurrency, cursor, aborted, settled, worker, result

Fan == INSTANCE FanOut

fanVars == <<onError, concurrency, cursor, aborted, settled, worker, result>>
poolVars == <<vars, fanVars>>

PoolInit == Init /\ Fan!Init

\* Items a worker has pulled and whose call is not made yet.
Pulled == {worker[w] : w \in Fan!Running} \cap {c \in Calls : at[c] = "idle"}

\* A token that has been cancelled is telling its listeners.
Telling == cancelled # {} /\ cancelled # Calls

\* Code between two awaits: the calls of the items just pulled are made in the
\* order of the items, and the listeners of a cancel run one after the other.
Quiet == Pulled = {} /\ ~Telling

IsFirst(c, S) == c \in S /\ \A d \in S : c <= d

\* The worker's run(item, idx): #runOnce.
RunOnce ==
  /\ \E c \in Calls : IsFirst(c, Pulled) /\ Submit(c)
  /\ UNCHANGED fanVars

\* token.cancel(): its listeners, one per call.
CancelToken ==
  /\ Pulled = {}
  /\ \E c \in Calls : IsFirst(c, Calls \ cancelled) /\ Cancel(c)
  /\ UNCHANGED fanVars

Timer(c) == BackoffEnds(c) \/ TimeoutFires(c) \/ DeadlineFires(c)

\* What the calls do, from the item's submit on.
CallMoves ==
  /\ Quiet
  /\ \/ \E c \in Calls : \/ at[c] # "idle" /\ Timer(c)
                         \/ DeadlinePasses(c)
     \/ \E t \in Tasks : TaskStep(t)
  /\ UNCHANGED fanVars

\* The await of run() in runOne resumes: the outcome is recorded.
ItemEnds(w) ==
  /\ Quiet
  /\ worker[w] \in Fan!Items
  /\ at[worker[w]] = "done"
  /\ IF outcome[worker[w]] = "value" THEN Fan!ItemOk(w) ELSE Fan!ItemFails(w)
  /\ UNCHANGED vars

WorkerTurn(w) == Quiet /\ (Fan!Pull(w) \/ Fan!Leave(w)) /\ UNCHANGED vars

MapEnds == Quiet /\ Fan!Conclude /\ UNCHANGED vars

FanStep ==
  \/ \E w \in DOMAIN worker : ItemEnds(w) \/ WorkerTurn(w)
  \/ MapEnds

PoolNext == RunOnce \/ CancelToken \/ CallMoves \/ FanStep

PoolSpec == PoolInit /\ [][PoolNext]_poolVars

\* Timers fire, continuations and listeners run, and a function that does not
\* hang ends.  Whether a token is cancelled and a deadline passes is open.
PoolFairSpec ==
  /\ PoolSpec
  /\ WF_poolVars(RunOnce) /\ WF_poolVars(Telling /\ CancelToken) /\ WF_poolVars(FanStep)
  /\ \A c \in Calls : WF_poolVars(Quiet /\ at[c] # "idle" /\ Timer(c) /\ UNCHANGED fanVars)
  /\ \A t \in Tasks : WF_poolVars(Quiet /\ TaskStep(t) /\ UNCHANGED fanVars)

-----------------------------------------------------------------------------
(* Properties.                                                              *)

\* The fan-out of calls is a FanOut (api/fan-out.ts) whose items end when they
\* may: what holds of every FanOut holds of LoaderOnlyPool.map.
EachItemOnce == Fan!EachItemOnce
ResultIsFaithful == Fan!ResultIsFaithful

\* map settles although a function hangs with its permit, its own call having
\* a timeout, and calls without one wait behind it: a permit is left that the
\* hanging functions cannot take, or no call needs one.  Also when concurrency
\* is 0.  Code: withRaces under runFanOut's Promise.all.
MapSettles ==
  \/ Calls = Timed
  \/ Hanging \subseteq Timed /\ Cardinality({t \in Tasks : t[1] \in Hanging}) < Cap
  => <>(result # Fan!NoResult)
=============================================================================
