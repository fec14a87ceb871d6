-------------------------------- MODULE Pool --------------------------------
(***************************************************************************)
(* The calls of one Pool (api/pool.ts) under way at the same time: submit  *)
(* and pipe, the fan-outs (map, scatter, pmap, reduce), the two generators *)
(* (mapStream, mapOrdered), and drain, which waits for all of them.        *)
(*                                                                         *)
(* JavaScript runs one continuation at a time: a step here goes from one   *)
(* await or yield of a call to its next.  What happens inside a dispatch   *)
(* is the subject of LoaderPool, TreeDispatch and FanOut; here it is under *)
(* way until it is answered, well or not.                                  *)
(***************************************************************************)
EXTENDS Integers, Sequences, FiniteSets, SequencesExt

CONSTANTS
  Calls,     \* calls of the pool's methods, each made once
  Kind,      \* the method of each; submit is a pipe of one stage
  Size,      \* how many items, or stages
  Width,     \* concurrency of a generator, chunks of scatter and pmap
  Drainers,  \* callers of drain
  Loads      \* bound: the sets of calls that are made together

Pipes == {c \in Calls : Kind[c] = "pipe"}
FanOuts == {c \in Calls : Kind[c] \in {"map", "scatter", "pmap", "reduce"}}
Streams == {c \in Calls : Kind[c] = "stream"}
Ordered == {c \in Calls : Kind[c] = "ordered"}

ASSUME PoolAssumption ==
  /\ Calls = Pipes \cup FanOuts \cup Streams \cup Ordered
  /\ Size \in [Calls -> Nat] /\ Width \in [Calls -> Nat]
  /\ Loads \subseteq SUBSET Calls

VARIABLES
  phase,     \* where each call is; "await" awaits an answer, "between" is
             \* an async function about to dispatch again, "yielded" a
             \* generator whose consumer has an item
  cursor,    \* the next item or stage to dispatch
  item,      \* what became of each
  slots,     \* mapStream's slots
  free,      \* mapOrdered's workers between two items
  yielded,   \* the items handed to the consumer
  parts,     \* the items behind each argument of a fan-out, later behind
             \* each of its values
  inFlight,  \* #inFlight
  barrier,   \* #drainBarrier, with the state of its promise
  drain      \* where each caller of drain is

call == <<phase, cursor, item, slots, free, yielded, parts>>
counter == <<inFlight, barrier, drain>>
vars == <<call, counter>>

Items(c) == 1 .. Size[c]

First(n) == [i \in 1 .. n |-> i]

Least(a, b) == IF a < b THEN a ELSE b

CeilDiv(a, b) == (a + b - 1) \div b

Init ==
  /\ \E load \in Loads :
       phase = [c \in Calls |-> IF c \in load THEN "off" ELSE "absent"]
  /\ cursor = [c \in Calls |-> 1]
  /\ item = [c \in Calls |-> [i \in Items(c) |-> "todo"]]
  /\ slots = [c \in Calls |-> <<>>]
  /\ free = [c \in Calls |-> 0]
  /\ yielded = [c \in Calls |-> <<>>]
  /\ parts = [c \in Calls |-> <<>>]
  /\ inFlight = 0 /\ barrier = "none"
  /\ drain = [d \in Drainers |-> "idle"]

Becomes(c, p) == phase' = [phase EXCEPT ![c] = p]

---------------------------------------------------------------------------
(* The counter and drain.                                                   *)

InFlightInc(n) == inFlight' = inFlight + n /\ UNCHANGED <<barrier, drain>>

\* Wrong: the barrier is resolved but kept.
InFlightDecKeepsBarrier(n) ==
  /\ inFlight' = inFlight - n
  /\ IF inFlight' = 0 /\ barrier = "pending"
       THEN /\ barrier' = "resolved"
            /\ drain' = [d \in Drainers |->
                 IF drain[d] = "waiting" THEN "returned" ELSE drain[d]]
       ELSE UNCHANGED <<barrier, drain>>

InFlightDec(n) ==
  /\ inFlight' = inFlight - n
  /\ IF inFlight' = 0 /\ barrier = "pending"
       THEN /\ barrier' = "none"
            /\ drain' = [d \in Drainers |->
                 IF drain[d] = "waiting" THEN "returned" ELSE drain[d]]
       ELSE UNCHANGED <<barrier, drain>>

\* drain(): at once when nothing is in flight, else with the barrier, which
\* the first caller makes.
Drain(d) ==
  /\ drain[d] = "idle"
  /\ barrier' = IF inFlight > 0 /\ barrier = "none" THEN "pending" ELSE barrier
  /\ drain' = [drain EXCEPT ![d] =
       IF inFlight = 0 \/ barrier = "resolved" THEN "returned" ELSE "waiting"]
  /\ UNCHANGED <<call, inFlight>>

---------------------------------------------------------------------------
(* submit and pipe.                                                         *)

\* The next stage is dispatched, or the value returned.
NextStage(c) ==
  IF cursor[c] <= Size[c]
    THEN /\ Becomes(c, "await")
         /\ item' = [item EXCEPT ![c][cursor[c]] = "running"]
         /\ cursor' = [cursor EXCEPT ![c] = @ + 1]
         /\ InFlightInc(1)
    ELSE Becomes(c, "done") /\ UNCHANGED <<item, cursor, counter>>

StartPipe(c) ==
  /\ c \in Pipes /\ phase[c] = "off" /\ NextStage(c)
  /\ UNCHANGED <<slots, free, yielded, parts>>

NextPipe(c) ==
  /\ c \in Pipes /\ phase[c] = "between" /\ NextStage(c)
  /\ UNCHANGED <<slots, free, yielded, parts>>

\* Wrong: the decrement is skipped when the dispatch throws.
StageSettlesLeaks(c, i, end) ==
  /\ c \in Pipes /\ item[c][i] = "running"
  /\ item' = [item EXCEPT ![c][i] = end]
  /\ Becomes(c, IF end = "ok" THEN "between" ELSE "failed")
  /\ IF end = "ok" THEN InFlightDec(1) ELSE UNCHANGED counter
  /\ UNCHANGED <<cursor, slots, free, yielded, parts>>

StageSettles(c, i, end) ==
  /\ c \in Pipes /\ item[c][i] = "running"
  /\ item' = [item EXCEPT ![c][i] = end]
  /\ Becomes(c, IF end = "ok" THEN "between" ELSE "failed")
  /\ InFlightDec(1)
  /\ UNCHANGED <<cursor, slots, free, yielded, parts>>

---------------------------------------------------------------------------
(* map, scatter, pmap and reduce.                                           *)

Singles(n) == [i \in 1 .. n |-> <<i>>]

\* Batches of ceil(n / k) items; with k = 0 that is Infinity: one batch.
Batches(n, k) ==
  LET size == IF k = 0 THEN n ELSE CeilDiv(n, k) IN
  [b \in 1 .. CeilDiv(n, size) |->
     SubSeq(First(n), (b - 1) * size + 1, Least(b * size, n))]

\* What a fan-out starts with; item 0 is reduce's initial value.
Split(c) ==
  CASE Kind[c] = "map" -> Singles(Size[c])
    [] Kind[c] = "reduce" -> <<(<<0>>)>> \o Singles(Size[c])
    [] OTHER -> Batches(Size[c], Width[c])

\* How many arguments a dispatch has: reduce sends the pairs only.
Arity(c, ps) == IF Kind[c] = "reduce" THEN Len(ps) \div 2 ELSE Len(ps)

\* Wrong: the carry comes first.
ReducedCarryFirst(ps) ==
  [k \in 1 .. Len(ps) % 2 |-> Last(ps)]
  \o [k \in 1 .. Len(ps) \div 2 |-> ps[2 * k - 1] \o ps[2 * k]]

\* The next round of reduce: the value of each pair, the carry at its place.
Reduced(ps) ==
  [k \in 1 .. CeilDiv(Len(ps), 2) |->
     IF 2 * k <= Len(ps) THEN ps[2 * k - 1] \o ps[2 * k] ELSE ps[2 * k - 1]]

StartFanOut(c) ==
  /\ c \in FanOuts /\ phase[c] = "off"
  /\ IF Size[c] = 0
       THEN Becomes(c, "done") /\ UNCHANGED <<parts, counter>>
       ELSE /\ Becomes(c, "await")
            /\ parts' = [parts EXCEPT ![c] = Split(c)]
            /\ InFlightInc(Arity(c, Split(c)))
  /\ UNCHANGED <<cursor, item, slots, free, yielded>>

\* The answer of runMany, with a value for every argument or not.  A call
\* that throws and an item that failed under 'throw' are one to the caller.
FanOutSettles(c, end) ==
  /\ c \in FanOuts /\ phase[c] = "await"
  /\ InFlightDec(Arity(c, parts[c]))
  /\ IF end = "ok" /\ Kind[c] = "reduce"
       THEN /\ parts' = [parts EXCEPT ![c] = Reduced(@)]
            /\ Becomes(c, "between")
       ELSE /\ Becomes(c, IF end = "ok" THEN "done" ELSE "failed")
            /\ UNCHANGED parts
  /\ UNCHANGED <<cursor, item, slots, free, yielded>>

NextRound(c) ==
  /\ c \in FanOuts /\ phase[c] = "between"
  /\ IF Len(parts[c]) > 1
       THEN Becomes(c, "await") /\ InFlightInc(Arity(c, parts[c]))
       ELSE Becomes(c, "done") /\ UNCHANGED counter
  /\ UNCHANGED <<cursor, item, slots, free, yielded, parts>>

---------------------------------------------------------------------------
(* mapStream and mapOrdered.                                                *)

\* The item the generator's await gives it, 0 while there is none.  The race
\* of mapStream's slots goes to the first slot that has settled; mapOrdered
\* awaits the items in order.
Offered(c, ss, its) ==
  IF c \in Streams
    THEN LET k == SelectInSeq(ss, LAMBDA i : its[i] # "running")
         IN IF k = 0 THEN 0 ELSE ss[k]
    ELSE LET i == Len(yielded[c]) + 1
         IN IF i \in Items(c) /\ its[i] \in {"ok", "failed"} THEN i ELSE 0

\* The generator runs up to its next await, yield or throw.
Generate(c) ==
  LET i == Offered(c, slots'[c], item'[c]) IN
  CASE i = 0 -> Becomes(c, "await") /\ UNCHANGED yielded
    [] i > 0 /\ item'[c][i] = "ok" ->
         /\ Becomes(c, "yielded")
         /\ yielded' = [yielded EXCEPT ![c] = Append(@, i)]
    [] OTHER -> Becomes(c, "failed") /\ UNCHANGED yielded

\* The first pull: as many items as fit are dispatched, by mapStream into
\* slots, by mapOrdered to workers of their own.
StartGenerator(c) ==
  LET n == Least(Width[c], Size[c]) IN
  /\ c \in Streams \cup Ordered /\ phase[c] = "off"
  /\ cursor' = [cursor EXCEPT ![c] = n + 1]
  /\ item' = [item EXCEPT ![c] =
       [i \in Items(c) |-> IF i <= n THEN "running" ELSE "todo"]]
  /\ slots' = [slots EXCEPT ![c] = IF c \in Streams THEN First(n) ELSE <<>>]
  /\ Becomes(c, IF Size[c] = 0 \/ (c \in Streams /\ n = 0)
                THEN "done" ELSE "await")
  /\ InFlightInc(n)
  /\ UNCHANGED <<free, yielded, parts>>

\* An answer.  A generator that awaits it goes on, and a worker is free.
ItemSettles(c, i, end) ==
  /\ c \in Streams \cup Ordered /\ item[c][i] = "running"
  /\ item' = [item EXCEPT ![c][i] = end]
  /\ InFlightDec(1)
  /\ free' = [free EXCEPT ![c] = IF c \in Ordered THEN @ + 1 ELSE @]
  /\ UNCHANGED <<cursor, slots, parts>>
  /\ IF phase[c] = "await" THEN Generate(c) ELSE UNCHANGED <<phase, yielded>>

\* Wrong: the check of the cursor misses the last item.
TakeOneTooFew(c) ==
  /\ free[c] > 0
  /\ free' = [free EXCEPT ![c] = @ - 1]
  /\ IF cursor[c] < Size[c]
       THEN /\ item' = [item EXCEPT ![c][cursor[c]] = "running"]
            /\ cursor' = [cursor EXCEPT ![c] = @ + 1]
            /\ InFlightInc(1)
       ELSE UNCHANGED <<item, cursor, counter>>
  /\ UNCHANGED <<phase, slots, yielded, parts>>

\* A worker of mapOrdered takes the next item or ends, whatever became of
\* the generator.
Take(c) ==
  /\ free[c] > 0
  /\ free' = [free EXCEPT ![c] = @ - 1]
  /\ IF cursor[c] <= Size[c]
       THEN /\ item' = [item EXCEPT ![c][cursor[c]] = "running"]
            /\ cursor' = [cursor EXCEPT ![c] = @ + 1]
            /\ InFlightInc(1)
       ELSE UNCHANGED <<item, cursor, counter>>
  /\ UNCHANGED <<phase, slots, yielded, parts>>

\* Wrong: the first slot is taken out, whoever won.
SplicedFirst(c) == Tail(slots[c])

\* The slot whose item the consumer got is taken out.
Spliced(c) ==
  RemoveAt(slots[c], SelectInSeq(slots[c], LAMBDA i : i = Last(yielded[c])))

\* The consumer of mapStream pulls: the winner's slot is refilled, and the
\* race is run again.
PullStream(c) ==
  LET more == cursor[c] <= Size[c] IN
  /\ c \in Streams /\ phase[c] = "yielded"
  /\ slots' = [slots EXCEPT ![c] =
       Spliced(c) \o (IF more THEN <<cursor[c]>> ELSE <<>>)]
  /\ IF more
       THEN /\ item' = [item EXCEPT ![c][cursor[c]] = "running"]
            /\ cursor' = [cursor EXCEPT ![c] = @ + 1]
            /\ InFlightInc(1)
       ELSE UNCHANGED <<item, cursor, counter>>
  /\ IF slots'[c] = <<>>
       THEN Becomes(c, "done") /\ UNCHANGED yielded
       ELSE Generate(c)
  /\ UNCHANGED <<free, parts>>

PullOrdered(c) ==
  /\ c \in Ordered /\ phase[c] = "yielded"
  /\ UNCHANGED <<cursor, item, slots, free, parts, counter>>
  /\ Generate(c)

\* All items are out: mapOrdered ends when its workers have.
FinishOrdered(c) ==
  /\ c \in Ordered /\ phase[c] = "await" /\ Len(yielded[c]) = Size[c]
  /\ free[c] = 0 /\ \A i \in Items(c) : item[c][i] # "running"
  /\ Becomes(c, "done")
  /\ UNCHANGED <<cursor, item, slots, free, yielded, parts, counter>>

\* The consumer stops pulling (break, return or throw of its loop).
Stop(c) ==
  /\ phase[c] = "yielded" /\ Becomes(c, "stopped")
  /\ UNCHANGED <<cursor, item, slots, free, yielded, parts, counter>>

---------------------------------------------------------------------------

Settles(c, i) == \E end \in {"ok", "failed"} :
  StageSettles(c, i, end) \/ ItemSettles(c, i, end)

Answers(c) == \E end \in {"ok", "failed"} : FanOutSettles(c, end)

GoesOn(c) == NextPipe(c) \/ NextRound(c) \/ Take(c) \/ FinishOrdered(c)

Next ==
  \/ \E d \in Drainers : Drain(d)
  \/ \E c \in Calls :
       \/ StartPipe(c) \/ StartFanOut(c) \/ StartGenerator(c)
       \/ \E i \in Items(c) : Settles(c, i)
       \/ Answers(c) \/ GoesOn(c)
       \/ PullStream(c) \/ PullOrdered(c) \/ Stop(c)

Spec == Init /\ [][Next]_vars

\* Dispatches are answered, well or not, and continuations run.  Nothing is
\* assumed of consumers.  Calls being finite, one condition is enough.
Runtime == \E c \in Calls :
  Answers(c) \/ GoesOn(c) \/ \E i \in Items(c) : Settles(c, i)

FairSpec == Spec /\ WF_vars(Runtime)

---------------------------------------------------------------------------
(* Properties.                                                              *)

Running(c) == {i \in Items(c) : item[c][i] = "running"}

\* The dispatches of call c that are under way, by number, and all of them.
Dispatched(c) ==
  IF c \in FanOuts
    THEN IF phase[c] = "await" THEN 1 .. Arity(c, parts[c]) ELSE {}
    ELSE Running(c)

UnderWay == UNION {{c} \X Dispatched(c) : c \in Calls}

TypeOK ==
  /\ phase \in [Calls -> {"absent", "off", "await", "between", "yielded",
                          "done", "failed", "stopped"}]
  /\ inFlight \in Nat /\ barrier \in {"none", "pending"}
  /\ drain \in [Drainers -> {"idle", "waiting", "returned"}]
  /\ \A c \in Calls :
       /\ cursor[c] \in 1 .. Size[c] + 1
       /\ item[c] \in [Items(c) -> {"todo", "running", "ok", "failed"}]
       /\ \A i \in Items(c) : (item[c][i] = "todo") <=> (i >= cursor[c])
       /\ slots[c] \in Seq(Items(c)) /\ yielded[c] \in Seq(Items(c))
       /\ free[c] \in 0 .. Size[c]
       /\ parts[c] \in Seq(Seq(0 .. Size[c]))

\* #inFlight is the number of dispatches under way over all calls, however
\* they fail, stop or overlap, and there is a barrier exactly when somebody
\* waits on it; then there is something to wait for (#inFlightInc,
\* #inFlightDec, drain).
InFlightIsExact ==
  /\ TypeOK
  /\ inFlight = Cardinality(UnderWay)
  /\ (barrier = "pending") <=> \E d \in Drainers : drain[d] = "waiting"
  /\ barrier = "pending" => inFlight > 0

\* drain returns in a state in which no dispatch is under way: not on a
\* barrier of an earlier batch, nor while one call of several goes on.
DrainMeansIdle ==
  [][ (\E d \in Drainers : drain[d] # "returned" /\ drain'[d] = "returned")
        => UnderWay' = {} ]_vars

\* A generator hands over every item at most once, and only what ended well;
\* mapOrdered in input order.  When one ends by itself all were handed over
\* (with a width of 0 mapStream ends without having run any).
EachItemYieldedOnce ==
  \A c \in Streams \cup Ordered :
    /\ IsInjective(yielded[c])
    /\ \A k \in 1 .. Len(yielded[c]) : item[c][yielded[c][k]] = "ok"
    /\ c \in Ordered => yielded[c] = First(Len(yielded[c]))
    /\ phase[c] = "done" /\ Width[c] > 0 => Len(yielded[c]) = Size[c]

\* The parts, each of one item or more, are first .. last one after another.
InSequence(ps, first, last) ==
  /\ \A k \in 1 .. Len(ps) :
       /\ ps[k] # <<>>
       /\ \A j \in 1 .. Len(ps[k]) : ps[k][j] = ps[k][1] + j - 1
       /\ ps[k][1] = IF k = 1 THEN first ELSE Last(ps[k - 1]) + 1
  /\ Last(Last(ps)) = last

\* Over the rounds of reduce, carry included, and in the batches of scatter
\* and pmap the items keep their order, none is lost and none is used twice;
\* the batches are no more than were asked for, and none is empty.  What
\* reduce returns is made of all of them, its initial value first.
PartsKeepOrder ==
  \A c \in FanOuts : parts[c] # <<>> =>
    /\ InSequence(parts[c], IF Kind[c] = "reduce" THEN 0 ELSE 1, Size[c])
    /\ Kind[c] \in {"scatter", "pmap"} /\ Width[c] > 0
         => Len(parts[c]) <= Width[c]
    /\ phase[c] = "done" /\ Kind[c] = "reduce" => Len(parts[c]) = 1

Waiting(c) == phase[c] \in {"await", "between"}

\* Nobody waits for ever: a call that awaits or is about to dispatch ends or
\* has something for its consumer (if mapOrdered has a width above 0), and
\* every drain returns, whatever fails and whoever stops pulling.
NobodyWaitsForEver ==
  <>[](/\ \A c \in Calls : Waiting(c) => c \in Ordered /\ Width[c] = 0
       /\ \A d \in Drainers : drain[d] # "waiting")
=============================================================================
