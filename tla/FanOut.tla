------------------------------- MODULE FanOut -------------------------------
(***************************************************************************)
(* One call of runFanOut (api/fan-out.ts): a bounded set of async workers  *)
(* pulls item indices from a shared cursor, runs them, and the outcomes    *)
(* are folded into one result by the onError strategy.  LoaderOnlyPool.map *)
(* and scatter run their items through it.                                 *)
(*                                                                         *)
(* A worker runs on without interruption from the end of one item to the   *)
(* start of its next, except for the await between runOne and the loop:    *)
(* what interleaves are the ends of items and the workers' next turns.     *)
(***************************************************************************)
EXTENDS FanOutOptions, FiniteSets

VARIABLES
  onError,
  concurrency,
  cursor,     \* the next item, or Size + 1: the overshoot is not kept
  aborted,
  settled,    \* the outcome recorded for each item
  worker,     \* the item each worker runs, or Between or Over
  result      \* what runFanOut settles with

vars == <<onError, concurrency, cursor, aborted, settled, worker, result>>

Items == 1 .. Size

\* A worker at the await between two items, and one that has returned.
Between == 0
Over == -1

NoResult == [kind |-> "none", items |-> <<>>, partial |-> {}]

Width(c) == IF c < 1 THEN 1 ELSE IF c > Size THEN Size ELSE c

\* Every worker starts at once and has pulled its first item before any item
\* can end.
Init ==
  /\ onError \in Strategies
  /\ concurrency \in Concurrencies
  /\ cursor = Width(concurrency) + 1
  /\ aborted = FALSE
  /\ settled = [i \in Items |-> "unset"]
  /\ worker = [w \in 1 .. Width(concurrency) |-> w]
  /\ result = NoResult

Running == {w \in DOMAIN worker : worker[w] \in Items}

Ok == {i \in Items : settled[i] = "ok"}

-----------------------------------------------------------------------------

\* run() resolved.
ItemOk(w) ==
  /\ worker[w] \in Items
  /\ settled' = [settled EXCEPT ![worker[w]] = "ok"]
  /\ worker' = [worker EXCEPT ![w] = Between]
  /\ UNCHANGED <<onError, concurrency, cursor, aborted, result>>

\* run() rejected.
ItemFails(w) ==
  /\ worker[w] \in Items
  /\ settled' = [settled EXCEPT ![worker[w]] = "error"]
  /\ aborted' = (aborted \/ onError = "throw-fast")
  /\ worker' = [worker EXCEPT ![w] = Between]
  /\ UNCHANGED <<onError, concurrency, cursor, result>>

\* Wrong: does not advance the cursor.
PullKeepsCursor(w) ==
  /\ worker[w] = Between
  /\ ~ aborted
  /\ cursor <= Size
  /\ worker' = [worker EXCEPT ![w] = cursor]
  /\ UNCHANGED <<onError, concurrency, cursor, aborted, settled, result>>

Pull(w) ==
  /\ worker[w] = Between
  /\ ~ aborted
  /\ cursor <= Size
  /\ worker' = [worker EXCEPT ![w] = cursor]
  /\ cursor' = cursor + 1
  /\ UNCHANGED <<onError, concurrency, aborted, settled, result>>

\* Wrong: leaves the rest unsettled when a sibling has failed.
LeaveEarly(w) ==
  /\ worker[w] = Between
  /\ aborted \/ cursor > Size
  /\ worker' = [worker EXCEPT ![w] = Over]
  /\ UNCHANGED <<onError, concurrency, cursor, aborted, settled, result>>

\* Wrong: waits for the cursor although nobody advances it after an abort.
LeaveAtEnd(w) ==
  /\ worker[w] = Between
  /\ cursor > Size
  /\ worker' = [worker EXCEPT ![w] = Over]
  /\ UNCHANGED <<onError, concurrency, cursor, aborted, settled, result>>

\* After an abort the worker settles every item left as cancelled, in one go.
Leave(w) ==
  /\ worker[w] = Between
  /\ aborted \/ cursor > Size
  /\ settled' = [i \in Items |-> IF i >= cursor THEN "cancelled" ELSE settled[i]]
  /\ cursor' = Size + 1
  /\ worker' = [worker EXCEPT ![w] = Over]
  /\ UNCHANGED <<onError, concurrency, aborted, result>>

-----------------------------------------------------------------------------
(* The result.  An item stands for its value or its error; 0 is null.        *)

InOrder == [i \in Items |-> i]

\* The members of S in order: up to the n-th there are n.
Ascending(S) ==
  [n \in 1 .. Cardinality(S) |-> CHOOSE i \in S : Cardinality({k \in S : k <= i}) = n]

Returns(items) == [kind |-> "returns", items |-> items, partial |-> {}]

ThrowsOne(i) == [kind |-> "error", items |-> <<i>>, partial |-> {}]

Aggregate == [kind |-> "aggregate",
              items |-> Ascending(Items \ Ok),
              partial |-> Ok]

\* Wrong: the failure that comes last in the map.
LastFailed == CHOOSE i \in Items \ Ok : \A k \in Items \ Ok : k <= i

FirstFailed == CHOOSE i \in Items \ Ok : \A k \in Items \ Ok : i <= k

\* Wrong: throws the error of a single failure whatever else succeeded.
FoldDropsPartial(strategy) ==
  CASE Ok = Items -> Returns(InOrder)
    [] Ok # Items /\ strategy = "throw" ->
         IF \E i \in Items : Items \ Ok = {i} THEN ThrowsOne(FirstFailed) ELSE Aggregate
    [] Ok # Items /\ strategy = "throw-fast" ->
         IF Ok = {} THEN ThrowsOne(FirstFailed) ELSE Aggregate
    [] Ok # Items /\ strategy = "null" ->
         Returns([i \in Items |-> IF i \in Ok THEN i ELSE 0])
    [] Ok # Items /\ strategy = "skip" ->
         Returns(Ascending(Ok))
    [] Ok # Items /\ strategy = "settled" -> Returns(InOrder)

Fold(strategy) ==
  CASE Ok = Items -> Returns(InOrder)
    [] Ok # Items /\ strategy = "throw" ->
         IF Ok = {} /\ Size = 1 THEN ThrowsOne(1) ELSE Aggregate
    [] Ok # Items /\ strategy = "throw-fast" ->
         IF Ok = {} THEN ThrowsOne(FirstFailed) ELSE Aggregate
    [] Ok # Items /\ strategy = "null" ->
         Returns([i \in Items |-> IF i \in Ok THEN i ELSE 0])
    [] Ok # Items /\ strategy = "skip" ->
         Returns(Ascending(Ok))
    [] Ok # Items /\ strategy = "settled" -> Returns(InOrder)

Conclude ==
  /\ result = NoResult
  /\ \A w \in DOMAIN worker : worker[w] = Over
  /\ result' = Fold(onError)
  /\ UNCHANGED <<onError, concurrency, cursor, aborted, settled, worker>>

WorkerStep(w) == ItemOk(w) \/ ItemFails(w) \/ Pull(w) \/ Leave(w)

Next == (\E w \in DOMAIN worker : WorkerStep(w)) \/ Conclude

Spec == Init /\ [][Next]_vars

-----------------------------------------------------------------------------
(* Properties.                                                              *)

\* Shapes of the state.
TypeOK ==
  /\ onError \in Strategies /\ concurrency \in Concurrencies
  /\ cursor \in 1 .. (Size + 1)
  /\ aborted \in BOOLEAN
  /\ settled \in [Items -> {"unset", "ok", "error", "cancelled"}]
  /\ DOMAIN worker \in SUBSET Items
  /\ \A w \in DOMAIN worker : worker[w] \in Items \cup {Between, Over}
  /\ result.kind \in {"none", "returns", "error", "aggregate"}

\* fan-out.ts 65-85: the shared cursor hands every item out once.  No item is
\* run by two workers, settled while it runs, or left behind: each one before
\* the cursor is running or settled, none after it is.
EachItemOnce ==
  /\ TypeOK
  /\ \A v, w \in Running : worker[v] = worker[w] => v = w
  /\ \A i \in Items :
       /\ i < cursor <=> settled[i] # "unset" \/ \E w \in Running : worker[w] = i
       /\ settled[i] # "unset" => \A w \in Running : worker[w] # i

\* fan-out.ts 87-133: the folding reads no slot that is still a hole, whichever
\* worker left first and whenever the abort came, and what the caller gets is
\* true of all items.  A single error is thrown only when no item ended well, and
\* it is a function's own, never the CancelledError of an item that an abort left
\* out; an aggregate has every failure, those left out included, and every value,
\* those that came after the abort included; what is returned keeps the items'
\* order and has every value, and of the failures what the strategy shows of
\* them: each in its slot ("settled"), a null in its place ("null"), or nothing
\* ("skip").  The two strategies that throw return nothing when an item failed.
ResultIsFaithful ==
  LET shown == {result.items[i] : i \in DOMAIN result.items}
  IN /\ result # NoResult => \A i \in Items : settled[i] # "unset"
     /\ result.kind = "error" =>
          /\ Ok = {}
          /\ onError = "throw-fast" \/ (onError = "throw" /\ Size = 1)
          /\ \E i \in Items : settled[i] = "error" /\ result.items = <<i>>
     /\ result.kind = "aggregate" => shown = Items \ Ok /\ result.partial = Ok
     /\ result.kind = "returns" =>
          /\ Ok = Items \/ onError \in {"null", "skip", "settled"}
          /\ shown \ {0} = IF onError = "settled" THEN Items ELSE Ok
          /\ \A i, k \in DOMAIN result.items :
               i < k /\ result.items[i] # 0 /\ result.items[k] # 0
               => result.items[i] < result.items[k]
     /\ result.kind = "returns" /\ onError # "skip" => DOMAIN result.items = Items
=============================================================================
