--------------------------- MODULE FanOutOptions ---------------------------
(* The options of the calls of runFanOut (api/fan-out.ts) considered.       *)
EXTENDS Integers

CONSTANTS
  Size,         \* items.length
  Concurrencies,\* the values of opts.concurrency considered
  Strategies    \* the values of opts.onError considered

ASSUME FanOutAssumption ==
  /\ Size \in Nat \ {0}
  /\ Concurrencies \subseteq Int
  /\ Strategies \subseteq {"throw", "throw-fast", "null", "skip", "settled"}
=============================================================================
