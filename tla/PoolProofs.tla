----------------------------- MODULE PoolProofs -----------------------------
(***************************************************************************)
(* For every number of calls of a pool, items, stages, widths and callers  *)
(* of drain: what #inFlight and drain are worth, what a generator hands to *)
(* its consumer, and that a fan-out keeps the order of its items.          *)
(***************************************************************************)
EXTENDS Pool, FiniteSetTheorems, SequenceTheorems, WellFoundedInduction, TLAPS

-----------------------------------------------------------------------------
(* Sequences.                                                               *)

\* The least of a set of numbers.
LEMMA LeastIsIn ==
  ASSUME NEW S, S \subseteq Nat, S # {}
  PROVE  Min(S) \in S
<1>1. PICK i \in S : \A k \in S : <<k, i>> \notin OpToRel(<, Nat)
  BY WFMin, NatLessThanWellFounded, Zenon
<1>2. i \in Nat /\ \A k \in S : k \in Nat /\ ~ (k < i)
  BY <1>1, Zenon DEF OpToRel
<1>3. \A k \in S : i <= k
  BY <1>2
<1>4. \E n \in S : \A k \in S : n <= k
  BY <1>1, <1>3
<1> QED
  BY <1>4 DEF Min

LEMMA FirstTyped ==
  ASSUME NEW n \in Nat
  PROVE  /\ First(n) \in Seq(1 .. n) /\ Len(First(n)) = n
         /\ \A i \in 1 .. n : First(n)[i] = i
BY DEF First

\* What is left of s without its i-th element, if it has one.
LEMMA RemoveAtTyped ==
  ASSUME NEW S, NEW s \in Seq(S), NEW i \in 0 .. Len(s)
  PROVE  RemoveAt(s, i) \in Seq(S)
<1>1. Len(s) \in Nat /\ \A k \in 1 .. Len(s) : s[k] \in S
  BY LenProperties, ElementOfSeq
<1>2. SubSeq(s, 1, i - 1) \in Seq(S)
  BY <1>1, SubSeqProperties
<1>3. SubSeq(s, i + 1, Len(s)) \in Seq(S)
  BY <1>1, SubSeqProperties
<1> QED
  BY <1>2, <1>3, ConcatProperties DEF RemoveAt

LEMMA SplicedTyped ==
  ASSUME NEW c \in Calls, NEW S, slots[c] \in Seq(S)
  PROVE  Spliced(c) \in Seq(S)
<1> DEFINE I == {k \in 1 .. Len(slots[c]) : slots[c][k] = Last(yielded[c])}
           w == SelectInSeq(slots[c], LAMBDA i : i = Last(yielded[c]))
<1>1. w = IF I # {} THEN Min(I) ELSE 0
  BY DEF SelectInSeq
<1>2. Len(slots[c]) \in Nat /\ I \subseteq 1 .. Len(slots[c])
  BY LenProperties
<1>3. I # {} => Min(I) \in I
  <2>1. I \subseteq Nat
    BY <1>2
  <2> HIDE DEF I
  <2> QED
    BY <2>1, LeastIsIn
<1>4. w \in 0 .. Len(slots[c])
  BY <1>1, <1>2, <1>3
<1>5. Spliced(c) = RemoveAt(slots[c], w)
  BY DEF Spliced
<1> HIDE DEF w
<1> QED
  BY <1>4, <1>5, RemoveAtTyped

\* Quotients, rounded up.
LEMMA CeilDivTyped ==
  ASSUME NEW a \in Nat, NEW b \in Nat, b > 0
  PROVE  CeilDiv(a, b) \in Nat /\ (a > 0 => CeilDiv(a, b) > 0)
<1>1. a + b - 1 \in Nat
  OBVIOUS
<1>2. (a + b - 1) \div b \in Nat
  BY <1>1
<1>3. a > 0 => (a + b - 1) \div b > 0
  BY <1>1
<1> QED
  BY <1>2, <1>3 DEF CeilDiv

-----------------------------------------------------------------------------
(* The arguments of a fan-out.                                              *)

PartsOf(n) == Seq(Seq(0 .. n))

LEMMA SinglesTyped ==
  ASSUME NEW n \in Nat
  PROVE  Singles(n) \in PartsOf(n) /\ Len(Singles(n)) = n
<1>1. \A i \in 1 .. n : <<i>> \in Seq(0 .. n)
  OBVIOUS
<1> QED
  BY <1>1 DEF Singles, PartsOf

LEMMA BatchesTyped ==
  ASSUME NEW n \in Nat, n > 0, NEW k \in Nat
  PROVE  Batches(n, k) \in PartsOf(n)
<1> DEFINE size == IF k = 0 THEN n ELSE CeilDiv(n, k)
           batch(b) == SubSeq(First(n), (b - 1) * size + 1, Least(b * size, n))
<1>1. size \in Nat /\ size > 0
  BY CeilDivTyped
<1>2. CeilDiv(n, size) \in Nat
  BY <1>1, CeilDivTyped
<1>3. Batches(n, k) = [b \in 1 .. CeilDiv(n, size) |-> batch(b)]
  BY DEF Batches
<1> HIDE DEF size
<1>4. ASSUME NEW b \in 1 .. CeilDiv(n, size) PROVE batch(b) \in Seq(0 .. n)
  <2> DEFINE lo == (b - 1) * size + 1
             hi == Least(b * size, n)
  <2>1. b \in Nat /\ b - 1 \in Nat
    BY <1>2
  <2>2. (b - 1) * size \in Nat /\ b * size \in Nat
    BY <1>1, <2>1
  <2>3. lo \in Nat /\ lo >= 1 /\ hi \in Nat /\ hi <= n
    BY <2>2 DEF Least
  <2> HIDE DEF lo, hi
  <2>4. First(n) \in Seq(0 .. n) /\ \A i \in lo .. hi : First(n)[i] \in 0 .. n
    <3>1. First(n) \in Seq(0 .. n)
      BY DEF First
    <3>2. \A i \in lo .. hi : i \in 1 .. n /\ i \in 0 .. n
      BY <2>3
    <3>3. \A i \in 1 .. n : First(n)[i] = i
      BY FirstTyped
    <3> QED
      BY <3>1, <3>2, <3>3
  <2>5. SubSeq(First(n), lo, hi) \in Seq(0 .. n)
    BY <2>3, <2>4, FirstTyped, SubSeqProperties
  <2> QED
    BY <2>5 DEF lo, hi
<1> HIDE DEF batch
<1>5. [b \in 1 .. CeilDiv(n, size) |-> batch(b)] \in Seq(Seq(0 .. n))
  BY <1>2, <1>4
<1> QED
  BY <1>3, <1>5 DEF PartsOf

LEMMA SplitTyped ==
  ASSUME NEW c \in FanOuts, Size[c] # 0
  PROVE  Split(c) \in PartsOf(Size[c])
<1>1. Size[c] \in Nat /\ Size[c] > 0 /\ Width[c] \in Nat
  BY PoolAssumption DEF FanOuts
<1>2. CASE Kind[c] = "map"
  BY <1>1, <1>2, SinglesTyped DEF Split
<1>3. CASE Kind[c] = "reduce"
  <2>1. <<(<<0>>)>> \in PartsOf(Size[c])
    BY <1>1 DEF PartsOf
  <2>2. <<(<<0>>)>> \o Singles(Size[c]) \in PartsOf(Size[c])
    BY <1>1, <2>1, SinglesTyped DEF PartsOf
  <2> QED
    BY <1>3, <2>2 DEF Split
<1>4. CASE Kind[c] \notin {"map", "reduce"}
  BY <1>1, <1>4, BatchesTyped DEF Split
<1> QED
  BY <1>2, <1>3, <1>4

LEMMA ArityTyped ==
  ASSUME NEW c \in Calls, NEW n, NEW ps \in PartsOf(n)
  PROVE  Arity(c, ps) \in Nat
<1>1. Len(ps) \in Nat
  BY LenProperties DEF PartsOf
<1> QED
  BY <1>1 DEF Arity

LEMMA ReducedTyped ==
  ASSUME NEW n \in Nat, NEW ps \in PartsOf(n)
  PROVE  Reduced(ps) \in PartsOf(n)
<1> DEFINE m == Len(ps)
           pair(k) == IF 2 * k <= m THEN ps[2 * k - 1] \o ps[2 * k] ELSE ps[2 * k - 1]
<1>1. m \in Nat /\ \A i \in 1 .. m : ps[i] \in Seq(0 .. n)
  BY LenProperties, ElementOfSeq DEF PartsOf
<1>2. CeilDiv(m, 2) \in Nat /\ \A k \in 1 .. CeilDiv(m, 2) : 2 * k <= m + 1
  BY <1>1 DEF CeilDiv
<1> HIDE DEF m
<1>3. ASSUME NEW k \in 1 .. CeilDiv(m, 2) PROVE pair(k) \in Seq(0 .. n)
  <2>1. 2 * k - 1 \in 1 .. m /\ (2 * k <= m => 2 * k \in 1 .. m)
    BY <1>1, <1>2
  <2>2. CASE 2 * k <= m
    <3>1. \A x, y \in Seq(0 .. n) : x \o y \in Seq(0 .. n)
      BY ConcatProperties
    <3>2. ps[2 * k - 1] \o ps[2 * k] \in Seq(0 .. n)
      BY <1>1, <2>1, <2>2, <3>1
    <3> QED
      BY <2>2, <3>2
  <2>3. CASE ~ (2 * k <= m)
    BY <1>1, <2>1, <2>3
  <2> QED
    BY <2>2, <2>3
<1> HIDE DEF pair
<1>4. [k \in 1 .. CeilDiv(m, 2) |-> pair(k)] \in Seq(Seq(0 .. n))
  BY <1>2, <1>3
<1> QED
  BY <1>4 DEF Reduced, PartsOf, pair, m

-----------------------------------------------------------------------------
(* One call.                                                                *)

Phases == {"absent", "off", "await", "between", "yielded", "done", "failed", "stopped"}

Fates == {"todo", "running", "ok", "failed"}

Functions ==
  /\ DOMAIN phase = Calls /\ DOMAIN cursor = Calls /\ DOMAIN item = Calls
  /\ DOMAIN slots = Calls /\ DOMAIN free = Calls /\ DOMAIN yielded = Calls
  /\ DOMAIN parts = Calls

\* The items of a call: those from the cursor on are left to do.
Listed(c) ==
  /\ cursor[c] \in 1 .. Size[c] + 1
  /\ item[c] \in [Items(c) -> Fates]
  /\ \A i \in Items(c) : (item[c][i] = "todo") <=> (i >= cursor[c])

\* The types of what one call keeps.  The workers of mapOrdered between two
\* items and the items under way are together no more than the items.
Own(c) ==
  /\ phase[c] \in Phases
  /\ Listed(c)
  /\ slots[c] \in Seq(Items(c)) /\ yielded[c] \in Seq(Items(c))
  /\ free[c] \in Nat /\ free[c] + Cardinality(Running(c)) <= Size[c]
  /\ c \notin Ordered => free[c] = 0
  /\ parts[c] \in PartsOf(Size[c])
  /\ phase[c] \in {"absent", "off"} => cursor[c] = 1 /\ free[c] = 0

\* What a step of another call leaves alone.
Kept(c) ==
  /\ phase'[c] = phase[c] /\ cursor'[c] = cursor[c] /\ item'[c] = item[c]
  /\ slots'[c] = slots[c] /\ free'[c] = free[c] /\ yielded'[c] = yielded[c]
  /\ parts'[c] = parts[c]

Others(c) == \A k \in Calls : k # c => Kept(k)

LEMMA Kinds ==
  /\ \A c \in Calls : Size[c] \in Nat /\ Width[c] \in Nat
  /\ \A c \in Pipes : c \in Calls /\ c \notin FanOuts /\ c \notin Streams /\ c \notin Ordered
  /\ \A c \in FanOuts : c \in Calls /\ c \notin Streams /\ c \notin Ordered
  /\ \A c \in Streams : c \in Calls /\ c \notin Ordered /\ c \notin FanOuts
  /\ \A c \in Ordered : c \in Calls /\ c \notin FanOuts
BY PoolAssumption DEF Pipes, FanOuts, Streams, Ordered

LEMMA OwnKept ==
  ASSUME NEW c \in Calls, Own(c), Kept(c)
  PROVE  Own(c)' /\ Dispatched(c)' = Dispatched(c)
BY DEF Own, Kept, Listed, Running, Dispatched, Arity

LEMMA ItemsFinite ==
  ASSUME NEW c \in Calls, NEW R \in SUBSET Items(c)
  PROVE  IsFiniteSet(R) /\ Cardinality(R) \in Nat /\ Cardinality(R) <= Size[c]
<1>1. Size[c] \in Nat
  BY Kinds
<1>2. IsFiniteSet(Items(c)) /\ Cardinality(Items(c)) = Size[c]
  BY <1>1, FS_Interval DEF Items
<1> QED
  BY <1>2, FS_Subset, FS_CardinalityType

LEMMA RunningFinite ==
  ASSUME NEW c \in Calls
  PROVE  /\ IsFiniteSet(Running(c)) /\ Cardinality(Running(c)) \in Nat
         /\ Cardinality(Running(c)) <= Size[c]
         /\ IsFiniteSet(Running(c)') /\ Cardinality(Running(c)') \in Nat
         /\ Cardinality(Running(c)') <= Size[c]
<1>1. Running(c) \in SUBSET Items(c) /\ Running(c)' \in SUBSET Items(c)
  BY DEF Running, Items
<1> QED
  BY <1>1, ItemsFinite

\* How the conjuncts are brought together after a step of the call.
LEMMA OwnAfter ==
  ASSUME NEW c \in Calls, phase'[c] \in Phases \ {"absent", "off"}, Listed(c)',
         slots'[c] \in Seq(Items(c)), yielded'[c] \in Seq(Items(c)),
         parts'[c] \in PartsOf(Size[c]),
         free'[c] \in Nat, c \notin Ordered => free'[c] = 0,
         c \in Ordered => free'[c] + Cardinality(Running(c)') <= Size[c]
  PROVE  Own(c)'
<1>1. free'[c] + Cardinality(Running(c)') <= Size[c]
  BY RunningFinite
<1> QED
  BY <1>1 DEF Own, Items

\* The item at the cursor is dispatched.
Dispatch(c) ==
  /\ cursor[c] <= Size[c]
  /\ item' = [item EXCEPT ![c][cursor[c]] = "running"]
  /\ cursor' = [cursor EXCEPT ![c] = @ + 1]

LEMMA DispatchOne ==
  ASSUME Functions, NEW c \in Calls, Listed(c), Dispatch(c)
  PROVE  /\ DOMAIN item' = Calls /\ DOMAIN cursor' = Calls
         /\ \A k \in Calls : k # c => item'[k] = item[k] /\ cursor'[k] = cursor[k]
         /\ Listed(c)' /\ cursor'[c] = cursor[c] + 1 /\ cursor[c] \in Items(c)
         /\ \A i \in Items(c) : item'[c][i] = IF i = cursor[c] THEN "running" ELSE item[c][i]
         /\ Running(c)' = Running(c) \cup {cursor[c]}
         /\ cursor[c] \notin Running(c)
         /\ Cardinality(Running(c)') = Cardinality(Running(c)) + 1
<1>1. Size[c] \in Nat /\ cursor[c] \in 1 .. Size[c]
  BY Kinds DEF Listed, Dispatch
<1>2. /\ item' = [item EXCEPT ![c] = [item[c] EXCEPT ![cursor[c]] = "running"]]
      /\ cursor' = [cursor EXCEPT ![c] = cursor[c] + 1]
  BY DEF Dispatch
<1>3. /\ DOMAIN item' = Calls /\ DOMAIN cursor' = Calls
      /\ \A k \in Calls : k # c => item'[k] = item[k] /\ cursor'[k] = cursor[k]
      /\ item'[c] = [item[c] EXCEPT ![cursor[c]] = "running"] /\ cursor'[c] = cursor[c] + 1
  BY <1>2 DEF Functions
<1>4. \A i \in Items(c) : item'[c][i] = IF i = cursor[c] THEN "running" ELSE item[c][i]
  BY <1>3 DEF Listed
<1>5. Listed(c)'
  BY <1>1, <1>3, <1>4 DEF Listed, Items, Fates
<1>6. cursor[c] \in Items(c) /\ item[c][cursor[c]] = "todo"
  BY <1>1 DEF Listed, Items
<1>7. Running(c)' = Running(c) \cup {cursor[c]} /\ cursor[c] \notin Running(c)
  BY <1>4, <1>6 DEF Running
<1>8. Cardinality(Running(c) \cup {cursor[c]}) = Cardinality(Running(c)) + 1
  BY <1>7, RunningFinite, FS_AddElement
<1> QED
  BY <1>3, <1>4, <1>5, <1>6, <1>7, <1>8

\* Item i, which was under way, has an answer.
LEMMA SettleOne ==
  ASSUME Functions, NEW c \in Calls, Listed(c), NEW i \in Items(c), item[c][i] = "running",
         NEW end \in {"ok", "failed"},
         item' = [item EXCEPT ![c][i] = end], UNCHANGED cursor
  PROVE  /\ DOMAIN item' = Calls
         /\ \A k \in Calls : k # c => item'[k] = item[k]
         /\ Listed(c)'
         /\ \A k \in Items(c) : item'[c][k] = IF k = i THEN end ELSE item[c][k]
         /\ Running(c)' = Running(c) \ {i} /\ i \in Running(c)
         /\ Cardinality(Running(c)') = Cardinality(Running(c)) - 1
<1>1. item' = [item EXCEPT ![c] = [item[c] EXCEPT ![i] = end]]
  OBVIOUS
<1>2. /\ DOMAIN item' = Calls /\ \A k \in Calls : k # c => item'[k] = item[k]
      /\ item'[c] = [item[c] EXCEPT ![i] = end]
  BY <1>1 DEF Functions
<1>3. \A k \in Items(c) : item'[c][k] = IF k = i THEN end ELSE item[c][k]
  BY <1>2 DEF Listed
<1>4. Listed(c)'
  BY <1>2, <1>3 DEF Listed, Fates
<1>5. Running(c)' = Running(c) \ {i} /\ i \in Running(c)
  BY <1>3 DEF Running
<1>6. Cardinality(Running(c) \ {i}) = Cardinality(Running(c)) - 1
  BY <1>5, RunningFinite, FS_RemoveElement
<1> QED
  BY <1>2, <1>3, <1>4, <1>5, <1>6

-----------------------------------------------------------------------------
(* Each step is a step of one call that counts what it dispatches and what  *)
(* is answered.                                                             *)

Counts(c) ==
  \/ Dispatched(c)' = Dispatched(c) /\ UNCHANGED counter
  \/ \E A \in SUBSET Nat :
       /\ IsFiniteSet(A) /\ A \cap Dispatched(c) = {}
       /\ Dispatched(c)' = Dispatched(c) \cup A /\ InFlightInc(Cardinality(A))
  \/ \E A \in SUBSET Dispatched(c) :
       /\ IsFiniteSet(A)
       /\ Dispatched(c)' = Dispatched(c) \ A /\ InFlightDec(Cardinality(A))

StepOf(c) == Functions' /\ Own(c)' /\ Others(c) /\ Counts(c)

LEMMA CountsOne ==
  ASSUME NEW c \in Calls, NEW i \in Nat,
         \/ /\ Dispatched(c)' = Dispatched(c) \cup {i} /\ i \notin Dispatched(c) /\ InFlightInc(1)
         \/ /\ Dispatched(c)' = Dispatched(c) \ {i} /\ i \in Dispatched(c) /\ InFlightDec(1)
  PROVE  Counts(c)
<1>1. IsFiniteSet({i}) /\ Cardinality({i}) = 1
  BY FS_Singleton
<1>2. CASE Dispatched(c)' = Dispatched(c) \cup {i} /\ i \notin Dispatched(c) /\ InFlightInc(1)
  <2>1. /\ {i} \in SUBSET Nat /\ {i} \cap Dispatched(c) = {}
        /\ Dispatched(c)' = Dispatched(c) \cup {i} /\ InFlightInc(Cardinality({i}))
    BY <1>1, <1>2
  <2> QED
    BY <1>1, <2>1 DEF Counts
<1>3. CASE Dispatched(c)' = Dispatched(c) \ {i} /\ i \in Dispatched(c) /\ InFlightDec(1)
  <2>1. /\ {i} \in SUBSET Dispatched(c)
        /\ Dispatched(c)' = Dispatched(c) \ {i} /\ InFlightDec(Cardinality({i}))
    BY <1>1, <1>3
  <2> QED
    BY <1>1, <2>1 DEF Counts
<1> QED
  BY <1>2, <1>3

LEMMA CountsMany ==
  ASSUME NEW c \in Calls, NEW n \in Nat,
         \/ Dispatched(c) = {} /\ Dispatched(c)' = 1 .. n /\ InFlightInc(n)
         \/ Dispatched(c) = 1 .. n /\ Dispatched(c)' = {} /\ InFlightDec(n)
  PROVE  Counts(c)
<1>1. IsFiniteSet(1 .. n) /\ Cardinality(1 .. n) = n
  BY FS_Interval
<1>2. CASE Dispatched(c) = {} /\ Dispatched(c)' = 1 .. n /\ InFlightInc(n)
  <2>1. /\ 1 .. n \in SUBSET Nat /\ (1 .. n) \cap Dispatched(c) = {}
        /\ Dispatched(c)' = Dispatched(c) \cup (1 .. n) /\ InFlightInc(Cardinality(1 .. n))
    BY <1>1, <1>2
  <2> QED
    BY <1>1, <2>1 DEF Counts
<1>3. CASE Dispatched(c) = 1 .. n /\ Dispatched(c)' = {} /\ InFlightDec(n)
  <2>1. /\ 1 .. n \in SUBSET Dispatched(c)
        /\ Dispatched(c)' = Dispatched(c) \ (1 .. n) /\ InFlightDec(Cardinality(1 .. n))
    BY <1>1, <1>3
  <2> QED
    BY <1>1, <2>1 DEF Counts
<1> QED
  BY <1>2, <1>3

\* submit and pipe.
LEMMA NextStageStep ==
  ASSUME Functions, NEW c \in Pipes, Own(c), NextStage(c),
         UNCHANGED <<slots, free, yielded, parts>>
  PROVE  StepOf(c)
<1>1. c \in Calls /\ c \notin FanOuts /\ c \notin Ordered /\ Size[c] \in Nat
  BY Kinds
<1>2. CASE cursor[c] <= Size[c]
  <2>1. Dispatch(c) /\ phase' = [phase EXCEPT ![c] = "await"] /\ InFlightInc(1)
    BY <1>2 DEF NextStage, Becomes, Dispatch
  <2>2. /\ Listed(c)' /\ cursor'[c] = cursor[c] + 1
        /\ DOMAIN item' = Calls /\ DOMAIN cursor' = Calls
        /\ \A k \in Calls : k # c => item'[k] = item[k] /\ cursor'[k] = cursor[k]
        /\ Running(c)' = Running(c) \cup {cursor[c]} /\ cursor[c] \notin Running(c)
    BY <1>1, <2>1, DispatchOne DEF Own
  <2>3. Functions' /\ Others(c) /\ phase'[c] = "await"
    BY <1>1, <2>1, <2>2 DEF Functions, Others, Kept
  <2>4. free[c] = 0 /\ cursor[c] \in Nat
    BY <1>1 DEF Own, Listed
  <2>5. Own(c)'
    BY <1>1, <2>2, <2>3, <2>4, OwnAfter DEF Own, Phases
  <2>6. Counts(c)
    <3>1. Dispatched(c) = Running(c) /\ Dispatched(c)' = Running(c)'
      BY <1>1 DEF Dispatched
    <3>2. PICK i \in Nat : i = cursor[c]
      BY <2>4
    <3>3. Dispatched(c)' = Dispatched(c) \cup {i} /\ i \notin Dispatched(c) /\ InFlightInc(1)
      BY <2>1, <2>2, <3>1, <3>2
    <3> QED
      BY <1>1, <3>3, CountsOne
  <2> QED
    BY <2>3, <2>5, <2>6 DEF StepOf
<1>3. CASE ~ (cursor[c] <= Size[c])
  <2>1. phase' = [phase EXCEPT ![c] = "done"] /\ UNCHANGED <<item, cursor, counter>>
    BY <1>3 DEF NextStage, Becomes
  <2>2. Functions' /\ Others(c) /\ phase'[c] = "done" /\ Running(c)' = Running(c)
    BY <1>1, <2>1 DEF Functions, Others, Kept, Running
  <2>3. Own(c)'
    BY <1>1, <2>1, <2>2 DEF Own, Listed, Phases, Items
  <2>4. Counts(c)
    BY <1>1, <2>1, <2>2 DEF Counts, Dispatched
  <2> QED
    BY <2>2, <2>3, <2>4 DEF StepOf
<1> QED
  BY <1>2, <1>3

LEMMA StageSettlesStep ==
  ASSUME Functions, NEW c \in Calls, Own(c), NEW i \in Items(c), NEW end \in {"ok", "failed"},
         StageSettles(c, i, end)
  PROVE  StepOf(c)
<1>1. c \in Pipes /\ c \notin FanOuts /\ c \notin Ordered /\ Size[c] \in Nat
  BY Kinds DEF StageSettles
<1>2. /\ Listed(c)' /\ DOMAIN item' = Calls /\ \A k \in Calls : k # c => item'[k] = item[k]
      /\ Running(c)' = Running(c) \ {i} /\ i \in Running(c)
      /\ Cardinality(Running(c)') = Cardinality(Running(c)) - 1
  BY SettleOne DEF StageSettles, Own
<1>3. /\ UNCHANGED <<cursor, slots, free, yielded, parts>> /\ InFlightDec(1)
      /\ \E p \in {"between", "failed"} : phase' = [phase EXCEPT ![c] = p]
  BY DEF StageSettles, Becomes
<1>4. Functions' /\ Others(c) /\ phase'[c] \in {"between", "failed"}
  BY <1>2, <1>3 DEF Functions, Others, Kept
<1>5. Own(c)'
  BY <1>1, <1>2, <1>3, <1>4, OwnAfter DEF Own, Phases
<1>6. Counts(c)
  BY <1>1, <1>2, <1>3, CountsOne DEF Dispatched, Items
<1> QED
  BY <1>4, <1>5, <1>6 DEF StepOf

\* A step of call c that changes its phase and its parts at most.
LEMMA PhaseStep ==
  ASSUME Functions, NEW c \in Calls, Own(c),
         NEW p \in Phases \ {"absent", "off"}, phase' = [phase EXCEPT ![c] = p],
         UNCHANGED <<cursor, item, slots, free, yielded>>,
         NEW ps \in PartsOf(Size[c]),
         (parts' = parts /\ ps = parts[c]) \/ parts' = [parts EXCEPT ![c] = ps]
  PROVE  /\ Functions' /\ Own(c)' /\ Others(c) /\ phase'[c] = p /\ parts'[c] = ps
         /\ Running(c)' = Running(c)
<1>1. /\ Functions' /\ Others(c) /\ phase'[c] = p /\ parts'[c] = ps
      /\ Running(c)' = Running(c)
  BY DEF Functions, Others, Kept, Running
<1>2. Listed(c)'
  BY DEF Own, Listed, Items
<1>3. Own(c)'
  BY <1>1, <1>2, OwnAfter DEF Own
<1> QED
  BY <1>1, <1>3

\* map, scatter, pmap and reduce.
LEMMA FanOutStep ==
  ASSUME Functions, NEW c \in Calls, Own(c),
         StartFanOut(c) \/ Answers(c) \/ NextRound(c)
  PROVE  StepOf(c)
<1>1. c \in FanOuts /\ UNCHANGED <<cursor, item, slots, free, yielded>> /\ parts[c] \in PartsOf(Size[c])
      /\ Size[c] \in Nat
  BY Kinds DEF StartFanOut, Answers, FanOutSettles, NextRound, Own
<1>2. ASSUME NEW p \in Phases \ {"absent", "off"}, p # "await", Becomes(c, p),
             phase[c] # "await", UNCHANGED <<parts, counter>>
      PROVE  StepOf(c)
  <2>1. Functions' /\ Own(c)' /\ Others(c) /\ phase'[c] = p
    BY <1>1, <1>2, PhaseStep DEF Becomes
  <2>2. Dispatched(c) = {} /\ Dispatched(c)' = {}
    BY <1>1, <1>2, <2>1 DEF Dispatched
  <2> QED
    BY <1>2, <2>1, <2>2 DEF StepOf, Counts
<1>3. ASSUME Becomes(c, "await"), phase[c] # "await", NEW ps \in PartsOf(Size[c]),
             (parts' = parts /\ ps = parts[c]) \/ parts' = [parts EXCEPT ![c] = ps],
             InFlightInc(Arity(c, ps))
      PROVE  StepOf(c)
  <2>1. "await" \in Phases \ {"absent", "off"} /\ phase' = [phase EXCEPT ![c] = "await"]
    BY <1>3 DEF Phases, Becomes
  <2>2. Functions' /\ Own(c)' /\ Others(c) /\ phase'[c] = "await" /\ parts'[c] = ps
    BY <1>1, <1>3, <2>1, PhaseStep
  <2>3. Dispatched(c) = {} /\ Dispatched(c)' = 1 .. Arity(c, ps)
    BY <1>1, <1>3, <2>2 DEF Dispatched, Arity
  <2>4. Arity(c, ps) \in Nat
    BY ArityTyped
  <2> QED
    BY <1>3, <2>2, <2>3, <2>4, CountsMany DEF StepOf
<1>4. CASE StartFanOut(c)
  <2>1. phase[c] = "off"
    BY <1>4 DEF StartFanOut
  <2>2. CASE Size[c] = 0
    BY <1>2, <1>4, <2>1, <2>2 DEF StartFanOut, Phases
  <2>3. CASE Size[c] # 0
    BY <1>1, <1>3, <1>4, <2>1, <2>3, SplitTyped DEF StartFanOut
  <2> QED
    BY <2>2, <2>3
<1>5. CASE NextRound(c)
  <2>1. phase[c] = "between"
    BY <1>5 DEF NextRound
  <2>2. CASE Len(parts[c]) > 1
    BY <1>1, <1>3, <1>5, <2>1, <2>2 DEF NextRound
  <2>3. CASE ~ (Len(parts[c]) > 1)
    BY <1>2, <1>5, <2>1, <2>3 DEF NextRound, Phases
  <2> QED
    BY <2>2, <2>3
<1>6. CASE Answers(c)
  <2>1. PICK end \in {"ok", "failed"} : FanOutSettles(c, end)
    BY <1>6 DEF Answers
  <2>2. phase[c] = "await" /\ InFlightDec(Arity(c, parts[c]))
    BY <2>1 DEF FanOutSettles
  <2>3. \E p \in {"between", "done", "failed"} : \E ps \in PartsOf(Size[c]) :
          /\ phase' = [phase EXCEPT ![c] = p]
          /\ (parts' = parts /\ ps = parts[c]) \/ parts' = [parts EXCEPT ![c] = ps]
    BY <1>1, <2>1, ReducedTyped DEF FanOutSettles, Becomes
  <2>4. PICK p \in {"between", "done", "failed"} : \E ps \in PartsOf(Size[c]) :
          /\ phase' = [phase EXCEPT ![c] = p]
          /\ (parts' = parts /\ ps = parts[c]) \/ parts' = [parts EXCEPT ![c] = ps]
    BY <2>3
  <2>5. Functions' /\ Own(c)' /\ Others(c) /\ phase'[c] = p
    BY <1>1, <2>4, PhaseStep DEF Phases
  <2>6. Dispatched(c) = 1 .. Arity(c, parts[c]) /\ Dispatched(c)' = {}
    BY <1>1, <2>2, <2>4, <2>5 DEF Dispatched
  <2>7. Arity(c, parts[c]) \in Nat
    BY <1>1, ArityTyped
  <2> QED
    BY <2>2, <2>5, <2>6, <2>7, CountsMany DEF StepOf
<1> QED
  BY <1>4, <1>5, <1>6

\* What the generator's await gives it: for mapStream the item of a slot that
\* is not running, for mapOrdered the next item in order, if it is answered.
LEMMA OfferedFacts ==
  ASSUME NEW c \in Streams \cup Ordered, yielded[c] \in Seq(Items(c))
  PROVE  \A ss \in Seq(Items(c)) : \A its \in [Items(c) -> Fates] :
           \/ Offered(c, ss, its) = 0
           \/ /\ Offered(c, ss, its) \in Items(c)
              /\ its[Offered(c, ss, its)] # "running"
              /\ c \in Streams => \E k \in DOMAIN ss : ss[k] = Offered(c, ss, its)
              /\ c \in Ordered => /\ Offered(c, ss, its) = Len(yielded[c]) + 1
                                  /\ its[Offered(c, ss, its)] \in {"ok", "failed"}
<1> SUFFICES ASSUME NEW ss \in Seq(Items(c)), NEW its \in [Items(c) -> Fates],
                    Offered(c, ss, its) # 0
             PROVE  /\ Offered(c, ss, its) \in Items(c)
                    /\ its[Offered(c, ss, its)] # "running"
                    /\ c \in Streams => \E k \in DOMAIN ss : ss[k] = Offered(c, ss, its)
                    /\ c \in Ordered => /\ Offered(c, ss, its) = Len(yielded[c]) + 1
                                        /\ its[Offered(c, ss, its)] \in {"ok", "failed"}
  OBVIOUS
<1>1. CASE c \in Streams
  <2> DEFINE I == {k \in 1 .. Len(ss) : its[ss[k]] # "running"}
             w == SelectInSeq(ss, LAMBDA i : its[i] # "running")
  <2>1. w = IF I # {} THEN Min(I) ELSE 0
    BY DEF SelectInSeq
  <2>2. Offered(c, ss, its) = IF w = 0 THEN 0 ELSE ss[w]
    BY <1>1 DEF Offered
  <2>3. Len(ss) \in Nat /\ I \subseteq Nat /\ DOMAIN ss = 1 .. Len(ss)
    BY LenProperties
  <2>4. I # {} => Min(I) \in I
    <3> HIDE DEF I
    <3> QED
      BY <2>3, LeastIsIn
  <2>5. w \in I /\ Offered(c, ss, its) = ss[w]
    BY <2>1, <2>2, <2>4
  <2> HIDE DEF w
  <2>6. w \in DOMAIN ss /\ ss[w] \in Items(c) /\ its[ss[w]] # "running"
    BY <2>3, <2>5, ElementOfSeq
  <2> QED
    BY <1>1, <2>5, <2>6, Kinds
<1>2. CASE c \in Ordered /\ c \notin Streams
  BY <1>2 DEF Offered
<1> QED
  BY <1>1, <1>2

LEMMA GenerateStep ==
  ASSUME Functions, NEW c \in Streams \cup Ordered, yielded[c] \in Seq(Items(c)),
         slots'[c] \in Seq(Items(c)), item'[c] \in [Items(c) -> Fates], Generate(c)
  PROVE  /\ DOMAIN phase' = Calls /\ DOMAIN yielded' = Calls
         /\ \A k \in Calls : k # c => phase'[k] = phase[k] /\ yielded'[k] = yielded[k]
         /\ phase'[c] \in Phases \ {"absent", "off"}
         /\ yielded'[c] \in Seq(Items(c))
         /\ \/ phase'[c] \in {"await", "failed"} /\ yielded'[c] = yielded[c]
            \/ /\ phase'[c] = "yielded"
               /\ \E i \in Items(c) :
                    /\ yielded'[c] = Append(yielded[c], i) /\ item'[c][i] = "ok"
                    /\ c \in Streams => \E k \in DOMAIN slots'[c] : slots'[c][k] = i
                    /\ c \in Ordered => i = Len(yielded[c]) + 1
<1>1. PICK i : i = Offered(c, slots'[c], item'[c])
  OBVIOUS
<1>2. c \in Calls
  BY Kinds
<1>3. \/ i = 0
      \/ /\ i \in Items(c)
         /\ c \in Streams => \E k \in DOMAIN slots'[c] : slots'[c][k] = i
         /\ c \in Ordered => i = Len(yielded[c]) + 1
  BY <1>1, OfferedFacts
<1>4. \/ phase' = [phase EXCEPT ![c] = "await"] /\ UNCHANGED yielded
      \/ phase' = [phase EXCEPT ![c] = "failed"] /\ UNCHANGED yielded
      \/ /\ i # 0 /\ item'[c][i] = "ok"
         /\ phase' = [phase EXCEPT ![c] = "yielded"]
         /\ yielded' = [yielded EXCEPT ![c] = Append(yielded[c], i)]
  BY <1>1 DEF Generate, Becomes
<1>5. CASE UNCHANGED yielded /\ (\/ phase' = [phase EXCEPT ![c] = "await"]
                                 \/ phase' = [phase EXCEPT ![c] = "failed"])
  BY <1>2, <1>5 DEF Functions, Phases
<1>6. CASE /\ i # 0 /\ item'[c][i] = "ok"
           /\ phase' = [phase EXCEPT ![c] = "yielded"]
           /\ yielded' = [yielded EXCEPT ![c] = Append(yielded[c], i)]
  <2>1. i \in Items(c) /\ Append(yielded[c], i) \in Seq(Items(c))
    BY <1>3, <1>6, AppendProperties
  <2>2. /\ DOMAIN phase' = Calls /\ DOMAIN yielded' = Calls
        /\ \A k \in Calls : k # c => phase'[k] = phase[k] /\ yielded'[k] = yielded[k]
        /\ phase'[c] = "yielded" /\ yielded'[c] = Append(yielded[c], i)
    BY <1>2, <1>6 DEF Functions
  <2> QED
    BY <1>3, <1>6, <2>1, <2>2 DEF Phases
<1> QED
  BY <1>4, <1>5, <1>6

\* mapStream and mapOrdered.
LEMMA StartGeneratorStep ==
  ASSUME Functions, NEW c \in Calls, Own(c), StartGenerator(c)
  PROVE  /\ StepOf(c)
         /\ phase[c] = "off" /\ UNCHANGED yielded
         /\ phase'[c] = "done" => Size[c] = 0 \/ (c \in Streams /\ Width[c] = 0)
         /\ c \in Streams => slots'[c] = First(cursor'[c] - 1)
<1>1. PICK n \in Nat : n = Least(Width[c], Size[c])
  BY Kinds DEF Least
<1>2. n <= Size[c] /\ Size[c] \in Nat /\ Width[c] \in Nat /\ (n = 0 => Width[c] = 0 \/ Size[c] = 0)
  BY <1>1, Kinds DEF Least
<1>3. PICK its : its = [i \in Items(c) |-> IF i <= n THEN "running" ELSE "todo"]
  OBVIOUS
<1>4. PICK ss : ss = IF c \in Streams THEN First(n) ELSE <<>>
  OBVIOUS
<1>5. PICK p \in {"done", "await"} :
        p = IF Size[c] = 0 \/ (c \in Streams /\ n = 0) THEN "done" ELSE "await"
  OBVIOUS
<1>6. /\ c \in Streams \cup Ordered /\ phase[c] = "off"
      /\ cursor' = [cursor EXCEPT ![c] = n + 1] /\ item' = [item EXCEPT ![c] = its]
      /\ slots' = [slots EXCEPT ![c] = ss] /\ phase' = [phase EXCEPT ![c] = p]
      /\ InFlightInc(n) /\ UNCHANGED <<free, yielded, parts>>
  BY <1>1, <1>3, <1>4, <1>5 DEF StartGenerator, Becomes
<1>7. /\ Functions' /\ Others(c) /\ cursor'[c] = n + 1 /\ item'[c] = its /\ slots'[c] = ss
      /\ phase'[c] = p
  BY <1>6 DEF Functions, Others, Kept
<1>8. Listed(c)' /\ Running(c)' = 1 .. n
  BY <1>2, <1>3, <1>7 DEF Listed, Items, Fates, Running
<1>9. ss \in Seq(Items(c))
  <2>1. First(n) \in Seq(Items(c))
    BY <1>2 DEF First, Items
  <2> QED
    BY <1>4, <2>1
<1>10. Running(c) = {} /\ free[c] = 0
  BY <1>6 DEF Own, Listed, Running, Items
<1>11. Own(c)'
  <2>1. Cardinality(Running(c)') = n
    BY <1>8, FS_Interval
  <2> QED
    BY <1>2, <1>6, <1>7, <1>8, <1>9, <1>10, <2>1, OwnAfter DEF Own, Phases
<1>12. Counts(c)
  <2>1. c \notin FanOuts
    BY <1>6, Kinds
  <2>2. Dispatched(c) = {} /\ Dispatched(c)' = 1 .. n
    BY <1>8, <1>10, <2>1 DEF Dispatched
  <2> QED
    BY <1>6, <2>2, CountsMany
<1>13. c \in Streams => slots'[c] = First(cursor'[c] - 1)
  <2>1. cursor'[c] - 1 = n
    BY <1>7
  <2> QED
    BY <1>4, <1>7, <2>1
<1> QED
  BY <1>2, <1>5, <1>6, <1>7, <1>11, <1>12, <1>13 DEF StepOf

LEMMA ItemSettlesStep ==
  ASSUME Functions, NEW c \in Calls, Own(c), NEW i \in Items(c), NEW end \in {"ok", "failed"},
         ItemSettles(c, i, end)
  PROVE  /\ StepOf(c)
         /\ c \in Streams \cup Ordered /\ UNCHANGED <<cursor, slots>>
         /\ item[c][i] = "running"
         /\ \A k \in Items(c) : item'[c][k] = IF k = i THEN end ELSE item[c][k]
         /\ \/ phase[c] = "await" /\ Generate(c)
            \/ phase[c] # "await" /\ UNCHANGED <<phase, yielded>>
<1>1. /\ c \in Streams \cup Ordered /\ item[c][i] = "running"
      /\ item' = [item EXCEPT ![c][i] = end]
      /\ InFlightDec(1) /\ UNCHANGED <<cursor, slots, parts>>
      /\ free' = [free EXCEPT ![c] = IF c \in Ordered THEN free[c] + 1 ELSE free[c]]
  BY DEF ItemSettles
<1>2. /\ DOMAIN item' = Calls /\ \A k \in Calls : k # c => item'[k] = item[k]
      /\ Listed(c)' /\ Running(c)' = Running(c) \ {i} /\ i \in Running(c)
      /\ \A k \in Items(c) : item'[c][k] = IF k = i THEN end ELSE item[c][k]
      /\ Cardinality(Running(c)') = Cardinality(Running(c)) - 1
  BY <1>1, SettleOne DEF Own
<1>3. \/ phase[c] = "await" /\ Generate(c)
      \/ phase[c] # "await" /\ UNCHANGED <<phase, yielded>>
  BY DEF ItemSettles
<1>4. item'[c] \in [Items(c) -> Fates] /\ slots'[c] \in Seq(Items(c)) /\ yielded[c] \in Seq(Items(c))
  BY <1>1, <1>2 DEF Listed, Own, Items
<1>5. /\ DOMAIN phase' = Calls /\ DOMAIN yielded' = Calls
      /\ \A k \in Calls : k # c => phase'[k] = phase[k] /\ yielded'[k] = yielded[k]
      /\ phase'[c] \in Phases \ {"absent", "off"}
      /\ yielded'[c] \in Seq(Items(c))
  <2>1. CASE Generate(c)
    BY <1>1, <1>4, <2>1, GenerateStep
  <2>2. CASE UNCHANGED <<phase, yielded>>
    <3>1. phase[c] \notin {"absent", "off"}
      BY <1>1 DEF Own, Listed, Items
    <3> QED
      BY <1>4, <2>2, <3>1 DEF Functions, Own
  <2> QED
    BY <1>3, <2>1, <2>2
<1>6. Functions' /\ Others(c)
  BY <1>1, <1>2, <1>5 DEF Functions, Others, Kept
<1>7. /\ free'[c] \in Nat /\ (c \notin Ordered => free'[c] = 0)
      /\ free'[c] + Cardinality(Running(c)') <= Size[c]
  BY <1>1, <1>2, RunningFinite, Kinds DEF Own, Functions
<1>8. Own(c)'
  BY <1>1, <1>2, <1>4, <1>5, <1>7, OwnAfter DEF Own
<1>9. Counts(c)
  <2>1. c \notin FanOuts
    BY <1>1, Kinds
  <2>2. Dispatched(c)' = Dispatched(c) \ {i} /\ i \in Dispatched(c) /\ i \in Nat
    BY <1>2, <2>1 DEF Dispatched, Items
  <2> QED
    BY <1>1, <2>2, CountsOne
<1> QED
  BY <1>1, <1>2, <1>3, <1>6, <1>8, <1>9 DEF StepOf

\* What an item more does to the count.
LEMMA CountsDispatch ==
  ASSUME Functions, NEW c \in Calls, Listed(c), c \notin FanOuts, Dispatch(c), InFlightInc(1)
  PROVE  Counts(c)
<1>1. Running(c)' = Running(c) \cup {cursor[c]} /\ cursor[c] \notin Running(c) /\ cursor[c] \in Nat
  BY DispatchOne DEF Items
<1>2. PICK i \in Nat : i = cursor[c]
  BY <1>1
<1>3. Dispatched(c)' = Dispatched(c) \cup {i} /\ i \notin Dispatched(c)
  BY <1>1, <1>2 DEF Dispatched
<1> QED
  BY <1>3, CountsOne

LEMMA TakeStep ==
  ASSUME Functions, NEW c \in Calls, Own(c), Take(c)
  PROVE  /\ StepOf(c)
         /\ c \in Ordered /\ UNCHANGED <<phase, slots, yielded>>
         /\ Dispatch(c) \/ UNCHANGED <<item, cursor>>
<1>1. /\ c \in Ordered /\ c \notin FanOuts /\ free[c] > 0 /\ free[c] \in Nat
      /\ free' = [free EXCEPT ![c] = free[c] - 1]
      /\ UNCHANGED <<phase, slots, yielded, parts>>
      /\ Size[c] \in Nat /\ phase[c] \notin {"absent", "off"}
  BY Kinds DEF Take, Own
<1>2. DOMAIN free' = Calls /\ free'[c] = free[c] - 1 /\ \A k \in Calls : k # c => free'[k] = free[k]
  BY <1>1 DEF Functions
<1>3. CASE cursor[c] <= Size[c]
  <2>1. Dispatch(c) /\ InFlightInc(1)
    BY <1>3 DEF Take, Dispatch
  <2>2. /\ DOMAIN item' = Calls /\ DOMAIN cursor' = Calls
        /\ \A k \in Calls : k # c => item'[k] = item[k] /\ cursor'[k] = cursor[k]
        /\ Listed(c)' /\ Cardinality(Running(c)') = Cardinality(Running(c)) + 1
    BY <2>1, DispatchOne DEF Own
  <2>3. Functions' /\ Others(c)
    BY <1>1, <1>2, <2>2 DEF Functions, Others, Kept
  <2>4. Own(c)'
    BY <1>1, <1>2, <2>2, RunningFinite, OwnAfter DEF Own
  <2>5. Counts(c)
    BY <1>1, <2>1, CountsDispatch DEF Own
  <2> QED
    BY <1>1, <2>1, <2>3, <2>4, <2>5 DEF StepOf
<1>4. CASE ~ (cursor[c] <= Size[c])
  <2>1. UNCHANGED <<item, cursor, counter>> /\ Running(c)' = Running(c)
    BY <1>4 DEF Take, Running
  <2>2. Functions' /\ Others(c) /\ Listed(c)'
    BY <1>1, <1>2, <2>1 DEF Functions, Others, Kept, Own, Listed, Items
  <2>3. Own(c)'
    BY <1>1, <1>2, <2>1, <2>2, RunningFinite, OwnAfter DEF Own
  <2>4. Counts(c)
    BY <1>1, <2>1 DEF Counts, Dispatched
  <2> QED
    BY <1>1, <2>1, <2>2, <2>3, <2>4 DEF StepOf
<1> QED
  BY <1>3, <1>4

LEMMA PullStreamStep ==
  ASSUME Functions, NEW c \in Calls, Own(c), PullStream(c)
  PROVE  /\ StepOf(c)
         /\ c \in Streams /\ phase[c] = "yielded"
         /\ \/ Dispatch(c) /\ slots'[c] = Spliced(c) \o <<cursor[c]>>
            \/ /\ ~ (cursor[c] <= Size[c]) /\ UNCHANGED <<item, cursor>>
               /\ slots'[c] = Spliced(c)
         /\ \/ slots'[c] = <<>> /\ phase'[c] = "done" /\ UNCHANGED yielded
            \/ slots'[c] # <<>> /\ Generate(c)
<1>1. /\ c \in Streams /\ c \notin FanOuts /\ c \notin Ordered /\ phase[c] = "yielded"
      /\ UNCHANGED <<free, parts>> /\ Size[c] \in Nat
  BY Kinds DEF PullStream
<1>2. PICK ss : ss = Spliced(c) \o (IF cursor[c] <= Size[c] THEN <<cursor[c]>> ELSE <<>>)
  OBVIOUS
<1>3. slots' = [slots EXCEPT ![c] = ss]
  BY <1>2 DEF PullStream
<1>4. /\ Spliced(c) \in Seq(Items(c)) /\ Listed(c) /\ free[c] = 0
      /\ yielded[c] \in Seq(Items(c)) /\ parts[c] \in PartsOf(Size[c])
  BY <1>1, SplicedTyped DEF Own
<1>5. /\ DOMAIN item' = Calls /\ DOMAIN cursor' = Calls
      /\ \A k \in Calls : k # c => item'[k] = item[k] /\ cursor'[k] = cursor[k]
      /\ Listed(c)' /\ Counts(c) /\ ss \in Seq(Items(c))
      /\ \/ Dispatch(c) /\ ss = Spliced(c) \o <<cursor[c]>>
         \/ ~ (cursor[c] <= Size[c]) /\ UNCHANGED <<item, cursor>> /\ ss = Spliced(c)
  <2>1. CASE cursor[c] <= Size[c]
    <3>1. Dispatch(c) /\ InFlightInc(1) /\ ss = Spliced(c) \o <<cursor[c]>>
      BY <1>2, <2>1 DEF PullStream, Dispatch
    <3>2. /\ DOMAIN item' = Calls /\ DOMAIN cursor' = Calls
          /\ \A k \in Calls : k # c => item'[k] = item[k] /\ cursor'[k] = cursor[k]
          /\ Listed(c)' /\ cursor[c] \in Items(c)
      BY <1>4, <3>1, DispatchOne
    <3>3. Counts(c)
      BY <1>1, <1>4, <3>1, CountsDispatch
    <3>4. ss \in Seq(Items(c))
      BY <1>4, <3>1, <3>2
    <3> QED
      BY <3>1, <3>2, <3>3, <3>4
  <2>2. CASE ~ (cursor[c] <= Size[c])
    <3>1. UNCHANGED <<item, cursor, counter>>
      BY <2>2 DEF PullStream
    <3>2. ss = Spliced(c)
      BY <1>2, <1>4, <2>2
    <3>3. Listed(c)' /\ Counts(c)
      BY <1>1, <1>4, <3>1 DEF Listed, Items, Counts, Dispatched, Running
    <3> QED
      BY <1>4, <2>2, <3>1, <3>2, <3>3 DEF Functions
  <2> QED
    BY <2>1, <2>2
<1>6. DOMAIN slots' = Calls /\ slots'[c] = ss /\ \A k \in Calls : k # c => slots'[k] = slots[k]
  BY <1>3 DEF Functions
<1>7. /\ DOMAIN phase' = Calls /\ DOMAIN yielded' = Calls
      /\ \A k \in Calls : k # c => phase'[k] = phase[k] /\ yielded'[k] = yielded[k]
      /\ phase'[c] \in Phases \ {"absent", "off"}
      /\ yielded'[c] \in Seq(Items(c))
      /\ \/ slots'[c] = <<>> /\ phase'[c] = "done" /\ UNCHANGED yielded
         \/ slots'[c] # <<>> /\ Generate(c)
  <2>1. CASE slots'[c] = <<>>
    <3>1. phase' = [phase EXCEPT ![c] = "done"] /\ UNCHANGED yielded
      BY <2>1 DEF PullStream, Becomes
    <3> QED
      BY <1>4, <2>1, <3>1 DEF Functions, Phases
  <2>2. CASE slots'[c] # <<>>
    <3>1. Generate(c)
      BY <2>2 DEF PullStream
    <3>2. item'[c] \in [Items(c) -> Fates] /\ slots'[c] \in Seq(Items(c))
      BY <1>5, <1>6 DEF Listed, Items
    <3> QED
      BY <1>1, <1>4, <2>2, <3>1, <3>2, GenerateStep
  <2> QED
    BY <2>1, <2>2
<1>8. Functions' /\ Others(c)
  BY <1>1, <1>5, <1>6, <1>7 DEF Functions, Others, Kept
<1>9. Own(c)'
  BY <1>1, <1>4, <1>5, <1>6, <1>7, OwnAfter
<1> QED
  BY <1>1, <1>5, <1>6, <1>7, <1>8, <1>9 DEF StepOf

\* Steps that dispatch nothing and await nothing.
LEMMA QuietStep ==
  ASSUME Functions, NEW c \in Calls, Own(c), c \notin FanOuts,
         UNCHANGED <<cursor, item, slots, free, parts, counter>>,
         DOMAIN phase' = Calls, DOMAIN yielded' = Calls,
         \A k \in Calls : k # c => phase'[k] = phase[k] /\ yielded'[k] = yielded[k],
         phase'[c] \in Phases \ {"absent", "off"}, yielded'[c] \in Seq(Items(c))
  PROVE  StepOf(c)
<1>1. Functions' /\ Others(c)
  BY DEF Functions, Others, Kept
<1>2. Listed(c)' /\ Running(c)' = Running(c) /\ Dispatched(c)' = Dispatched(c)
  BY DEF Own, Listed, Items, Running, Dispatched
<1>3. Own(c)'
  BY <1>2, OwnAfter DEF Own
<1> QED
  BY <1>1, <1>2, <1>3 DEF StepOf, Counts

LEMMA PullOrderedStep ==
  ASSUME Functions, NEW c \in Calls, Own(c), PullOrdered(c)
  PROVE  /\ StepOf(c)
         /\ c \in Ordered /\ phase[c] = "yielded" /\ Generate(c)
         /\ UNCHANGED <<cursor, item, slots>>
<1>1. /\ c \in Ordered /\ c \notin FanOuts /\ phase[c] = "yielded" /\ Generate(c)
      /\ UNCHANGED <<cursor, item, slots, free, parts, counter>>
  BY Kinds DEF PullOrdered
<1>2. /\ item'[c] \in [Items(c) -> Fates] /\ slots'[c] \in Seq(Items(c))
      /\ yielded[c] \in Seq(Items(c))
  BY <1>1 DEF Own, Listed
<1>3. /\ DOMAIN phase' = Calls /\ DOMAIN yielded' = Calls
      /\ \A k \in Calls : k # c => phase'[k] = phase[k] /\ yielded'[k] = yielded[k]
      /\ phase'[c] \in Phases \ {"absent", "off"}
      /\ yielded'[c] \in Seq(Items(c))
  BY <1>1, <1>2, GenerateStep
<1> QED
  BY <1>1, <1>3, QuietStep

LEMMA EndStep ==
  ASSUME Functions, NEW c \in Calls, Own(c), FinishOrdered(c) \/ Stop(c),
         phase[c] = "yielded" => c \in Streams \cup Ordered
  PROVE  /\ StepOf(c)
         /\ UNCHANGED <<cursor, item, slots, yielded>>
         /\ \/ phase'[c] = "stopped"
            \/ phase'[c] = "done" /\ c \in Ordered /\ Len(yielded[c]) = Size[c]
<1>1. /\ c \notin FanOuts
      /\ UNCHANGED <<cursor, item, slots, free, yielded, parts, counter>>
      /\ \E p \in {"done", "stopped"} :
           /\ phase' = [phase EXCEPT ![c] = p]
           /\ p = "done" => c \in Ordered /\ Len(yielded[c]) = Size[c]
  BY Kinds DEF FinishOrdered, Stop, Becomes
<1>2. PICK p \in {"done", "stopped"} :
           /\ phase' = [phase EXCEPT ![c] = p]
           /\ p = "done" => c \in Ordered /\ Len(yielded[c]) = Size[c]
  BY <1>1
<1>3. DOMAIN phase' = Calls /\ phase'[c] = p /\ \A k \in Calls : k # c => phase'[k] = phase[k]
  BY <1>2 DEF Functions
<1>4. /\ DOMAIN yielded' = Calls /\ yielded'[c] \in Seq(Items(c))
      /\ \A k \in Calls : k # c => phase'[k] = phase[k] /\ yielded'[k] = yielded[k]
      /\ phase'[c] \in Phases \ {"absent", "off"}
  BY <1>1, <1>3 DEF Functions, Own, Phases
<1>5. StepOf(c)
  BY <1>1, <1>3, <1>4, QuietStep
<1> QED
  BY <1>1, <1>2, <1>3, <1>5

-----------------------------------------------------------------------------
(* The whole pool.                                                          *)

\* Only a generator has a consumer.
Handed ==
  /\ phase \in [Calls -> Phases]
  /\ \A c \in Calls : phase[c] = "yielded" => c \in Streams \cup Ordered

LEMMA HandedNext ==
  ASSUME Handed, [Next]_vars
  PROVE  Handed'
<1>1. CASE UNCHANGED vars
  BY <1>1 DEF Handed, vars, call
<1>2. ASSUME NEW d \in Drainers, Drain(d) PROVE Handed'
  BY <1>2 DEF Drain, Handed, call
<1>3. ASSUME NEW c \in Calls, c \in Streams \cup Ordered,
             UNCHANGED phase \/ \E p \in Phases : Becomes(c, p)
      PROVE  Handed'
  BY <1>3 DEF Handed, Becomes
<1>4. ASSUME NEW c \in Calls, NEW p \in Phases \ {"yielded"}, Becomes(c, p)
      PROVE  Handed'
  BY <1>4 DEF Handed, Becomes
<1>5. ASSUME NEW c \in Calls, NEW i \in Items(c), Settles(c, i) PROVE Handed'
  <2>1. PICK end \in {"ok", "failed"} : StageSettles(c, i, end) \/ ItemSettles(c, i, end)
    BY <1>5 DEF Settles
  <2>2. CASE StageSettles(c, i, end)
    BY <1>4, <2>2 DEF StageSettles, Phases
  <2>3. CASE ItemSettles(c, i, end)
    <3>1. c \in Streams \cup Ordered
      BY <2>3 DEF ItemSettles
    <3>2. UNCHANGED phase \/ \E p \in Phases : Becomes(c, p)
      BY <2>3 DEF ItemSettles, Generate, Phases
    <3> QED
      BY <1>3, <3>1, <3>2
  <2> QED
    BY <2>1, <2>2, <2>3
<1>6. ASSUME NEW c \in Calls, PullStream(c) \/ PullOrdered(c) PROVE Handed'
  <2>1. c \in Streams \cup Ordered
    BY <1>6 DEF PullStream, PullOrdered
  <2>2. \E p \in Phases : Becomes(c, p)
    BY <1>6 DEF PullStream, PullOrdered, Generate, Phases
  <2> QED
    BY <1>3, <2>1, <2>2
<1>7. ASSUME NEW c \in Calls,
             StartPipe(c) \/ StartFanOut(c) \/ StartGenerator(c) \/ NextPipe(c)
             \/ NextRound(c) \/ FinishOrdered(c) \/ Stop(c)
      PROVE  Handed'
  BY <1>4, <1>7 DEF StartPipe, StartFanOut, StartGenerator, NextPipe, NextStage, NextRound,
                    FinishOrdered, Stop, Phases
<1>8. ASSUME NEW c \in Calls, Take(c) PROVE Handed'
  BY <1>8 DEF Take, Handed
<1>9. ASSUME NEW c \in Calls, Answers(c) PROVE Handed'
  BY <1>4, <1>9 DEF Answers, FanOutSettles, Phases
<1> QED
  BY <1>1, <1>2, <1>5, <1>6, <1>7, <1>8, <1>9 DEF Next, GoesOn

LEMMA NextSteps ==
  ASSUME Functions, \A c \in Calls : Own(c), Handed, [Next]_vars
  PROVE  \/ \E c \in Calls : StepOf(c)
         \/ \E d \in Drainers : Drain(d)
         \/ UNCHANGED vars
<1>1. ASSUME NEW c \in Calls, NEW i \in Items(c), Settles(c, i) PROVE StepOf(c)
  BY <1>1, StageSettlesStep, ItemSettlesStep DEF Settles
<1>2. ASSUME NEW c \in Calls, StartPipe(c) \/ NextPipe(c) PROVE StepOf(c)
  BY <1>2, NextStageStep DEF StartPipe, NextPipe
<1>3. ASSUME NEW c \in Calls, StartFanOut(c) \/ Answers(c) \/ NextRound(c) PROVE StepOf(c)
  BY <1>3, FanOutStep
<1>4. ASSUME NEW c \in Calls, StartGenerator(c) PROVE StepOf(c)
  BY <1>4, StartGeneratorStep
<1>5. ASSUME NEW c \in Calls, Take(c) \/ PullStream(c) \/ PullOrdered(c) PROVE StepOf(c)
  BY <1>5, TakeStep, PullStreamStep, PullOrderedStep
<1>6. ASSUME NEW c \in Calls, FinishOrdered(c) \/ Stop(c) PROVE StepOf(c)
  BY <1>6, EndStep DEF Handed
<1> QED
  BY <1>1, <1>2, <1>3, <1>4, <1>5, <1>6 DEF Next, GoesOn

-----------------------------------------------------------------------------
(* #inFlight and drain.                                                     *)

\* Nobody waits in drain but on the barrier, and the barrier is there for
\* dispatches that are under way.
Waits ==
  /\ barrier \in {"none", "pending"}
  /\ drain \in [Drainers -> {"idle", "waiting", "returned"}]
  /\ (barrier = "pending") <=> \E d \in Drainers : drain[d] = "waiting"
  /\ barrier = "pending" => inFlight > 0

Counted ==
  /\ IsFiniteSet(UnderWay) /\ inFlight = Cardinality(UnderWay)
  /\ Waits

PInv == Functions /\ (\A c \in Calls : Own(c)) /\ Handed /\ Counted

\* The step a caller of drain returns by is one that leaves nothing under way.
DrainStep ==
  (\E d \in Drainers : drain[d] # "returned" /\ drain'[d] = "returned") => inFlight' = 0

LEMMA IncWaits ==
  ASSUME Waits, inFlight \in Nat, NEW n \in Nat, InFlightInc(n)
  PROVE  inFlight' = inFlight + n /\ Waits' /\ DrainStep
BY DEF Waits, InFlightInc, DrainStep

LEMMA DecWaits ==
  ASSUME Waits, NEW n \in Nat, inFlight \in Nat, n <= inFlight, InFlightDec(n)
  PROVE  inFlight' = inFlight - n /\ Waits' /\ DrainStep
<1>1. inFlight' = inFlight - n /\ inFlight' \in Nat
  BY DEF InFlightDec
<1>2. CASE inFlight' = 0 /\ barrier = "pending"
  <2>1. /\ barrier' = "none"
        /\ drain' = [d \in Drainers |-> IF drain[d] = "waiting" THEN "returned" ELSE drain[d]]
    BY <1>2 DEF InFlightDec
  <2> QED
    BY <1>1, <1>2, <2>1 DEF Waits, DrainStep
<1>3. CASE ~ (inFlight' = 0 /\ barrier = "pending")
  <2>1. UNCHANGED <<barrier, drain>>
    BY <1>3 DEF InFlightDec
  <2> QED
    BY <1>1, <1>3, <2>1 DEF Waits, DrainStep
<1> QED
  BY <1>2, <1>3

\* A dispatch under way is a call with the number of one of its dispatches.
LEMMA UnderWayIs ==
  /\ \A x : x \in UnderWay <=> \E k \in Calls : \E i \in Dispatched(k) : x = <<k, i>>
  /\ \A x : x \in UnderWay' <=> \E k \in Calls : \E i \in Dispatched(k)' : x = <<k, i>>
BY DEF UnderWay

LEMMA DisjointSum ==
  ASSUME NEW S, NEW T, IsFiniteSet(S), IsFiniteSet(T), S \cap T = {}
  PROVE  IsFiniteSet(S \cup T) /\ Cardinality(S \cup T) = Cardinality(S) + Cardinality(T)
<1>1. Cardinality(S \cap T) = 0
  BY FS_EmptySet
<1>2. Cardinality(S) \in Nat /\ Cardinality(T) \in Nat
  BY FS_CardinalityType
<1>3. /\ IsFiniteSet(S \cup T)
      /\ Cardinality(S \cup T) = Cardinality(S) + Cardinality(T) - Cardinality(S \cap T)
  BY FS_Union
<1> QED
  BY <1>1, <1>2, <1>3

LEMMA TimesOne ==
  \A c, A : \E P : P = {c} \X A /\ \A x : x \in P <=> \E i \in A : x = <<c, i>>
<1> SUFFICES ASSUME NEW c, NEW A
             PROVE  \E P : P = {c} \X A /\ \A x : x \in P <=> \E i \in A : x = <<c, i>>
  OBVIOUS
<1>1. ASSUME NEW x, x \in {c} \X A PROVE \E i \in A : x = <<c, i>>
  <2>1. x = <<x[1], x[2]>> /\ x[1] = c /\ x[2] \in A
    BY <1>1
  <2> QED
    BY <2>1
<1>2. \A i \in A : <<c, i>> \in {c} \X A
  OBVIOUS
<1>3. PICK P : P = {c} \X A
  OBVIOUS
<1>4. \A x : x \in P <=> \E i \in A : x = <<c, i>>
  <2>1. ASSUME NEW x, x \in P PROVE \E i \in A : x = <<c, i>>
    BY <1>1, <1>3, <2>1, Zenon
  <2>2. \A i \in A : <<c, i>> \in P
    BY <1>2, <1>3, Zenon
  <2> QED
    BY <2>1, <2>2
<1> QED
  BY <1>3, <1>4, Zenon

LEMMA DispatchesOfOne ==
  ASSUME NEW c \in Calls, NEW A, IsFiniteSet(A)
  PROVE  IsFiniteSet({c} \X A) /\ Cardinality({c} \X A) = Cardinality(A)
<1>1. IsFiniteSet({c}) /\ Cardinality({c}) = 1
  BY FS_Singleton
<1>2. Cardinality(A) \in Nat
  BY FS_CardinalityType
<1>3. /\ IsFiniteSet({c} \X A)
      /\ Cardinality({c} \X A) = Cardinality({c}) * Cardinality(A)
  BY <1>1, FS_Product
<1> QED
  BY <1>1, <1>2, <1>3

\* The step of one call that dispatches what it had not.
LEMMA MoreUnderWay ==
  ASSUME NEW c \in Calls, \A k \in Calls : k # c => Dispatched(k)' = Dispatched(k),
         NEW A, A \cap Dispatched(c) = {}, Dispatched(c)' = Dispatched(c) \cup A
  PROVE  \E P : /\ P = {c} \X A
                /\ UnderWay' = UnderWay \cup P /\ UnderWay \cap P = {}
<1>1. PICK P : P = {c} \X A /\ \A x : x \in P <=> \E i \in A : x = <<c, i>>
  BY TimesOne
<1>2. UnderWay' = UnderWay \cup P
  <2>1. \A x : x \in UnderWay' <=> x \in UnderWay \/ \E i \in A : x = <<c, i>>
    BY UnderWayIs
  <2> QED
    BY <1>1, <2>1
<1>3. UnderWay \cap P = {}
  <2>1. \A i \in A : <<c, i>> \notin UnderWay
    BY UnderWayIs
  <2> QED
    BY <1>1, <2>1
<1> QED
  BY <1>1, <1>2, <1>3

LEMMA CountStep ==
  ASSUME \A k \in Calls : Own(k), Counted, NEW c \in Calls, Others(c), Counts(c)
  PROVE  Counted' /\ DrainStep
<1>1. \A k \in Calls : k # c => Dispatched(k)' = Dispatched(k)
  BY OwnKept DEF Others
<1>2. inFlight \in Nat
  BY FS_CardinalityType DEF Counted
<1>3. CASE Dispatched(c)' = Dispatched(c) /\ UNCHANGED counter
  <2>1. UnderWay' = UnderWay
    BY <1>1, <1>3, UnderWayIs
  <2> QED
    BY <1>3, <2>1 DEF Counted, Waits, counter, DrainStep
<1>4. ASSUME NEW A \in SUBSET Nat, IsFiniteSet(A), A \cap Dispatched(c) = {},
             Dispatched(c)' = Dispatched(c) \cup A, InFlightInc(Cardinality(A))
      PROVE  Counted' /\ DrainStep
  <2>1. PICK P : P = {c} \X A /\ UnderWay' = UnderWay \cup P /\ UnderWay \cap P = {}
    BY <1>1, <1>4, MoreUnderWay
  <2>2. IsFiniteSet(UnderWay') /\ Cardinality(UnderWay') = Cardinality(UnderWay) + Cardinality(A)
    <3>1. IsFiniteSet(P) /\ Cardinality(P) = Cardinality(A)
      BY <1>4, <2>1, DispatchesOfOne
    <3>2. IsFiniteSet(UnderWay \cup P)
          /\ Cardinality(UnderWay \cup P) = Cardinality(UnderWay) + Cardinality(P)
      BY <2>1, <3>1, DisjointSum DEF Counted
    <3> QED
      BY <2>1, <3>1, <3>2
  <2>3. inFlight' = inFlight + Cardinality(A) /\ Waits' /\ DrainStep
    BY <1>2, <1>4, FS_CardinalityType, IncWaits DEF Counted
  <2> QED
    BY <2>2, <2>3 DEF Counted
<1>5. ASSUME NEW A \in SUBSET Dispatched(c), IsFiniteSet(A),
             Dispatched(c)' = Dispatched(c) \ A, InFlightDec(Cardinality(A))
      PROVE  Counted' /\ DrainStep
  <2>1. PICK P : P = {c} \X A /\ \A x : x \in P <=> \E i \in A : x = <<c, i>>
    BY TimesOne
  <2>2. UnderWay' = UnderWay \ P /\ P \subseteq UnderWay
    <3>1. \A x : x \in UnderWay' <=> x \in UnderWay /\ ~ \E i \in A : x = <<c, i>>
      BY <1>1, <1>5, UnderWayIs
    <3>2. \A i \in A : <<c, i>> \in UnderWay
      BY <1>5, UnderWayIs
    <3> QED
      BY <2>1, <3>1, <3>2
  <2>3. /\ IsFiniteSet(UnderWay') /\ Cardinality(UnderWay') = Cardinality(UnderWay) - Cardinality(A)
        /\ Cardinality(A) <= Cardinality(UnderWay)
    <3>1. IsFiniteSet(P) /\ Cardinality(P) = Cardinality(A)
      BY <1>5, <2>1, DispatchesOfOne
    <3>2. Cardinality(P) <= Cardinality(UnderWay)
      BY <2>2, FS_Subset DEF Counted
    <3>3. UnderWay \cap P = P
      BY <2>2
    <3>4. /\ IsFiniteSet(UnderWay \ P)
          /\ Cardinality(UnderWay \ P) = Cardinality(UnderWay) - Cardinality(UnderWay \cap P)
      BY FS_Difference DEF Counted
    <3> QED
      BY <2>2, <3>1, <3>2, <3>3, <3>4
  <2>4. inFlight' = inFlight - Cardinality(A) /\ Waits' /\ DrainStep
    BY <1>2, <1>5, <2>3, FS_CardinalityType, DecWaits DEF Counted
  <2> QED
    BY <2>3, <2>4 DEF Counted
<1> QED
  BY <1>3, <1>4, <1>5 DEF Counts

LEMMA DrainWaits ==
  ASSUME Waits, inFlight \in Nat, NEW d \in Drainers, Drain(d)
  PROVE  Waits' /\ DrainStep /\ UNCHANGED <<call, inFlight>>
<1>1. /\ UNCHANGED <<call, inFlight>>
      /\ barrier' = IF inFlight > 0 THEN "pending" ELSE barrier
      /\ drain' = [drain EXCEPT ![d] = IF inFlight = 0 THEN "returned" ELSE "waiting"]
      /\ drain[d] = "idle"
  BY DEF Drain, Waits
<1>2. inFlight = 0 => barrier = "none"
  BY DEF Waits
<1>3. CASE inFlight = 0
  BY <1>1, <1>2, <1>3 DEF Waits, DrainStep
<1>4. CASE inFlight > 0
  <2>1. inFlight # 0
    BY <1>4
  <2>2. /\ barrier' = "pending" /\ drain' = [drain EXCEPT ![d] = "waiting"]
        /\ inFlight' = inFlight
    BY <1>1, <1>4, <2>1
  <2> QED
    BY <1>1, <1>4, <2>2 DEF Waits, DrainStep
<1> QED
  BY <1>1, <1>3, <1>4

LEMMA SameCalls ==
  ASSUME Functions, \A c \in Calls : Own(c), UNCHANGED call
  PROVE  Functions' /\ (\A c \in Calls : Own(c)') /\ UnderWay' = UnderWay
<1>1. \A c \in Calls : Kept(c)
  BY DEF Kept, call
<1>2. \A c \in Calls : Own(c)' /\ Dispatched(c)' = Dispatched(c)
  BY <1>1, OwnKept
<1>3. UnderWay' = UnderWay
  BY <1>2, UnderWayIs
<1> QED
  BY <1>2, <1>3 DEF Functions, call

LEMMA PInit == Init => PInv
<1> SUFFICES ASSUME Init PROVE PInv
  OBVIOUS
<1>1. \A c \in Calls : Size[c] \in Nat
  BY Kinds
<1>2. Functions /\ Handed
  BY DEF Init, Functions, Handed, Phases
<1>3. ASSUME NEW c \in Calls PROVE Own(c) /\ Dispatched(c) = {}
  <2>1. /\ phase[c] \in {"absent", "off"} /\ cursor[c] = 1 /\ free[c] = 0
        /\ item[c] = [i \in Items(c) |-> "todo"]
        /\ slots[c] = <<>> /\ yielded[c] = <<>> /\ parts[c] = <<>>
    BY DEF Init
  <2>2. Running(c) = {} /\ Listed(c)
    BY <1>1, <2>1 DEF Running, Listed, Items, Fates
  <2>3. Cardinality(Running(c)) = 0
    BY <2>2, FS_EmptySet
  <2> QED
    BY <1>1, <2>1, <2>2, <2>3 DEF Own, Dispatched, PartsOf, Phases
<1>4. UnderWay = {}
  BY <1>3 DEF UnderWay
<1>5. Counted
  BY <1>4, FS_EmptySet DEF Init, Counted, Waits
<1> QED
  BY <1>2, <1>3, <1>5 DEF PInv

LEMMA PNext ==
  ASSUME PInv, [Next]_vars
  PROVE  PInv' /\ DrainStep
<1>1. inFlight \in Nat
  BY FS_CardinalityType DEF PInv, Counted
<1>2. Handed'
  BY HandedNext DEF PInv
<1>3. CASE \E c \in Calls : StepOf(c)
  <2>1. PICK c \in Calls : StepOf(c)
    BY <1>3
  <2>2. Functions' /\ \A k \in Calls : Own(k)'
    BY <2>1, OwnKept DEF StepOf, Others, PInv
  <2>3. Counted' /\ DrainStep
    BY <2>1, CountStep DEF StepOf, PInv
  <2> QED
    BY <1>2, <2>2, <2>3 DEF PInv
<1>4. CASE \E d \in Drainers : Drain(d)
  <2>1. PICK d \in Drainers : Drain(d)
    BY <1>4
  <2>2. Waits' /\ DrainStep /\ UNCHANGED <<call, inFlight>>
    BY <1>1, <2>1, DrainWaits DEF PInv, Counted
  <2>3. Functions' /\ (\A c \in Calls : Own(c)') /\ UnderWay' = UnderWay
    BY <2>2, SameCalls DEF PInv
  <2> QED
    BY <1>2, <2>2, <2>3 DEF PInv, Counted
<1>5. CASE UNCHANGED vars
  <2>1. Functions' /\ (\A c \in Calls : Own(c)') /\ UnderWay' = UnderWay
    BY <1>5, SameCalls DEF PInv, vars
  <2>2. Waits' /\ DrainStep
    BY <1>5 DEF PInv, Counted, Waits, vars, counter, DrainStep
  <2> QED
    BY <1>2, <1>5, <2>1, <2>2 DEF PInv, Counted, vars, counter
<1> QED
  BY <1>3, <1>4, <1>5, NextSteps DEF PInv

THEOREM PoolInvariant == Spec => []PInv
BY PInit, PNext, PTL DEF Spec

\* #inFlight is the number of dispatches under way, for any calls together,
\* and there is a barrier exactly when somebody waits on it (#inFlightInc,
\* #inFlightDec, drain).
THEOREM InFlightExact == Spec => []InFlightIsExact
<1>1. PInv => InFlightIsExact
  <2> SUFFICES ASSUME PInv PROVE InFlightIsExact
    OBVIOUS
  <2>1. inFlight \in Nat
    BY FS_CardinalityType DEF PInv, Counted
  <2>2. ASSUME NEW c \in Calls
        PROVE  /\ cursor[c] \in 1 .. Size[c] + 1
               /\ item[c] \in [Items(c) -> Fates]
               /\ \A i \in Items(c) : (item[c][i] = "todo") <=> (i >= cursor[c])
               /\ slots[c] \in Seq(Items(c)) /\ yielded[c] \in Seq(Items(c))
               /\ free[c] \in 0 .. Size[c]
               /\ parts[c] \in Seq(Seq(0 .. Size[c]))
               /\ phase[c] \in Phases
    <3>1. Own(c)
      BY DEF PInv
    <3>2. free[c] \in Nat /\ free[c] + Cardinality(Running(c)) <= Size[c]
      BY <3>1 DEF Own
    <3>3. free[c] \in 0 .. Size[c]
      BY <3>2, RunningFinite, Kinds
    <3> QED
      BY <3>1, <3>3 DEF Own, Listed, PartsOf
  <2>3. phase \in [Calls -> Phases]
    BY DEF PInv, Handed
  <2>4. TypeOK
    BY <2>1, <2>2, <2>3 DEF TypeOK, Phases, Fates, PInv, Counted, Waits
  <2> QED
    BY <2>4 DEF InFlightIsExact, PInv, Counted, Waits
<1> QED
  BY <1>1, PoolInvariant, PTL

\* drain returns in a state in which no dispatch is under way, whichever of
\* its two ways it takes.
THEOREM DrainIdle == Spec => DrainMeansIdle
<1>1. ASSUME PInv, [Next]_vars
      PROVE  [(\E d \in Drainers : drain[d] # "returned" /\ drain'[d] = "returned")
                => UnderWay' = {}]_vars
  <2>1. PInv' /\ DrainStep
    BY <1>1, PNext
  <2>2. IsFiniteSet(UnderWay') /\ inFlight' = Cardinality(UnderWay')
    BY <2>1 DEF PInv, Counted
  <2>3. inFlight' = 0 => UnderWay' = {}
    BY <2>2, FS_EmptySet
  <2> QED
    BY <2>1, <2>3 DEF DrainStep
<1> QED
  BY <1>1, PoolInvariant, PTL DEF Spec, DrainMeansIdle

-----------------------------------------------------------------------------
(* What a generator hands to its consumer.                                  *)

Within(i, s) == \E k \in DOMAIN s : s[k] = i

\* What was handed over ended well, and was handed over once.
Handover(c) ==
  /\ \A k, l \in DOMAIN yielded[c] : yielded[c][k] = yielded[c][l] => k = l
  /\ \A k \in DOMAIN yielded[c] : item[c][yielded[c][k]] = "ok"

\* The slots of mapStream have each an item of its own that was dispatched,
\* and every item that was dispatched is in a slot or was handed over.
Slotted(c) ==
  /\ \A k, l \in DOMAIN slots[c] : slots[c][k] = slots[c][l] => k = l
  /\ \A k \in DOMAIN slots[c] : slots[c][k] < cursor[c]
  /\ \A i \in 1 .. cursor[c] - 1 : Within(i, slots[c]) \/ Within(i, yielded[c])

\* The item the consumer has keeps its slot until the next pull.
StreamYields(c) ==
  /\ phase[c] \in {"absent", "off"} => yielded[c] = <<>>
  /\ phase[c] \in {"await", "yielded"} =>
       /\ Slotted(c)
       /\ \A k \in DOMAIN yielded[c] :
            Within(yielded[c][k], slots[c]) <=> phase[c] = "yielded" /\ k = Len(yielded[c])
  /\ phase[c] = "yielded" => yielded[c] # <<>>
  /\ phase[c] = "done" /\ Width[c] > 0 => Len(yielded[c]) = Size[c]

OrderedYields(c) ==
  /\ phase[c] \in {"absent", "off"} => yielded[c] = <<>>
  /\ \A k \in DOMAIN yielded[c] : yielded[c][k] = k
  /\ phase[c] = "done" => Len(yielded[c]) = Size[c]

Yields(c) ==
  /\ c \in Streams \cup Ordered => Handover(c)
  /\ c \in Streams => StreamYields(c)
  /\ c \in Ordered => OrderedYields(c)

LEMMA YieldsKept ==
  ASSUME NEW c \in Calls, Yields(c), Kept(c)
  PROVE  Yields(c)'
BY DEF Yields, Kept, Handover, Slotted, StreamYields, OrderedYields, Within

LEMMA RemoveAtFacts ==
  ASSUME NEW S, NEW s \in Seq(S), NEW w \in 1 .. Len(s)
  PROVE  /\ Len(RemoveAt(s, w)) = Len(s) - 1
         /\ \A k \in 1 .. Len(s) - 1 : RemoveAt(s, w)[k] = IF k < w THEN s[k] ELSE s[k + 1]
<1>1. Len(s) \in Nat /\ \A k \in 1 .. Len(s) : s[k] \in S
  BY LenProperties, ElementOfSeq
<1> DEFINE a == SubSeq(s, 1, w - 1)
           b == SubSeq(s, w + 1, Len(s))
<1>2. a \in Seq(S) /\ Len(a) = w - 1 /\ \A k \in 1 .. w - 1 : a[k] = s[k]
  BY <1>1, SubSeqProperties
<1>3. b \in Seq(S) /\ Len(b) = Len(s) - w /\ \A k \in 1 .. Len(s) - w : b[k] = s[w + k]
  BY <1>1, SubSeqProperties
<1>4. RemoveAt(s, w) = a \o b
  BY DEF RemoveAt
<1> HIDE DEF a, b
<1>5. /\ Len(a \o b) = Len(a) + Len(b)
      /\ \A k \in 1 .. Len(a) + Len(b) : (a \o b)[k] = IF k <= Len(a) THEN a[k] ELSE b[k - Len(a)]
  BY <1>2, <1>3, ConcatProperties
<1>6. ASSUME NEW k \in 1 .. Len(s) - 1
      PROVE  (a \o b)[k] = IF k < w THEN s[k] ELSE s[k + 1]
  <2>1. CASE k < w
    BY <1>1, <1>2, <1>3, <1>5, <2>1
  <2>2. CASE ~ (k < w)
    <3>1. PICK j \in 1 .. Len(s) - w : j = k - (w - 1)
      BY <1>1, <2>2
    <3>2. w + j = k + 1 /\ k - Len(a) = j /\ ~ (k <= Len(a)) /\ k \in 1 .. Len(a) + Len(b)
      BY <1>1, <1>2, <1>3, <2>2, <3>1
    <3>3. (a \o b)[k] = b[j]
      BY <1>5, <3>2
    <3>4. b[j] = s[k + 1]
      BY <1>3, <3>2
    <3> QED
      BY <2>2, <3>3, <3>4
  <2> QED
    BY <2>1, <2>2
<1> QED
  BY <1>1, <1>2, <1>3, <1>4, <1>5, <1>6

\* The pull takes the slot of the last item handed over, and no other.
LEMMA SplicedFacts ==
  ASSUME NEW c \in Calls, NEW S, slots[c] \in Seq(S), Within(Last(yielded[c]), slots[c]),
         \A k, l \in DOMAIN slots[c] : slots[c][k] = slots[c][l] => k = l
  PROVE  /\ \A k, l \in DOMAIN Spliced(c) : Spliced(c)[k] = Spliced(c)[l] => k = l
         /\ \A i : Within(i, Spliced(c)) <=> Within(i, slots[c]) /\ i # Last(yielded[c])
<1> DEFINE I == {k \in 1 .. Len(slots[c]) : slots[c][k] = Last(yielded[c])}
           w == SelectInSeq(slots[c], LAMBDA i : i = Last(yielded[c]))
<1>1. w = IF I # {} THEN Min(I) ELSE 0
  BY DEF SelectInSeq
<1>2. Len(slots[c]) \in Nat /\ DOMAIN slots[c] = 1 .. Len(slots[c]) /\ I \subseteq Nat
  BY LenProperties
<1>3. I # {}
  BY <1>2 DEF Within
<1>4. Min(I) \in I
  <2> HIDE DEF I
  <2> QED
    BY <1>2, <1>3, LeastIsIn
<1>5. w \in 1 .. Len(slots[c]) /\ slots[c][w] = Last(yielded[c])
  BY <1>1, <1>3, <1>4
<1>6. Spliced(c) = RemoveAt(slots[c], w)
  BY DEF Spliced
<1> HIDE DEF w, I
<1>7. PICK s, t : s = slots[c] /\ t = Spliced(c)
  OBVIOUS
<1>8. /\ t \in Seq(S) /\ Len(t) = Len(s) - 1 /\ DOMAIN t = 1 .. Len(s) - 1
      /\ \A k \in 1 .. Len(s) - 1 : t[k] = IF k < w THEN s[k] ELSE s[k + 1]
  <2>1. s \in Seq(S) /\ w \in 1 .. Len(s) /\ w \in 0 .. Len(s) /\ t = RemoveAt(s, w)
    BY <1>2, <1>5, <1>6, <1>7
  <2>2. t \in Seq(S)
    BY <2>1, RemoveAtTyped
  <2>3. /\ Len(t) = Len(s) - 1
        /\ \A k \in 1 .. Len(s) - 1 : t[k] = IF k < w THEN s[k] ELSE s[k + 1]
    BY <2>1, RemoveAtFacts
  <2>4. DOMAIN t = 1 .. Len(t)
    BY <2>2, LenProperties
  <2> QED
    BY <2>2, <2>3, <2>4
<1>9. Len(s) \in Nat /\ DOMAIN s = 1 .. Len(s) /\ w \in 1 .. Len(s) /\ s[w] = Last(yielded[c])
  BY <1>2, <1>5, <1>7
<1>10. \A k, l \in DOMAIN t : t[k] = t[l] => k = l
  <2> SUFFICES ASSUME NEW k \in DOMAIN t, NEW l \in DOMAIN t, t[k] = t[l] PROVE k = l
    OBVIOUS
  <2>1. \A m, n \in 1 .. Len(s) : s[m] = s[n] => m = n
    BY <1>7, <1>9
  <2>2. k \in 1 .. Len(s) /\ k + 1 \in 1 .. Len(s) /\ l \in 1 .. Len(s) /\ l + 1 \in 1 .. Len(s)
    BY <1>8, <1>9
  <2> QED
    BY <1>8, <1>9, <2>1, <2>2
<1>11. \A k \in DOMAIN t : Within(t[k], s) /\ t[k] # s[w]
  <2> SUFFICES ASSUME NEW k \in DOMAIN t PROVE Within(t[k], s) /\ t[k] # s[w]
    OBVIOUS
  <2>1. \A m, n \in 1 .. Len(s) : s[m] = s[n] => m = n
    BY <1>7, <1>9
  <2>2. k \in 1 .. Len(s) /\ k + 1 \in 1 .. Len(s)
    BY <1>8, <1>9
  <2> QED
    BY <1>8, <1>9, <2>1, <2>2 DEF Within
<1>12. \A k \in DOMAIN s : k # w => Within(s[k], t)
  <2> SUFFICES ASSUME NEW k \in DOMAIN s, k # w PROVE Within(s[k], t)
    OBVIOUS
  <2>1. CASE k < w
    <3>1. k \in DOMAIN t /\ t[k] = s[k]
      BY <1>8, <1>9, <2>1
    <3> QED
      BY <3>1 DEF Within
  <2>2. CASE ~ (k < w)
    <3>1. k - 1 \in DOMAIN t /\ ~ (k - 1 < w) /\ (k - 1) + 1 = k
      BY <1>8, <1>9, <2>2
    <3>2. t[k - 1] = s[k]
      BY <1>8, <3>1
    <3> QED
      BY <3>1, <3>2 DEF Within
  <2> QED
    BY <2>1, <2>2
<1>13. \A i : Within(i, t) <=> Within(i, s) /\ i # s[w]
  BY <1>9, <1>11, <1>12 DEF Within
<1> QED
  BY <1>7, <1>9, <1>10, <1>13

LEMMA AppendFacts ==
  ASSUME NEW S, NEW s \in Seq(S), NEW x \in S
  PROVE  /\ Append(s, x) # <<>> /\ Len(Append(s, x)) = Len(s) + 1 /\ Len(s) \in Nat
         /\ DOMAIN s = 1 .. Len(s) /\ DOMAIN Append(s, x) = 1 .. Len(s) + 1
         /\ \A k \in 1 .. Len(s) : Append(s, x)[k] = s[k]
         /\ Append(s, x)[Len(s) + 1] = x
         /\ \A i : Within(i, Append(s, x)) <=> Within(i, s) \/ i = x
<1>1. /\ Append(s, x) # <<>> /\ Len(Append(s, x)) = Len(s) + 1 /\ Len(s) \in Nat
      /\ DOMAIN s = 1 .. Len(s) /\ DOMAIN Append(s, x) = 1 .. Len(s) + 1
      /\ \A k \in 1 .. Len(s) : Append(s, x)[k] = s[k]
      /\ Append(s, x)[Len(s) + 1] = x
  BY LenProperties, AppendProperties
<1> QED
  BY <1>1 DEF Within

\* The generator of mapStream goes on, with nothing of what was handed over
\* in its slots.
LEMMA StreamGenerates ==
  ASSUME Functions, NEW c \in Streams, yielded[c] \in Seq(Items(c)),
         slots'[c] \in Seq(Items(c)), item'[c] \in [Items(c) -> Fates], Generate(c),
         \A k, l \in DOMAIN yielded[c] : yielded[c][k] = yielded[c][l] => k = l,
         \A k \in DOMAIN yielded[c] : item'[c][yielded[c][k]] = "ok",
         \A k, l \in DOMAIN slots'[c] : slots'[c][k] = slots'[c][l] => k = l,
         \A k \in DOMAIN slots'[c] : slots'[c][k] < cursor'[c],
         \A i \in 1 .. cursor'[c] - 1 : Within(i, slots'[c]) \/ Within(i, yielded[c]),
         \A k \in DOMAIN yielded[c] : ~ Within(yielded[c][k], slots'[c])
  PROVE  Yields(c)'
<1>1. c \notin Ordered
  BY Kinds
<1>2. CASE phase'[c] \in {"await", "failed"} /\ yielded'[c] = yielded[c]
  BY <1>1, <1>2 DEF Yields, Handover, StreamYields, Slotted, Within
<1>3. CASE /\ phase'[c] = "yielded"
           /\ \E i \in Items(c) :
                /\ yielded'[c] = Append(yielded[c], i) /\ item'[c][i] = "ok"
                /\ \E k \in DOMAIN slots'[c] : slots'[c][k] = i
  <2>1. PICK i \in Items(c) :
          /\ yielded'[c] = Append(yielded[c], i) /\ item'[c][i] = "ok"
          /\ Within(i, slots'[c])
    BY <1>3 DEF Within
  <2>2. PICK y, z, s : y = yielded[c] /\ z = Append(y, i) /\ s = slots'[c]
    OBVIOUS
  <2>3. /\ z # <<>> /\ Len(z) = Len(y) + 1 /\ Len(y) \in Nat
        /\ DOMAIN y = 1 .. Len(y) /\ DOMAIN z = 1 .. Len(y) + 1
        /\ \A k \in 1 .. Len(y) : z[k] = y[k]
        /\ z[Len(y) + 1] = i
        /\ \A j : Within(j, z) <=> Within(j, y) \/ j = i
    BY <2>2, AppendFacts
  <2>4. \A k \in DOMAIN y : y[k] # i
    BY <2>1, <2>2 DEF Within
  <2>5. \A k, l \in DOMAIN z : z[k] = z[l] => k = l
    <3> SUFFICES ASSUME NEW k \in DOMAIN z, NEW l \in DOMAIN z, z[k] = z[l] PROVE k = l
      OBVIOUS
    <3>1. (k = Len(y) + 1 \/ k \in DOMAIN y) /\ (l = Len(y) + 1 \/ l \in DOMAIN y)
      BY <2>3
    <3> QED
      BY <2>2, <2>3, <2>4, <3>1
  <2>6. \A k \in DOMAIN z : item'[c][z[k]] = "ok"
    <3> SUFFICES ASSUME NEW k \in DOMAIN z PROVE item'[c][z[k]] = "ok"
      OBVIOUS
    <3>1. k = Len(y) + 1 \/ k \in DOMAIN y
      BY <2>3
    <3> QED
      BY <2>1, <2>2, <2>3, <3>1
  <2>7. \A k \in DOMAIN z : Within(z[k], s) <=> k = Len(z)
    <3> SUFFICES ASSUME NEW k \in DOMAIN z PROVE Within(z[k], s) <=> k = Len(z)
      OBVIOUS
    <3>1. k = Len(y) + 1 \/ (k \in DOMAIN y /\ k # Len(y) + 1)
      BY <2>3
    <3> QED
      BY <2>1, <2>2, <2>3, <3>1
  <2>8. \A j \in 1 .. cursor'[c] - 1 : Within(j, s) \/ Within(j, z)
    BY <2>2, <2>3
  <2>9. yielded'[c] = z /\ slots'[c] = s
    BY <2>1, <2>2
  <2>10. Handover(c)'
    BY <2>5, <2>6, <2>9 DEF Handover
  <2>11. StreamYields(c)'
    BY <1>3, <2>2, <2>3, <2>7, <2>8, <2>9 DEF StreamYields, Slotted, Within
  <2> QED
    BY <1>1, <2>10, <2>11 DEF Yields
<1> QED
  BY <1>2, <1>3, GenerateStep

\* The generator of mapOrdered goes on.
LEMMA OrderedGenerates ==
  ASSUME Functions, NEW c \in Ordered, yielded[c] \in Seq(Items(c)),
         slots'[c] \in Seq(Items(c)), item'[c] \in [Items(c) -> Fates], Generate(c),
         \A k \in DOMAIN yielded[c] : yielded[c][k] = k,
         \A k \in DOMAIN yielded[c] : item'[c][yielded[c][k]] = "ok"
  PROVE  Yields(c)'
<1>1. c \notin Streams
  BY Kinds
<1>2. CASE phase'[c] \in {"await", "failed"} /\ yielded'[c] = yielded[c]
  BY <1>1, <1>2 DEF Yields, Handover, OrderedYields
<1>3. CASE /\ phase'[c] = "yielded"
           /\ \E i \in Items(c) :
                /\ yielded'[c] = Append(yielded[c], i) /\ item'[c][i] = "ok"
                /\ i = Len(yielded[c]) + 1
  <2>1. PICK i \in Items(c) :
          /\ yielded'[c] = Append(yielded[c], i) /\ item'[c][i] = "ok"
          /\ i = Len(yielded[c]) + 1
    BY <1>3
  <2>2. PICK y, z : y = yielded[c] /\ z = Append(y, i)
    OBVIOUS
  <2>3. /\ Len(y) \in Nat /\ DOMAIN y = 1 .. Len(y) /\ DOMAIN z = 1 .. Len(y) + 1
        /\ \A k \in 1 .. Len(y) : z[k] = y[k]
        /\ z[Len(y) + 1] = i
    BY <2>2, AppendFacts
  <2>4. \A k \in DOMAIN z : z[k] = k /\ item'[c][z[k]] = "ok"
    <3> SUFFICES ASSUME NEW k \in DOMAIN z PROVE z[k] = k /\ item'[c][z[k]] = "ok"
      OBVIOUS
    <3>1. k = Len(y) + 1 \/ k \in DOMAIN y
      BY <2>3
    <3> QED
      BY <2>1, <2>2, <2>3, <3>1
  <2>5. yielded'[c] = z
    BY <2>1, <2>2
  <2>6. Handover(c)' /\ OrderedYields(c)'
    BY <1>3, <2>4, <2>5 DEF Handover, OrderedYields
  <2> QED
    BY <1>1, <2>6 DEF Yields
<1> QED
  BY <1>2, <1>3, GenerateStep

\* What ended well stays so when another item is dispatched or answered.
LEMMA StillWell ==
  ASSUME NEW c \in Calls, Listed(c), yielded[c] \in Seq(Items(c)), Handover(c), NEW i \in Items(c),
         item[c][i] # "ok",
         \A k \in Items(c) : k # i => item'[c][k] = item[c][k]
  PROVE  \A k \in DOMAIN yielded[c] : item'[c][yielded[c][k]] = "ok"
<1> SUFFICES ASSUME NEW k \in DOMAIN yielded[c] PROVE item'[c][yielded[c][k]] = "ok"
  OBVIOUS
<1>1. yielded[c][k] \in Items(c)
  BY ElementOfSeq, LenProperties
<1>2. item[c][yielded[c][k]] = "ok"
  BY DEF Handover
<1> QED
  BY <1>1, <1>2

LEMMA YieldsStart ==
  ASSUME Functions, NEW c \in Calls, Own(c), Yields(c), StartGenerator(c)
  PROVE  Yields(c)'
<1>1. /\ StepOf(c) /\ phase[c] = "off" /\ UNCHANGED yielded
      /\ phase'[c] = "done" => Size[c] = 0 \/ (c \in Streams /\ Width[c] = 0)
      /\ c \in Streams => slots'[c] = First(cursor'[c] - 1)
      /\ c \in Streams \cup Ordered
  BY StartGeneratorStep DEF StartGenerator
<1>2. yielded[c] = <<>> /\ yielded'[c] = <<>> /\ DOMAIN yielded'[c] = {} /\ Len(yielded'[c]) = 0
  BY <1>1 DEF Yields, StreamYields, OrderedYields
<1>3. Handover(c)'
  BY <1>2 DEF Handover
<1>4. phase'[c] \in {"done", "await"}
  BY <1>1 DEF StartGenerator, Becomes, Functions
<1>5. CASE c \in Streams
  <2>1. PICK n \in Nat : n = cursor'[c] - 1
    BY <1>1, Kinds DEF StepOf, Own, Listed
  <2>2. /\ DOMAIN slots'[c] = 1 .. n /\ \A k \in 1 .. n : slots'[c][k] = k
        /\ cursor'[c] = n + 1
    BY <1>1, <1>5, <2>1, FirstTyped, Kinds DEF First, StepOf, Own, Listed
  <2>3. Slotted(c)'
    BY <2>2 DEF Slotted, Within
  <2>4. StreamYields(c)'
    BY <1>1, <1>2, <1>4, <1>5, <2>3, Kinds DEF StreamYields
  <2> QED
    BY <1>3, <1>5, <2>4, Kinds DEF Yields
<1>6. CASE c \in Ordered
  <2>1. OrderedYields(c)'
    BY <1>1, <1>2, <1>4, <1>6, Kinds DEF OrderedYields
  <2> QED
    BY <1>3, <1>6, <2>1, Kinds DEF Yields
<1> QED
  BY <1>1, <1>5, <1>6

LEMMA YieldsSettle ==
  ASSUME Functions, NEW c \in Calls, Own(c), Yields(c), NEW i \in Items(c),
         NEW end \in {"ok", "failed"}, ItemSettles(c, i, end)
  PROVE  Yields(c)'
<1>1. /\ StepOf(c) /\ c \in Streams \cup Ordered /\ UNCHANGED <<cursor, slots>>
      /\ item[c][i] = "running"
      /\ \A k \in Items(c) : item'[c][k] = IF k = i THEN end ELSE item[c][k]
      /\ \/ phase[c] = "await" /\ Generate(c)
         \/ phase[c] # "await" /\ UNCHANGED <<phase, yielded>>
  BY ItemSettlesStep
<1>2. /\ Handover(c) /\ Listed(c) /\ yielded[c] \in Seq(Items(c))
      /\ slots'[c] \in Seq(Items(c)) /\ item'[c] \in [Items(c) -> Fates]
  BY <1>1 DEF Yields, Own, Listed, StepOf, Items
<1>3. \A k \in DOMAIN yielded[c] : item'[c][yielded[c][k]] = "ok"
  BY <1>1, <1>2, StillWell
<1>4. CASE phase[c] # "await" /\ UNCHANGED <<phase, yielded>>
  <2>1. Handover(c)'
    BY <1>2, <1>3, <1>4 DEF Handover
  <2> QED
    BY <1>1, <1>4, <2>1 DEF Yields, StreamYields, OrderedYields, Slotted, Within
<1>5. CASE phase[c] = "await" /\ Generate(c)
  <2>1. CASE c \in Streams
    <3>1. /\ Slotted(c)
          /\ \A k \in DOMAIN yielded[c] : ~ Within(yielded[c][k], slots[c])
      BY <1>5, <2>1 DEF Yields, StreamYields
    <3>2. /\ \A k, l \in DOMAIN slots'[c] : slots'[c][k] = slots'[c][l] => k = l
          /\ \A k \in DOMAIN slots'[c] : slots'[c][k] < cursor'[c]
          /\ \A j \in 1 .. cursor'[c] - 1 : Within(j, slots'[c]) \/ Within(j, yielded[c])
          /\ \A k \in DOMAIN yielded[c] : ~ Within(yielded[c][k], slots'[c])
          /\ \A k, l \in DOMAIN yielded[c] : yielded[c][k] = yielded[c][l] => k = l
      BY <1>1, <1>2, <3>1 DEF Slotted, Handover
    <3> QED
      BY <1>2, <1>3, <1>5, <2>1, <3>2, StreamGenerates
  <2>2. CASE c \in Ordered
    <3>1. \A k \in DOMAIN yielded[c] : yielded[c][k] = k
      BY <2>2 DEF Yields, OrderedYields
    <3> QED
      BY <1>2, <1>3, <1>5, <2>2, <3>1, OrderedGenerates
  <2> QED
    BY <1>1, <2>1, <2>2
<1> QED
  BY <1>1, <1>4, <1>5

LEMMA YieldsTake ==
  ASSUME Functions, NEW c \in Calls, Own(c), Yields(c), Take(c)
  PROVE  Yields(c)'
<1>1. /\ c \in Ordered /\ UNCHANGED <<phase, slots, yielded>>
      /\ Dispatch(c) \/ UNCHANGED <<item, cursor>>
      /\ c \notin Streams
  BY TakeStep, Kinds
<1>2. Handover(c) /\ Listed(c) /\ yielded[c] \in Seq(Items(c)) /\ OrderedYields(c)
  BY <1>1 DEF Yields, Own
<1>3. \A k \in DOMAIN yielded[c] : item'[c][yielded[c][k]] = "ok"
  <2>1. CASE Dispatch(c)
    <3>1. PICK i \in Items(c) : i = cursor[c]
      BY <1>2, <2>1, DispatchOne
    <3>2. \A k \in Items(c) : k # i => item'[c][k] = item[c][k]
      BY <1>2, <2>1, <3>1, DispatchOne
    <3>3. item[c][i] = "todo"
      BY <1>2, <3>1, Kinds DEF Listed, Items
    <3> QED
      BY <1>2, <3>2, <3>3, StillWell
  <2>2. CASE UNCHANGED <<item, cursor>>
    BY <1>2, <2>2 DEF Handover
  <2> QED
    BY <1>1, <2>1, <2>2
<1>4. Handover(c)' /\ OrderedYields(c)'
  BY <1>1, <1>2, <1>3 DEF Handover, OrderedYields
<1> QED
  BY <1>1, <1>4 DEF Yields

\* Every item once is as many as there are.
LEMMA AllHandedOver ==
  ASSUME NEW n \in Nat, NEW y \in Seq(1 .. n),
         \A k, l \in DOMAIN y : y[k] = y[l] => k = l,
         \A i \in 1 .. n : Within(i, y)
  PROVE  Len(y) = n
<1>1. Len(y) \in Nat /\ DOMAIN y = 1 .. Len(y) /\ \A k \in 1 .. Len(y) : y[k] \in 1 .. n
  BY LenProperties, ElementOfSeq
<1>2. y \in [1 .. Len(y) -> 1 .. n]
  BY <1>1, SeqDef
<1>3. y \in Bijection(1 .. Len(y), 1 .. n)
  <2>1. y \in Injection(1 .. Len(y), 1 .. n)
    BY <1>1, <1>2 DEF Injection, IsInjective
  <2>2. y \in Surjection(1 .. Len(y), 1 .. n)
    BY <1>1, <1>2 DEF Surjection, Within
  <2> QED
    BY <2>1, <2>2 DEF Bijection
<1>4. /\ IsFiniteSet(1 .. Len(y)) /\ Cardinality(1 .. Len(y)) = Len(y)
      /\ IsFiniteSet(1 .. n) /\ Cardinality(1 .. n) = n
  <2>1. \A m \in Nat : IsFiniteSet(1 .. m) /\ Cardinality(1 .. m) = m
    BY FS_Interval
  <2> QED
    BY <1>1, <2>1
<1>5. Cardinality(1 .. Len(y)) = Cardinality(1 .. n)
  BY <1>3, <1>4, FS_Bijection DEF ExistsBijection
<1> QED
  BY <1>4, <1>5

LEMMA YieldsPull ==
  ASSUME Functions, NEW c \in Calls, Own(c), Yields(c), PullStream(c)
  PROVE  Yields(c)'
<1>1. /\ StepOf(c) /\ c \in Streams /\ phase[c] = "yielded" /\ c \notin Ordered
      /\ \/ Dispatch(c) /\ slots'[c] = Spliced(c) \o <<cursor[c]>>
         \/ /\ ~ (cursor[c] <= Size[c]) /\ UNCHANGED <<item, cursor>>
            /\ slots'[c] = Spliced(c)
      /\ \/ slots'[c] = <<>> /\ phase'[c] = "done" /\ UNCHANGED yielded
         \/ slots'[c] # <<>> /\ Generate(c)
  BY PullStreamStep, Kinds
<1>2. /\ Handover(c) /\ Listed(c) /\ yielded[c] \in Seq(Items(c)) /\ slots[c] \in Seq(Items(c))
      /\ slots'[c] \in Seq(Items(c)) /\ item'[c] \in [Items(c) -> Fates]
      /\ Slotted(c) /\ yielded[c] # <<>>
      /\ \A k \in DOMAIN yielded[c] : Within(yielded[c][k], slots[c]) <=> k = Len(yielded[c])
  BY <1>1 DEF Yields, Own, Listed, StepOf, Items, StreamYields
<1>3. Len(yielded[c]) \in DOMAIN yielded[c] /\ DOMAIN yielded[c] = 1 .. Len(yielded[c])
  BY <1>2, LenProperties, EmptySeq
<1>4. Within(Last(yielded[c]), slots[c]) /\ Within(Last(yielded[c]), yielded[c])
  BY <1>2, <1>3 DEF Last, Within
<1>5. PICK t : t = Spliced(c)
  OBVIOUS
<1>6. /\ t \in Seq(Items(c))
      /\ \A k, l \in DOMAIN t : t[k] = t[l] => k = l
      /\ \A i : Within(i, t) <=> Within(i, slots[c]) /\ i # Last(yielded[c])
  BY <1>2, <1>4, <1>5, SplicedTyped, SplicedFacts DEF Slotted
<1>7. \A k \in DOMAIN yielded[c] : ~ Within(yielded[c][k], t)
  BY <1>2, <1>3, <1>6 DEF Last
<1>8. \A k \in DOMAIN t : t[k] < cursor[c]
  <2>1. \A k \in DOMAIN t : Within(t[k], slots[c])
    BY <1>6 DEF Within
  <2> QED
    BY <1>2, <2>1 DEF Slotted, Within
<1>9. \A i \in 1 .. cursor[c] - 1 : Within(i, t) \/ Within(i, yielded[c])
  BY <1>2, <1>4, <1>6 DEF Slotted
<1>10. /\ \A k \in DOMAIN yielded[c] : item'[c][yielded[c][k]] = "ok"
       /\ \A k, l \in DOMAIN slots'[c] : slots'[c][k] = slots'[c][l] => k = l
       /\ \A k \in DOMAIN slots'[c] : slots'[c][k] < cursor'[c]
       /\ \A i \in 1 .. cursor'[c] - 1 : Within(i, slots'[c]) \/ Within(i, yielded[c])
       /\ \A k \in DOMAIN yielded[c] : ~ Within(yielded[c][k], slots'[c])
       /\ slots'[c] = <<>> => t = <<>> /\ cursor[c] = Size[c] + 1
  <2>1. CASE Dispatch(c) /\ slots'[c] = t \o <<cursor[c]>>
    <3>1. PICK i \in Items(c) : i = cursor[c]
      BY <1>2, <2>1, DispatchOne
    <3>2. item[c][i] = "todo" /\ cursor'[c] = i + 1 /\ i \in Nat
          /\ \A k \in Items(c) : k # i => item'[c][k] = item[c][k]
      <4>1. i \in Nat /\ cursor[c] >= i
        BY <3>1, Kinds DEF Items
      <4>2. item[c][i] = "todo"
        BY <1>2, <3>1, <4>1 DEF Listed
      <4>3. /\ cursor'[c] = cursor[c] + 1
            /\ \A k \in Items(c) : item'[c][k] = IF k = cursor[c] THEN "running" ELSE item[c][k]
        BY <1>2, <2>1, DispatchOne
      <4> QED
        BY <3>1, <4>1, <4>2, <4>3
    <3>3. \A k \in DOMAIN yielded[c] : item'[c][yielded[c][k]] = "ok"
      BY <1>2, <3>2, StillWell
    <3>4. slots'[c] = Append(t, i)
      BY <1>6, <2>1, <3>1
    <3>5. PICK ss : ss = Append(t, i)
      OBVIOUS
    <3>6. /\ ss # <<>> /\ Len(t) \in Nat
          /\ DOMAIN t = 1 .. Len(t) /\ DOMAIN ss = 1 .. Len(t) + 1
          /\ \A k \in 1 .. Len(t) : ss[k] = t[k]
          /\ ss[Len(t) + 1] = i
          /\ \A j : Within(j, ss) <=> Within(j, t) \/ j = i
      BY <1>6, <3>5, AppendFacts
    <3>7. \A k \in DOMAIN t : t[k] \in Nat /\ t[k] < i
      <4>1. \A k \in DOMAIN t : t[k] \in Items(c)
        BY <1>6, <3>6, ElementOfSeq
      <4> QED
        BY <1>8, <3>1, <4>1, Kinds DEF Items
    <3>8. \A k \in DOMAIN ss : k = Len(t) + 1 \/ k \in DOMAIN t
      BY <3>6
    <3>9. \A k, l \in DOMAIN ss : ss[k] = ss[l] => k = l
      <4> SUFFICES ASSUME NEW k \in DOMAIN ss, NEW l \in DOMAIN ss, ss[k] = ss[l] PROVE k = l
        OBVIOUS
      <4>1. (k = Len(t) + 1 \/ k \in DOMAIN t) /\ (l = Len(t) + 1 \/ l \in DOMAIN t)
        BY <3>8
      <4>2. \A m \in DOMAIN t : t[m] # i
        BY <3>2, <3>7
      <4> QED
        BY <1>6, <3>6, <4>1, <4>2
    <3>10. \A k \in DOMAIN ss : ss[k] < i + 1
      <4> SUFFICES ASSUME NEW k \in DOMAIN ss PROVE ss[k] < i + 1
        OBVIOUS
      <4>1. CASE k = Len(t) + 1
        BY <3>2, <3>6, <4>1
      <4>2. CASE k \in DOMAIN t
        <5>1. ss[k] = t[k]
          BY <3>6, <4>2
        <5> QED
          BY <3>2, <3>7, <4>2, <5>1
      <4> QED
        BY <3>8, <4>1, <4>2
    <3>11. \A j \in 1 .. i : Within(j, ss) \/ Within(j, yielded[c])
      <4> SUFFICES ASSUME NEW j \in 1 .. i PROVE Within(j, ss) \/ Within(j, yielded[c])
        OBVIOUS
      <4>1. j = i \/ j \in 1 .. cursor[c] - 1
        BY <3>1, <3>2
      <4> QED
        BY <1>9, <3>6, <4>1
    <3>12. \A k \in DOMAIN yielded[c] : ~ Within(yielded[c][k], ss)
      <4> SUFFICES ASSUME NEW k \in DOMAIN yielded[c] PROVE ~ Within(yielded[c][k], ss)
        OBVIOUS
      <4>1. yielded[c][k] # i
        BY <1>2, <3>2 DEF Handover
      <4> QED
        BY <1>7, <3>6, <4>1
    <3>13. slots'[c] = ss /\ cursor'[c] = i + 1 /\ cursor'[c] - 1 = i
      BY <3>2, <3>4, <3>5
    <3> QED
      BY <3>3, <3>6, <3>9, <3>10, <3>11, <3>12, <3>13
  <2>2. CASE ~ (cursor[c] <= Size[c]) /\ UNCHANGED <<item, cursor>> /\ slots'[c] = t
    <3>1. cursor[c] = Size[c] + 1
      BY <1>2, <2>2, Kinds DEF Listed
    <3> QED
      BY <1>2, <1>6, <1>7, <1>8, <1>9, <2>2, <3>1 DEF Handover
  <2> QED
    BY <1>1, <1>5, <2>1, <2>2
<1>11. CASE slots'[c] = <<>> /\ phase'[c] = "done" /\ UNCHANGED yielded
  <2>1. \A i \in 1 .. Size[c] : Within(i, yielded[c])
    BY <1>9, <1>10, <1>11, Kinds DEF Within
  <2>2. Len(yielded[c]) = Size[c]
    BY <1>2, <2>1, AllHandedOver, Kinds DEF Items, Handover
  <2>3. Handover(c)'
    BY <1>2, <1>10, <1>11 DEF Handover
  <2> QED
    BY <1>1, <1>11, <2>2, <2>3 DEF Yields, StreamYields
<1>12. CASE slots'[c] # <<>> /\ Generate(c)
  <2>1. \A k, l \in DOMAIN yielded[c] : yielded[c][k] = yielded[c][l] => k = l
    BY <1>2 DEF Handover
  <2> QED
    BY <1>1, <1>2, <1>10, <1>12, <2>1, StreamGenerates
<1> QED
  BY <1>1, <1>11, <1>12

LEMMA YieldsPullOrdered ==
  ASSUME Functions, NEW c \in Calls, Own(c), Yields(c), PullOrdered(c)
  PROVE  Yields(c)'
<1>1. /\ c \in Ordered /\ Generate(c) /\ UNCHANGED <<cursor, item, slots>>
  BY PullOrderedStep
<1>2. /\ Handover(c) /\ OrderedYields(c) /\ yielded[c] \in Seq(Items(c))
      /\ slots'[c] \in Seq(Items(c)) /\ item'[c] \in [Items(c) -> Fates]
  BY <1>1 DEF Yields, Own, Listed
<1>3. /\ \A k \in DOMAIN yielded[c] : yielded[c][k] = k
      /\ \A k \in DOMAIN yielded[c] : item'[c][yielded[c][k]] = "ok"
  BY <1>1, <1>2 DEF Handover, OrderedYields
<1> QED
  BY <1>1, <1>2, <1>3, OrderedGenerates

LEMMA YieldsEnd ==
  ASSUME Functions, NEW c \in Calls, Own(c), Yields(c), FinishOrdered(c) \/ Stop(c),
         phase[c] = "yielded" => c \in Streams \cup Ordered
  PROVE  Yields(c)'
<1>1. /\ UNCHANGED <<cursor, item, slots, yielded>>
      /\ \/ phase'[c] = "stopped"
         \/ phase'[c] = "done" /\ c \in Ordered /\ Len(yielded[c]) = Size[c] /\ c \notin Streams
  BY EndStep, Kinds
<1> QED
  BY <1>1 DEF Yields, Handover, StreamYields, OrderedYields, Slotted, Within

LEMMA YieldsNext ==
  ASSUME Functions, \A c \in Calls : Own(c), Handed, \A c \in Calls : Yields(c), [Next]_vars
  PROVE  \A c \in Calls : Yields(c)'
<1>1. ASSUME NEW c \in Calls, StepOf(c), Yields(c)'
      PROVE  \A k \in Calls : Yields(k)'
  BY <1>1, YieldsKept DEF StepOf, Others
<1>2. ASSUME NEW c \in Calls, c \in Pipes \cup FanOuts PROVE Yields(c)'
  BY <1>2, Kinds DEF Yields
<1>3. ASSUME NEW c \in Calls, NEW i \in Items(c), Settles(c, i)
      PROVE  StepOf(c) /\ Yields(c)'
  <2>1. PICK end \in {"ok", "failed"} : StageSettles(c, i, end) \/ ItemSettles(c, i, end)
    BY <1>3 DEF Settles
  <2>2. CASE StageSettles(c, i, end)
    BY <1>2, <2>2, StageSettlesStep DEF StageSettles
  <2>3. CASE ItemSettles(c, i, end)
    BY <2>3, ItemSettlesStep, YieldsSettle
  <2> QED
    BY <2>1, <2>2, <2>3
<1>4. ASSUME NEW c \in Calls, StartPipe(c) \/ NextPipe(c)
      PROVE  StepOf(c) /\ Yields(c)'
  BY <1>2, <1>4, NextStageStep DEF StartPipe, NextPipe
<1>5. ASSUME NEW c \in Calls, StartFanOut(c) \/ Answers(c) \/ NextRound(c)
      PROVE  StepOf(c) /\ Yields(c)'
  <2>1. c \in FanOuts
    BY <1>5 DEF StartFanOut, Answers, FanOutSettles, NextRound
  <2> QED
    BY <1>2, <1>5, <2>1, FanOutStep
<1>6. ASSUME NEW c \in Calls, StartGenerator(c) \/ Take(c) \/ PullStream(c) \/ PullOrdered(c)
      PROVE  StepOf(c) /\ Yields(c)'
  BY <1>6, StartGeneratorStep, TakeStep, PullStreamStep, PullOrderedStep,
     YieldsStart, YieldsTake, YieldsPull, YieldsPullOrdered
<1>7. ASSUME NEW c \in Calls, FinishOrdered(c) \/ Stop(c)
      PROVE  StepOf(c) /\ Yields(c)'
  BY <1>7, EndStep, YieldsEnd DEF Handed
<1>8. ASSUME UNCHANGED call PROVE \A c \in Calls : Yields(c)'
  BY <1>8, YieldsKept DEF call, Kept
<1> QED
  BY <1>1, <1>3, <1>4, <1>5, <1>6, <1>7, <1>8 DEF Next, GoesOn, Drain, vars

LEMMA YieldsInit == Init => \A c \in Calls : Yields(c)
<1> SUFFICES ASSUME Init, NEW c \in Calls PROVE Yields(c)
  OBVIOUS
<1>1. phase[c] \in {"absent", "off"} /\ yielded[c] = <<>>
  BY DEF Init
<1> QED
  BY <1>1 DEF Yields, Handover, StreamYields, OrderedYields

\* A generator hands over every item at most once, and only what ended well,
\* mapOrdered in input order; one that ends by itself has handed over all.
THEOREM YieldedOnce == Spec => []EachItemYieldedOnce
<1>1. PInv /\ (\A c \in Calls : Yields(c)) /\ [Next]_vars => (\A c \in Calls : Yields(c))'
  BY YieldsNext DEF PInv
<1>2. PInv /\ (\A c \in Calls : Yields(c)) => EachItemYieldedOnce
  <2> SUFFICES ASSUME PInv, \A c \in Calls : Yields(c), NEW c \in Streams \cup Ordered
               PROVE  /\ IsInjective(yielded[c])
                      /\ \A k \in 1 .. Len(yielded[c]) : item[c][yielded[c][k]] = "ok"
                      /\ c \in Ordered => yielded[c] = First(Len(yielded[c]))
                      /\ phase[c] = "done" /\ Width[c] > 0 => Len(yielded[c]) = Size[c]
    BY DEF EachItemYieldedOnce
  <2>1. /\ Handover(c) /\ yielded[c] \in Seq(Items(c))
        /\ c \in Streams => StreamYields(c)
        /\ c \in Ordered => OrderedYields(c)
    BY Kinds DEF PInv, Own, Yields
  <2>2. Len(yielded[c]) \in Nat /\ DOMAIN yielded[c] = 1 .. Len(yielded[c])
    BY <2>1, LenProperties
  <2>3. c \in Ordered => yielded[c] = First(Len(yielded[c]))
    <3>1. yielded[c] = [k \in 1 .. Len(yielded[c]) |-> yielded[c][k]]
      BY <2>1, SeqDef
    <3> QED
      BY <2>1, <2>2, <3>1 DEF First, OrderedYields
  <2>4. IsInjective(yielded[c])
    BY <2>1 DEF Handover, IsInjective
  <2> QED
    BY <2>1, <2>2, <2>3, <2>4 DEF Handover, StreamYields, OrderedYields
<1> QED
  BY <1>1, <1>2, YieldsInit, PoolInvariant, PTL DEF Spec

-----------------------------------------------------------------------------
(* The arguments of a fan-out keep the order of its items.                  *)

\* One item or more, in order and without a hole.
Consecutive(s) == s # <<>> /\ \A j \in 1 .. Len(s) : s[j] = s[1] + j - 1

LEMMA ConsecutiveEnds ==
  ASSUME NEW n \in Nat, NEW s \in Seq(0 .. n), Consecutive(s)
  PROVE  /\ Len(s) \in Nat /\ Len(s) > 0 /\ s[1] \in 0 .. n
         /\ Last(s) = s[1] + Len(s) - 1 /\ Last(s) \in 0 .. n
<1>1. Len(s) \in Nat /\ Len(s) > 0
  BY EmptySeq, LenProperties DEF Consecutive
<1>2. s[1] \in 0 .. n /\ s[Len(s)] \in 0 .. n
  BY <1>1, ElementOfSeq
<1>3. s[Len(s)] = s[1] + Len(s) - 1
  BY <1>1 DEF Consecutive
<1> QED
  BY <1>1, <1>2, <1>3 DEF Last

LEMMA Joins ==
  ASSUME NEW n \in Nat, NEW x \in Seq(0 .. n), NEW y \in Seq(0 .. n),
         Consecutive(x), Consecutive(y), y[1] = Last(x) + 1
  PROVE  Consecutive(x \o y) /\ (x \o y)[1] = x[1] /\ Last(x \o y) = Last(y)
<1> DEFINE z == x \o y
<1>1. /\ Len(x) \in Nat /\ Len(x) > 0 /\ x[1] \in 0 .. n /\ Last(x) = x[1] + Len(x) - 1
      /\ Len(y) \in Nat /\ Len(y) > 0 /\ y[1] \in 0 .. n /\ Last(y) = y[1] + Len(y) - 1
  BY ConsecutiveEnds
<1>2. z \in Seq(0 .. n) /\ Len(z) = Len(x) + Len(y)
  BY ConcatProperties
<1>3. \A j \in 1 .. Len(x) + Len(y) : z[j] = IF j <= Len(x) THEN x[j] ELSE y[j - Len(x)]
  BY ConcatProperties
<1> HIDE DEF z
<1>a. PICK f \in Nat : f = x[1]
  BY <1>1
<1>b. PICK p \in Nat : p = Len(x) /\ p > 0
  BY <1>1
<1>c. PICK q \in Nat : q = Len(y) /\ q > 0
  BY <1>1
<1>4. /\ f = x[1] /\ p = Len(x) /\ q = Len(y) /\ p > 0 /\ q > 0
      /\ y[1] = f + p /\ Last(y) = f + p + q - 1
  <2>1. Last(x) = f + p - 1
    BY <1>1, <1>a, <1>b
  <2>2. y[1] = f + p
    BY <2>1
  <2> QED
    BY <1>1, <1>a, <1>b, <1>c, <2>2
<1>5. ASSUME NEW j \in 1 .. p + q PROVE z[j] = f + j - 1
  <2>1. CASE j <= p
    BY <1>3, <1>4, <2>1 DEF Consecutive
  <2>2. CASE ~ (j <= p)
    <3>1. j - p \in 1 .. q
      BY <1>4, <2>2
    <3>2. y[j - p] = (f + p) + (j - p) - 1
      BY <1>4, <3>1 DEF Consecutive
    <3>3. z[j] = y[j - p]
      BY <1>3, <1>4, <2>2
    <3> QED
      BY <3>2, <3>3
  <2> QED
    BY <2>1, <2>2
<1>6. z[1] = f /\ Len(z) = p + q
  BY <1>2, <1>4, <1>5
<1>7. z # <<>>
  BY <1>4, <1>6
<1>8. Consecutive(z)
  BY <1>5, <1>6, <1>7 DEF Consecutive
<1>9. Last(z) = z[1] + Len(z) - 1
  BY <1>2, <1>8, ConsecutiveEnds
<1>10. z[1] = x[1] /\ Last(z) = Last(y)
  <2>1. z[1] + Len(z) - 1 = f + (p + q) - 1
    BY <1>6
  <2>2. f + (p + q) - 1 = f + p + q - 1
    OBVIOUS
  <2>3. Last(z) = Last(y)
    BY <1>4, <1>9, <2>1, <2>2
  <2> QED
    BY <1>4, <1>6, <2>3
<1> QED
  BY <1>8, <1>10 DEF z

\* InSequence part by part.
LEMMA PartsFollow ==
  ASSUME NEW n \in Nat, NEW ps \in PartsOf(n), ps # <<>>, NEW first, NEW last,
         InSequence(ps, first, last)
  PROVE  /\ Len(ps) \in Nat /\ Len(ps) > 0
         /\ \A k \in 1 .. Len(ps) : ps[k] \in Seq(0 .. n) /\ Consecutive(ps[k])
         /\ \A k \in 1 .. Len(ps) : ps[k][1] = IF k = 1 THEN first ELSE Last(ps[k - 1]) + 1
         /\ Last(ps[Len(ps)]) = last
<1>1. Len(ps) \in Nat /\ Len(ps) > 0
  BY EmptySeq, LenProperties DEF PartsOf
<1>2. \A k \in 1 .. Len(ps) : ps[k] \in Seq(0 .. n)
  BY ElementOfSeq DEF PartsOf
<1>3. Last(ps) = ps[Len(ps)]
  BY DEF Last
<1> QED
  BY <1>1, <1>2, <1>3 DEF InSequence, Consecutive

LEMMA FollowingParts ==
  ASSUME NEW ps, NEW m, Len(ps) = m, NEW first, NEW last,
         \A k \in 1 .. m : Consecutive(ps[k]),
         \A k \in 1 .. m : ps[k][1] = IF k = 1 THEN first ELSE Last(ps[k - 1]) + 1,
         Last(ps[m]) = last
  PROVE  InSequence(ps, first, last)
BY DEF InSequence, Consecutive, Last

LEMMA SinglesInSequence ==
  ASSUME NEW n \in Nat, n > 0
  PROVE  Singles(n) # <<>> /\ InSequence(Singles(n), 1, n)
<1> DEFINE ps == Singles(n)
<1>1. ps \in PartsOf(n) /\ Len(ps) = n /\ \A k \in 1 .. n : ps[k] = <<k>>
  BY SinglesTyped DEF Singles
<1>2. ps # <<>>
  BY <1>1
<1>3. \A k \in 1 .. n : Consecutive(<<k>>) /\ <<k>>[1] = k /\ Last(<<k>>) = k
  BY DEF Consecutive, Last
<1> HIDE DEF ps
<1>4. \A k \in 1 .. n : k # 1 => k - 1 \in 1 .. n /\ k = (k - 1) + 1
  OBVIOUS
<1>5. ASSUME NEW k \in 1 .. n
      PROVE  Consecutive(ps[k]) /\ ps[k][1] = IF k = 1 THEN 1 ELSE Last(ps[k - 1]) + 1
  <2>1. ps[k] = <<k>> /\ ps[k][1] = k /\ Consecutive(ps[k])
    BY <1>1, <1>3
  <2>2. k # 1 => ps[k - 1] = <<k - 1>> /\ Last(ps[k - 1]) = k - 1
    BY <1>1, <1>3, <1>4
  <2> QED
    BY <2>1, <2>2
<1>6. Last(ps[n]) = n
  BY <1>1, <1>3
<1>7. InSequence(ps, 1, n)
  BY <1>1, <1>5, <1>6, FollowingParts
<1> QED
  BY <1>2, <1>7 DEF ps

\* reduce starts with its initial value, item 0, before the items.
LEMMA SeededInSequence ==
  ASSUME NEW n \in Nat
  PROVE  /\ <<(<<0>>)>> \o Singles(n) # <<>>
         /\ InSequence(<<(<<0>>)>> \o Singles(n), 0, n)
<1> DEFINE ps == <<(<<0>>)>> \o Singles(n)
<1>1. /\ ps \in PartsOf(n) /\ Len(ps) = n + 1
      /\ \A k \in 1 .. n + 1 : ps[k] = <<k - 1>>
  <2>1. Singles(n) \in PartsOf(n) /\ Len(Singles(n)) = n /\ \A k \in 1 .. n : Singles(n)[k] = <<k>>
    BY SinglesTyped DEF Singles
  <2>2. <<(<<0>>)>> \in PartsOf(n) /\ Len(<<(<<0>>)>>) = 1 /\ <<(<<0>>)>>[1] = <<0>>
    BY DEF PartsOf
  <2>3. ps \in PartsOf(n) /\ Len(ps) = 1 + n
    BY <2>1, <2>2, ConcatProperties DEF PartsOf
  <2>6. 1 + n = n + 1
    OBVIOUS
  <2>4. \A k \in 1 .. 1 + n : ps[k] = IF k <= 1 THEN <<(<<0>>)>>[k] ELSE Singles(n)[k - 1]
    BY <2>1, <2>2, ConcatProperties DEF PartsOf
  <2>5. ASSUME NEW k \in 1 .. n + 1 PROVE ps[k] = <<k - 1>>
    <3>1. CASE k = 1
      BY <2>2, <2>4, <3>1
    <3>2. CASE k # 1
      <4>1. k - 1 \in 1 .. n
        BY <3>2
      <4> QED
        BY <2>1, <2>4, <3>2, <4>1
    <3> QED
      BY <3>1, <3>2
  <2> HIDE DEF ps
  <2> QED
    BY <2>3, <2>5, <2>6
<1>2. ps # <<>>
  BY <1>1
<1>3. \A i \in 0 .. n : Consecutive(<<i>>) /\ <<i>>[1] = i /\ Last(<<i>>) = i
  BY DEF Consecutive, Last
<1> HIDE DEF ps
<1>4. \A k \in 1 .. n + 1 : k - 1 \in 0 .. n /\ (k # 1 => k - 1 \in 1 .. n + 1 /\ (k - 1) - 1 \in 0 .. n)
  OBVIOUS
<1>5. ASSUME NEW k \in 1 .. n + 1
      PROVE  Consecutive(ps[k]) /\ ps[k][1] = IF k = 1 THEN 0 ELSE Last(ps[k - 1]) + 1
  <2>1. ps[k] = <<k - 1>> /\ ps[k][1] = k - 1 /\ Consecutive(ps[k])
    BY <1>1, <1>3, <1>4
  <2>2. k # 1 => ps[k - 1] = <<(k - 1) - 1>> /\ Last(ps[k - 1]) = (k - 1) - 1
    BY <1>1, <1>3, <1>4
  <2> QED
    BY <2>1, <2>2
<1>6. Last(ps[n + 1]) = n
  <2>1. ps[n + 1] = <<(n + 1) - 1>> /\ (n + 1) - 1 = n
    BY <1>1
  <2> QED
    BY <1>3, <2>1
<1>7. InSequence(ps, 0, n)
  BY <1>1, <1>5, <1>6, FollowingParts
<1> QED
  BY <1>2, <1>7 DEF ps

\* The quotient rounded up: as many batches of b as a items need.
LEMMA CeilDivIs ==
  ASSUME NEW a \in Nat, NEW b \in Nat, b > 0
  PROVE  CeilDiv(a, b) \in Nat /\ (CeilDiv(a, b) - 1) * b < a /\ a <= CeilDiv(a, b) * b
<1>1. a + b - 1 \in Nat
  OBVIOUS
<1>2. PICK q \in Nat : q = (a + b - 1) \div b
  BY <1>1
<1>3. PICK r \in 0 .. b - 1 : a + b - 1 = b * q + r
  BY <1>1, <1>2
<1>4. PICK p \in Nat : p = b * q
  OBVIOUS
<1>5. (q - 1) * b = p - b /\ q * b = p
  BY <1>4
<1>6. p - b < a /\ a <= p
  BY <1>3, <1>4
<1> QED
  BY <1>2, <1>5, <1>6 DEF CeilDiv

\* A factor keeps the order.
LEMMA TimesMonotone ==
  ASSUME NEW a \in Int, NEW b \in Int, NEW m \in Nat, a <= b
  PROVE  a * m <= b * m
OBVIOUS

LEMMA BatchesInSequence ==
  ASSUME NEW n \in Nat, n > 0, NEW k \in Nat
  PROVE  /\ Batches(n, k) # <<>> /\ InSequence(Batches(n, k), 1, n)
         /\ k > 0 => Len(Batches(n, k)) <= k
<1> DEFINE size == IF k = 0 THEN n ELSE CeilDiv(n, k)
           q == CeilDiv(n, size)
           ps == Batches(n, k)
<1>1. size \in Nat /\ size > 0
  BY CeilDivTyped
<1>2. q \in Nat /\ (q - 1) * size < n /\ n <= q * size /\ q > 0
  BY <1>1, CeilDivIs, CeilDivTyped
<1>4. k > 0 => n <= k * size
  BY CeilDivIs
<1> DEFINE batch(b) == SubSeq(First(n), (b - 1) * size + 1, Least(b * size, n))
<1>a. ps = [b \in 1 .. q |-> batch(b)]
  BY DEF Batches
<1> HIDE DEF size, q, ps
<1>3. Len(ps) = q /\ \A b \in 1 .. q : ps[b] = batch(b)
  <2> HIDE DEF batch
  <2> QED
    BY <1>2, <1>a
<1>5. ASSUME NEW b \in 1 .. q
      PROVE  /\ Consecutive(ps[b]) /\ ps[b][1] = (b - 1) * size + 1
             /\ Last(ps[b]) = Least(b * size, n)
             /\ b # q => Least(b * size, n) = b * size
  <2>1. PICK lo \in Nat : lo = (b - 1) * size
    BY <1>1
  <2>2. PICK hi \in Nat : hi = b * size
    BY <1>1
  <2>3. hi = lo + size
    BY <1>1, <2>1, <2>2
  <2>4. lo < n
    <3>1. b - 1 \in Int /\ q - 1 \in Int /\ b - 1 <= q - 1
      BY <1>2
    <3>2. (b - 1) * size <= (q - 1) * size
      BY <1>1, <3>1, TimesMonotone
    <3>3. (q - 1) * size \in Int
      BY <1>1, <1>2
    <3> QED
      BY <1>2, <2>1, <3>2, <3>3
  <2>5. b # q => hi < n
    <3> SUFFICES ASSUME b # q PROVE hi < n
      OBVIOUS
    <3>1. b \in Int /\ q - 1 \in Int /\ b <= q - 1
      BY <1>2
    <3>2. b * size <= (q - 1) * size
      BY <1>1, <3>1, TimesMonotone
    <3>3. (q - 1) * size \in Int
      BY <1>1, <1>2
    <3> QED
      BY <1>2, <2>2, <3>2, <3>3
  <2>6. PICK top \in 1 .. n : top = Least(hi, n) /\ lo < top
    BY <1>1, <2>3, <2>4 DEF Least
  <2>7. ps[b] = SubSeq(First(n), lo + 1, top)
    BY <1>3, <2>1, <2>2, <2>6
  <2>8. First(n) \in Seq(1 .. n) /\ Len(First(n)) = n /\ \A i \in 1 .. n : First(n)[i] = i
    BY FirstTyped DEF First
  <2>9. Len(ps[b]) = top - lo /\ \A j \in 1 .. top - lo : ps[b][j] = lo + j
    <3>1. lo + 1 \in 1 .. n /\ top \in 1 .. n /\ lo + 1 <= top
      BY <2>4, <2>6
    <3>2. /\ Len(SubSeq(First(n), lo + 1, top)) = top - (lo + 1) + 1
          /\ \A j \in 1 .. top - (lo + 1) + 1 :
               SubSeq(First(n), lo + 1, top)[j] = First(n)[(lo + 1) + j - 1]
      <4> DEFINE s == First(n)
      <4>1. s \in Seq(1 .. n) /\ lo + 1 \in 1 .. Len(s) + 1 /\ top \in 0 .. Len(s)
        BY <2>8, <3>1
      <4>2. \A i \in lo + 1 .. top : s[i] \in 1 .. n
        <5>1. \A i \in lo + 1 .. top : i \in 1 .. n
          BY <3>1
        <5> QED
          BY <2>8, <5>1
      <4> HIDE DEF s
      <4> QED
        BY <3>1, <4>1, <4>2, SubSeqProperties DEF s
    <3>3. top - (lo + 1) + 1 = top - lo
      OBVIOUS
    <3>4. ASSUME NEW j \in 1 .. top - lo PROVE ps[b][j] = lo + j
      <4>1. (lo + 1) + j - 1 \in 1 .. n /\ (lo + 1) + j - 1 = lo + j
        BY <2>6
      <4> QED
        BY <2>7, <2>8, <3>2, <3>3, <4>1
    <3> QED
      BY <2>7, <3>2, <3>3, <3>4
  <2>10. PICK len \in Nat : len = top - lo /\ len > 0
    BY <2>6
  <2>11. ps[b][1] = lo + 1 /\ ps[b][len] = top
    BY <2>9, <2>10
  <2>12. ps[b] # <<>>
    BY <2>9, <2>10
  <2>13. Consecutive(ps[b])
    BY <2>9, <2>10, <2>11, <2>12 DEF Consecutive
  <2>14. Last(ps[b]) = top
    BY <2>9, <2>10, <2>11 DEF Last
  <2>15. b # q => Least(hi, n) = hi
    BY <2>5 DEF Least
  <2> QED
    BY <2>1, <2>2, <2>6, <2>11, <2>13, <2>14, <2>15
<1>6. ASSUME NEW b \in 1 .. q
      PROVE  ps[b][1] = IF b = 1 THEN 1 ELSE Last(ps[b - 1]) + 1
  <2>1. CASE b = 1
    <3>1. (b - 1) * size + 1 = 1
      BY <1>1, <2>1
    <3> QED
      BY <1>5, <2>1, <3>1
  <2>2. CASE b # 1
    <3>1. b - 1 \in 1 .. q /\ b - 1 # q
      BY <1>2, <2>2
    <3> QED
      BY <1>5, <2>2, <3>1
  <2> QED
    BY <2>1, <2>2
<1>7. Last(ps[q]) = n
  <2>1. q \in 1 .. q /\ q * size \in Nat
    BY <1>1, <1>2
  <2>2. Least(q * size, n) = n
    BY <1>2, <2>1 DEF Least
  <2> QED
    BY <1>5, <2>1, <2>2
<1>8. InSequence(ps, 1, n)
  BY <1>3, <1>5, <1>6, <1>7, FollowingParts
<1>9. k > 0 => q <= k
  <2> SUFFICES ASSUME k > 0, k < q PROVE FALSE
    BY <1>2
  <2>1. k \in Int /\ q - 1 \in Int /\ k <= q - 1
    BY <1>2
  <2>2. k * size <= (q - 1) * size
    BY <1>1, <2>1, TimesMonotone
  <2>3. k * size \in Int /\ (q - 1) * size \in Int
    BY <1>1, <1>2
  <2> QED
    BY <1>2, <1>4, <2>2, <2>3
<1>10. ps # <<>>
  BY <1>2, <1>3
<1> QED
  BY <1>3, <1>8, <1>9, <1>10 DEF ps

LEMMA ReducedInSequence ==
  ASSUME NEW n \in Nat, NEW ps \in PartsOf(n), ps # <<>>, NEW first, NEW last,
         InSequence(ps, first, last)
  PROVE  Reduced(ps) # <<>> /\ InSequence(Reduced(ps), first, last)
<1>1. /\ Len(ps) \in Nat /\ Len(ps) > 0
      /\ \A k \in 1 .. Len(ps) : ps[k] \in Seq(0 .. n) /\ Consecutive(ps[k])
      /\ \A k \in 1 .. Len(ps) : ps[k][1] = IF k = 1 THEN first ELSE Last(ps[k - 1]) + 1
      /\ Last(ps[Len(ps)]) = last
  BY PartsFollow
<1>2. PICK m \in Nat : m = Len(ps) /\ m > 0
  BY <1>1
<1>3. PICK h \in Nat : h = CeilDiv(m, 2) /\ h > 0 /\ (m = 2 * h \/ m = 2 * h - 1)
  <2>1. m + 2 - 1 = m + 1 /\ m + 1 \in Nat
    BY <1>2
  <2>2. PICK h \in Nat : h = (m + 1) \div 2
    BY <1>2
  <2>3. h > 0 /\ (m = 2 * h \/ m = 2 * h - 1)
    BY <1>2, <2>2
  <2>4. CeilDiv(m, 2) = h
    BY <2>1, <2>2 DEF CeilDiv
  <2> QED
    BY <2>2, <2>3, <2>4
<1> DEFINE pair(k) == IF 2 * k <= m THEN ps[2 * k - 1] \o ps[2 * k] ELSE ps[2 * k - 1]
           rs == Reduced(ps)
<1>4. rs = [k \in 1 .. h |-> pair(k)]
  BY <1>2, <1>3 DEF Reduced
<1> HIDE DEF rs
<1>5. Len(rs) = h /\ \A k \in 1 .. h : rs[k] = pair(k)
  <2> HIDE DEF pair
  <2> QED
    BY <1>3, <1>4
<1>6. ASSUME NEW k \in 1 .. h
      PROVE  /\ Consecutive(rs[k]) /\ rs[k][1] = ps[2 * k - 1][1]
             /\ Last(rs[k]) = IF 2 * k <= m THEN Last(ps[2 * k]) ELSE Last(ps[m])
  <2>1. 2 * k - 1 \in 1 .. m /\ (2 * k <= m => 2 * k \in 1 .. m /\ 2 * k # 1)
        /\ (~ (2 * k <= m) => 2 * k - 1 = m) /\ 2 * k - 1 = (2 * k) - 1
    BY <1>3
  <2>2. rs[k] = pair(k)
    BY <1>5
  <2>3. CASE 2 * k <= m
    <3> DEFINE x == ps[2 * k - 1]
               y == ps[2 * k]
    <3>1. x \in Seq(0 .. n) /\ y \in Seq(0 .. n) /\ Consecutive(x) /\ Consecutive(y)
      BY <1>1, <1>2, <2>1, <2>3
    <3>2. y[1] = Last(x) + 1
      BY <1>1, <1>2, <2>1, <2>3
    <3>3. rs[k] = x \o y
      BY <2>2, <2>3
    <3> HIDE DEF x, y
    <3>a. Consecutive(x \o y) /\ (x \o y)[1] = x[1] /\ Last(x \o y) = Last(y)
      BY <3>1, <3>2, Joins
    <3>4. Consecutive(rs[k]) /\ rs[k][1] = x[1] /\ Last(rs[k]) = Last(y)
      BY <3>3, <3>a, Zenon
    <3> QED
      BY <2>3, <3>4 DEF x, y
  <2>4. CASE ~ (2 * k <= m)
    <3>1. rs[k] = ps[2 * k - 1] /\ 2 * k - 1 = m
      BY <2>1, <2>2, <2>4
    <3> QED
      BY <1>1, <1>2, <2>1, <2>4, <3>1
  <2> QED
    BY <2>3, <2>4
<1>7. ASSUME NEW k \in 1 .. h
      PROVE  rs[k][1] = IF k = 1 THEN first ELSE Last(rs[k - 1]) + 1
  <2>1. CASE k = 1
    <3>1. 2 * k - 1 = 1 /\ 1 \in 1 .. m
      BY <1>2, <2>1
    <3> QED
      BY <1>1, <1>2, <1>6, <2>1, <3>1
  <2>2. CASE k # 1
    <3>1. /\ k - 1 \in 1 .. h /\ 2 * (k - 1) <= m
          /\ 2 * k - 1 \in 1 .. m /\ 2 * k - 1 # 1 /\ (2 * k - 1) - 1 = 2 * (k - 1)
      BY <1>3, <2>2
    <3>2. Last(rs[k - 1]) = Last(ps[2 * (k - 1)])
      BY <1>6, <3>1
    <3>3. ps[2 * k - 1][1] = Last(ps[(2 * k - 1) - 1]) + 1
      BY <1>1, <1>2, <3>1
    <3>4. ps[(2 * k - 1) - 1] = ps[2 * (k - 1)]
      BY <3>1
    <3> QED
      BY <1>6, <2>2, <3>2, <3>3, <3>4
  <2> QED
    BY <2>1, <2>2
<1>8. Last(rs[h]) = last
  <2>1. h \in 1 .. h /\ (2 * h <= m => 2 * h = m)
    BY <1>3
  <2> QED
    BY <1>1, <1>2, <1>6, <2>1
<1>9. InSequence(rs, first, last)
  BY <1>5, <1>6, <1>7, <1>8, FollowingParts
<1>10. rs # <<>>
  BY <1>3, <1>5
<1> QED
  BY <1>9, <1>10 DEF rs

\* The item a fan-out's arguments start with.
FirstOf(c) == IF Kind[c] = "reduce" THEN 0 ELSE 1

LEMMA SplitInSequence ==
  ASSUME NEW c \in FanOuts, Size[c] # 0
  PROVE  /\ Split(c) # <<>> /\ InSequence(Split(c), FirstOf(c), Size[c])
         /\ Kind[c] \in {"scatter", "pmap"} /\ Width[c] > 0 => Len(Split(c)) <= Width[c]
<1>1. Size[c] \in Nat /\ Size[c] > 0 /\ Width[c] \in Nat
  BY Kinds
<1>2. CASE Kind[c] = "map"
  BY <1>1, <1>2, SinglesInSequence DEF Split, FirstOf
<1>3. CASE Kind[c] = "reduce"
  <2>1. Split(c) = <<(<<0>>)>> \o Singles(Size[c]) /\ FirstOf(c) = 0
    BY <1>3 DEF Split, FirstOf
  <2> QED
    BY <1>1, <1>3, <2>1, SeededInSequence
<1>4. CASE Kind[c] \notin {"map", "reduce"}
  <2>1. Split(c) = Batches(Size[c], Width[c]) /\ FirstOf(c) = 1
    BY <1>4, Zenon DEF Split, FirstOf
  <2> QED
    BY <1>1, <2>1, BatchesInSequence
<1> QED
  BY <1>2, <1>3, <1>4

\* PartsKeepOrder of one fan-out; until it starts it has no arguments, and
\* while it awaits or is about to dispatch it has some.
Orderly(c) ==
  c \in FanOuts =>
    /\ phase[c] \in {"absent", "off"} => parts[c] = <<>>
    /\ phase[c] \in {"await", "between"} => parts[c] # <<>>
    /\ parts[c] # <<>> => InSequence(parts[c], FirstOf(c), Size[c])
    /\ Kind[c] \in {"scatter", "pmap"} /\ Width[c] > 0 => Len(parts[c]) <= Width[c]
    /\ phase[c] = "done" /\ parts[c] # <<>> /\ Kind[c] = "reduce" => Len(parts[c]) = 1

LEMMA OrderlyKept ==
  ASSUME NEW c \in Calls, Kept(c), Orderly(c)
  PROVE  Orderly(c)'
BY DEF Kept, Orderly, InSequence, FirstOf

LEMMA SamePartsOrderly ==
  ASSUME NEW c \in FanOuts, Orderly(c), parts[c] # <<>>, parts'[c] = parts[c],
         phase'[c] \notin {"absent", "off"},
         phase'[c] = "done" /\ Kind[c] = "reduce" => Len(parts[c]) = 1
  PROVE  Orderly(c)'
<1>1. /\ InSequence(parts[c], FirstOf(c), Size[c])
      /\ Kind[c] \in {"scatter", "pmap"} /\ Width[c] > 0 => Len(parts[c]) <= Width[c]
  BY DEF Orderly
<1>2. /\ InSequence(parts'[c], FirstOf(c), Size[c]) /\ parts'[c] # <<>>
      /\ Kind[c] \in {"scatter", "pmap"} /\ Width[c] > 0 => Len(parts'[c]) <= Width[c]
      /\ phase'[c] = "done" /\ Kind[c] = "reduce" => Len(parts'[c]) = 1
  BY <1>1
<1> QED
  BY <1>2 DEF Orderly, FirstOf

LEMMA OrderlyFanOut ==
  ASSUME Functions, NEW c \in Calls, Own(c), Orderly(c),
         StartFanOut(c) \/ Answers(c) \/ NextRound(c)
  PROVE  Orderly(c)'
<1>1. c \in FanOuts /\ parts[c] \in PartsOf(Size[c]) /\ Size[c] \in Nat /\ Width[c] \in Nat
  BY Kinds DEF StartFanOut, Answers, FanOutSettles, NextRound, Own
<1>2. DOMAIN phase = Calls /\ DOMAIN parts = Calls
  BY DEF Functions
<1>3. CASE StartFanOut(c)
  <2>1. CASE Size[c] = 0
    <3>1. phase'[c] = "done" /\ parts'[c] = <<>>
      BY <1>1, <1>2, <1>3, <2>1 DEF StartFanOut, Becomes, Orderly
    <3> QED
      BY <1>1, <3>1 DEF Orderly
  <2>2. CASE Size[c] # 0
    <3>1. phase'[c] = "await" /\ parts'[c] = Split(c)
      BY <1>1, <1>2, <1>3, <2>2 DEF StartFanOut, Becomes
    <3> QED
      BY <1>1, <2>2, <3>1, SplitInSequence DEF Orderly, FirstOf
  <2> QED
    BY <2>1, <2>2
<1>4. CASE NextRound(c)
  <2>1. parts'[c] = parts[c] /\ phase[c] = "between" /\ parts[c] # <<>>
    BY <1>1, <1>4 DEF NextRound, Orderly
  <2>2. Len(parts[c]) \in Nat /\ Len(parts[c]) > 0
    BY <1>1, <2>1, EmptySeq, LenProperties DEF PartsOf
  <2>3. phase'[c] = "await" \/ (phase'[c] = "done" /\ Len(parts[c]) = 1)
    <3>1. CASE Len(parts[c]) > 1
      BY <1>2, <1>4, <3>1 DEF NextRound, Becomes
    <3>2. CASE ~ (Len(parts[c]) > 1)
      <4>1. phase'[c] = "done"
        BY <1>2, <1>4, <3>2 DEF NextRound, Becomes
      <4>2. Len(parts[c]) = 1
        <5> DEFINE n == Len(parts[c])
        <5>1. n \in Nat /\ n > 0 /\ ~ (n > 1)
          BY <2>2, <3>2
        <5> HIDE DEF n
        <5>2. n = 1
          BY <5>1
        <5> QED
          BY <5>2 DEF n
      <4> QED
        BY <4>1, <4>2
    <3> QED
      BY <3>1, <3>2
  <2> QED
    BY <1>1, <2>1, <2>3, SamePartsOrderly
<1>5. CASE Answers(c)
  <2>1. PICK end \in {"ok", "failed"} : FanOutSettles(c, end)
    BY <1>5 DEF Answers
  <2>2. phase[c] = "await" /\ parts[c] # <<>> /\ InSequence(parts[c], FirstOf(c), Size[c])
    BY <1>1, <2>1 DEF FanOutSettles, Orderly
  <2>3. CASE end = "ok" /\ Kind[c] = "reduce"
    <3>1. phase'[c] = "between" /\ parts'[c] = Reduced(parts[c])
      BY <1>2, <2>1, <2>3 DEF FanOutSettles, Becomes
    <3>2. Reduced(parts[c]) # <<>> /\ InSequence(Reduced(parts[c]), FirstOf(c), Size[c])
      BY <1>1, <2>2, ReducedInSequence
    <3> QED
      BY <2>3, <3>1, <3>2 DEF Orderly, FirstOf
  <2>4. CASE ~ (end = "ok" /\ Kind[c] = "reduce")
    <3>1. /\ parts'[c] = parts[c] /\ phase'[c] \in {"done", "failed"}
          /\ phase'[c] = "done" => Kind[c] # "reduce"
      BY <1>2, <2>1, <2>4 DEF FanOutSettles, Becomes
    <3> QED
      BY <1>1, <2>2, <3>1, SamePartsOrderly
  <2> QED
    BY <2>3, <2>4
<1> QED
  BY <1>3, <1>4, <1>5

LEMMA OrderlyNext ==
  ASSUME Functions, \A c \in Calls : Own(c), Handed, \A c \in Calls : Orderly(c), [Next]_vars
  PROVE  \A c \in Calls : Orderly(c)'
<1>1. ASSUME NEW c \in Calls, StepOf(c), Orderly(c)'
      PROVE  \A k \in Calls : Orderly(k)'
  BY <1>1, OrderlyKept DEF StepOf, Others
<1>2. ASSUME NEW c \in Calls, c \notin FanOuts PROVE Orderly(c)'
  BY <1>2 DEF Orderly
<1>3. ASSUME NEW c \in Calls, NEW i \in Items(c), Settles(c, i)
      PROVE  StepOf(c) /\ Orderly(c)'
  <2>1. c \notin FanOuts
    BY <1>3, Kinds DEF Settles, StageSettles, ItemSettles
  <2> QED
    BY <1>2, <1>3, <2>1, StageSettlesStep, ItemSettlesStep DEF Settles
<1>4. ASSUME NEW c \in Calls, StartPipe(c) \/ NextPipe(c)
      PROVE  StepOf(c) /\ Orderly(c)'
  BY <1>2, <1>4, NextStageStep, Kinds DEF StartPipe, NextPipe
<1>5. ASSUME NEW c \in Calls, StartFanOut(c) \/ Answers(c) \/ NextRound(c)
      PROVE  StepOf(c) /\ Orderly(c)'
  BY <1>5, FanOutStep, OrderlyFanOut
<1>6. ASSUME NEW c \in Calls, StartGenerator(c) \/ Take(c) \/ PullStream(c) \/ PullOrdered(c)
      PROVE  StepOf(c) /\ Orderly(c)'
  <2>1. c \notin FanOuts
    <3>1. Take(c) => c \in Ordered
      BY DEF Take, Own
    <3> QED
      BY <1>6, <3>1, Kinds DEF StartGenerator, PullStream, PullOrdered
  <2> QED
    BY <1>2, <1>6, <2>1, StartGeneratorStep, TakeStep, PullStreamStep, PullOrderedStep
<1>7. ASSUME NEW c \in Calls, FinishOrdered(c) \/ Stop(c)
      PROVE  StepOf(c) /\ Orderly(c)'
  <2>1. StepOf(c)
    BY <1>7, EndStep DEF Handed
  <2>2. c \notin FanOuts
    BY <1>7, Kinds DEF FinishOrdered, Stop, Handed
  <2> QED
    BY <1>2, <2>1, <2>2
<1>8. ASSUME UNCHANGED call PROVE \A c \in Calls : Orderly(c)'
  BY <1>8, OrderlyKept DEF call, Kept
<1> QED
  BY <1>1, <1>3, <1>4, <1>5, <1>6, <1>7, <1>8 DEF Next, GoesOn, Drain, vars

\* Whatever the number of items and chunks: through the batches of scatter
\* and pmap and every round of reduce the items keep their order, none is
\* lost and none is used twice; and what reduce returns is made of all.
THEOREM OrderKept == Spec => []PartsKeepOrder
<1>1. PInv /\ (\A c \in Calls : Orderly(c)) /\ [Next]_vars => (\A c \in Calls : Orderly(c))'
  BY OrderlyNext DEF PInv
<1>2. Init => \A c \in Calls : Orderly(c)
  <2> SUFFICES ASSUME Init, NEW c \in Calls, c \in FanOuts PROVE Orderly(c)
    BY DEF Orderly
  <2>1. phase[c] \in {"absent", "off"} /\ parts[c] = <<>> /\ Len(parts[c]) = 0
    BY DEF Init
  <2> QED
    BY <2>1, Kinds DEF Orderly
<1>3. (\A c \in Calls : Orderly(c)) => PartsKeepOrder
  BY Kinds DEF Orderly, PartsKeepOrder, FirstOf
<1> QED
  BY <1>1, <1>2, <1>3, PoolInvariant, PTL DEF Spec
=============================================================================
