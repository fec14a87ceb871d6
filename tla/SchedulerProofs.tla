-------------------------- MODULE SchedulerProofs --------------------------
(***************************************************************************)
(* What holds of the scheduler for every set of jobs and tenants and every *)
(* configuration: the shape of its state and its limits, that its table    *)
(* implements JobLifecycle, and that memory forgets no queued job.         *)
(*                                                                         *)
(* First the ready set: every method of the dispatcher that changes it     *)
(* keeps #ready and #tenantOrder in agreement, that is, makes a            *)
(* well-formed queue from a well-formed one.  That part uses only facts    *)
(* about sequences and finite sets.                                        *)
(***************************************************************************)
EXTENDS SchedulerProps, SequenceTheorems, FiniteSetTheorems, WellFoundedInduction,
        TLAPS

GoodQueue(q) == q \in Queue /\ WellFormed(q)

-----------------------------------------------------------------------------
(* Sequences.                                                               *)

\* Array.splice(i, 1): what is left of s without its i-th element.
LEMMA RemoveAtFacts ==
  ASSUME NEW S, NEW s \in Seq(S), NEW i \in 1 .. Len(s)
  PROVE  /\ RemoveAt(s, i) \in Seq(S)
         /\ Len(RemoveAt(s, i)) = Len(s) - 1
         /\ \A k \in 1 .. (Len(s) - 1) :
              RemoveAt(s, i)[k] = IF k < i THEN s[k] ELSE s[k + 1]
<1> DEFINE a == SubSeq(s, 1, i - 1)
           b == SubSeq(s, i + 1, Len(s))
<1>1. Len(s) \in Nat
  BY LenProperties
<1>2. /\ a \in Seq(S)
      /\ Len(a) = i - 1
      /\ \A k \in 1 .. (i - 1) : a[k] = s[k]
  BY <1>1, SubSeqProperties, ElementOfSeq
<1>3. /\ b \in Seq(S)
      /\ Len(b) = Len(s) - i
      /\ \A k \in 1 .. (Len(s) - i) : b[k] = s[k + i]
  <2>1. \A k \in (i + 1) .. Len(s) : s[k] \in S
    BY <1>1, ElementOfSeq
  <2>2. /\ b \in Seq(S)
        /\ Len(b) = IF i + 1 <= Len(s) THEN Len(s) - (i + 1) + 1 ELSE 0
        /\ \A k \in 1 .. (Len(s) - (i + 1) + 1) : b[k] = s[(i + 1) + k - 1]
    BY <1>1, <2>1, SubSeqProperties
  <2> QED
    BY <1>1, <2>2
<1>4. /\ a \o b \in Seq(S)
      /\ Len(a \o b) = Len(a) + Len(b)
      /\ \A k \in 1 .. Len(a) + Len(b) :
           (a \o b)[k] = IF k <= Len(a) THEN a[k] ELSE b[k - Len(a)]
  BY <1>2, <1>3, ConcatProperties
<1>5. \A k \in 1 .. (Len(s) - 1) :
        (a \o b)[k] = IF k < i THEN s[k] ELSE s[k + 1]
  <2> HIDE DEF a, b
  <2> TAKE k \in 1 .. (Len(s) - 1)
  <2>1. CASE k < i
    BY <1>1, <1>2, <1>3, <1>4, <2>1
  <2>2. CASE ~(k < i)
    <3>1. b[k - (i - 1)] = s[(k - (i - 1)) + i]
      BY <1>1, <1>3, <2>2
    <3> QED
      BY <1>1, <1>2, <1>3, <1>4, <2>2, <3>1
  <2> QED
    BY <2>1, <2>2
<1>6. RemoveAt(s, i) = a \o b
  BY DEF RemoveAt
<1> HIDE DEF a, b
<1>7. Len(a \o b) = Len(s) - 1
  BY <1>1, <1>2, <1>3, <1>4
<1> QED
  BY <1>4, <1>5, <1>6, <1>7

\* Array.indexOf of an element that is present finds a place of it.
LEMMA IndexOfFacts ==
  ASSUME NEW S, NEW s \in Seq(S), NEW x, \E i \in DOMAIN s : s[i] = x
  PROVE  IndexOf(s, x) \in 1 .. Len(s) /\ s[IndexOf(s, x)] = x
<1> DEFINE Places == {i \in DOMAIN s : s[i] = x}
<1>1. DOMAIN s = 1 .. Len(s) /\ Len(s) \in Nat
  BY LenProperties
<1>2. Places \subseteq Nat /\ Places # {}
  BY <1>1
<1>3. PICK i \in Places : \A k \in Places : <<k, i>> \notin OpToRel(<, Nat)
  BY <1>2, WFMin, NatLessThanWellFounded, Zenon
<1>4. i \in Nat /\ \A k \in Places : k \in Nat /\ ~ (k < i)
  BY <1>2, <1>3, Zenon DEF OpToRel
<1>5. \A k \in Places : i <= k
  BY <1>4
<1>6. \E n \in DOMAIN s : s[n] = x /\ \A k \in DOMAIN s : s[k] = x => n <= k
  BY <1>3, <1>5
<1> QED
  BY <1>1, <1>6 DEF IndexOf

\* The sequences a rebuild pushes: every element of a finite set, once each.
LEMMA SetToSeqsFacts ==
  ASSUME NEW S, IsFiniteSet(S), NEW s \in SetToSeqs(S)
  PROVE  /\ s \in Seq(S)
         /\ \A i, k \in 1 .. Len(s) : s[i] = s[k] => i = k
         /\ \A x \in S : \E i \in 1 .. Len(s) : s[i] = x
<1> DEFINE n == Cardinality(S)
<1>1. n \in Nat
  BY FS_CardinalityType
<1>2. s \in [1 .. n -> S] /\ \A i, k \in 1 .. n : i # k => s[i] # s[k]
  BY DEF SetToSeqs
<1>3. s \in Seq(S) /\ Len(s) = n
  BY <1>1, <1>2
<1>4. s \in Injection(1 .. n, S)
  BY <1>2 DEF Injection, IsInjective
<1>5. IsFiniteSet(1 .. n) /\ Cardinality(1 .. n) = n
  BY <1>1, FS_Interval
<1>6. s \in Surjection(1 .. n, S)
  BY <1>4, <1>5, FS_Injection
<1> QED
  BY <1>2, <1>3, <1>6 DEF Surjection

-----------------------------------------------------------------------------
(* Sequences that list a set: all its elements, each once.                  *)

Lists(s, R) ==
  /\ s \in Seq(R)
  /\ \A i, k \in 1 .. Len(s) : s[i] = s[k] => i = k
  /\ \A x \in R : \E i \in 1 .. Len(s) : s[i] = x

\* s holds x somewhere.
Has(s, x) == \E i \in DOMAIN s : s[i] = x

LEMMA ConcatHas ==
  ASSUME NEW S, NEW s \in Seq(S), NEW t \in Seq(S), NEW x
  PROVE  Has(s \o t, x) <=> Has(s, x) \/ Has(t, x)
<1>1. /\ Len(s) \in Nat /\ Len(t) \in Nat
      /\ DOMAIN s = 1 .. Len(s) /\ DOMAIN t = 1 .. Len(t)
  BY LenProperties
<1>2. /\ s \o t \in Seq(S)
      /\ Len(s \o t) = Len(s) + Len(t)
      /\ \A i \in 1 .. (Len(s) + Len(t)) :
           (s \o t)[i] = IF i <= Len(s) THEN s[i] ELSE t[i - Len(s)]
  BY ConcatProperties
<1>3. DOMAIN (s \o t) = 1 .. (Len(s) + Len(t))
  BY <1>2, LenProperties
<1>4. ASSUME NEW i \in 1 .. Len(s) PROVE i \in DOMAIN (s \o t) /\ (s \o t)[i] = s[i]
  BY <1>1, <1>2, <1>3
<1>5. ASSUME NEW i \in 1 .. Len(t)
      PROVE  Len(s) + i \in DOMAIN (s \o t) /\ (s \o t)[Len(s) + i] = t[i]
  <2>1. /\ Len(s) + i \in 1 .. (Len(s) + Len(t))
        /\ ~ (Len(s) + i <= Len(s))
        /\ (Len(s) + i) - Len(s) = i
    BY <1>1
  <2> QED
    BY <1>2, <1>3, <2>1
<1>6. ASSUME NEW i \in DOMAIN (s \o t)
      PROVE  \/ i \in 1 .. Len(s) /\ (s \o t)[i] = s[i]
             \/ i - Len(s) \in 1 .. Len(t) /\ (s \o t)[i] = t[i - Len(s)]
  BY <1>1, <1>2, <1>3
<1> QED
  BY <1>1, <1>4, <1>5, <1>6 DEF Has

\* The elements of s from place m to place n.
Between(s, m, n) == {s[k] : k \in m .. n}

LEMMA ListsConcat ==
  ASSUME NEW A, NEW B, NEW s, NEW t, Lists(s, A), Lists(t, B), A \cap B = {}
  PROVE  Lists(s \o t, A \cup B)
<1>1. s \in Seq(A \cup B) /\ t \in Seq(A \cup B)
  BY SeqMonotonic DEF Lists
<1>2. Len(s) \in Nat /\ Len(t) \in Nat
  BY <1>1, LenProperties
<1>3. /\ s \o t \in Seq(A \cup B)
      /\ Len(s \o t) = Len(s) + Len(t)
      /\ \A i \in 1 .. (Len(s) + Len(t)) :
           (s \o t)[i] = IF i <= Len(s) THEN s[i] ELSE t[i - Len(s)]
  BY <1>1, ConcatProperties
<1>4. /\ \A i \in 1 .. Len(s) : s[i] \in A
      /\ \A i \in 1 .. Len(t) : t[i] \in B
  BY ElementOfSeq DEF Lists
<1>5. ASSUME NEW i \in 1 .. Len(s \o t), NEW k \in 1 .. Len(s \o t),
             (s \o t)[i] = (s \o t)[k]
      PROVE  i = k
  <2>1. CASE i <= Len(s) /\ k <= Len(s)
    BY <1>2, <1>3, <1>5, <2>1 DEF Lists
  <2>2. CASE i > Len(s) /\ k > Len(s)
    <3>1. i - Len(s) \in 1 .. Len(t) /\ k - Len(s) \in 1 .. Len(t)
      BY <1>2, <1>3, <2>2
    <3>2. t[i - Len(s)] = t[k - Len(s)]
      BY <1>2, <1>3, <1>5, <2>2
    <3>3. i - Len(s) = k - Len(s)
      BY <3>1, <3>2 DEF Lists
    <3>4. i \in Nat /\ k \in Nat
      BY <1>2, <1>3
    <3> QED
      BY <1>2, <3>3, <3>4
  <2>3. CASE i <= Len(s) /\ k > Len(s)
    <3>1. s[i] = t[k - Len(s)] /\ s[i] \in A /\ t[k - Len(s)] \in B
      BY <1>2, <1>3, <1>4, <1>5, <2>3
    <3> QED
      BY <3>1
  <2>4. CASE i > Len(s) /\ k <= Len(s)
    <3>1. s[k] = t[i - Len(s)] /\ s[k] \in A /\ t[i - Len(s)] \in B
      BY <1>2, <1>3, <1>4, <1>5, <2>4
    <3> QED
      BY <3>1
  <2> QED
    BY <1>2, <1>3, <2>1, <2>2, <2>3, <2>4
<1>6. ASSUME NEW x \in A \cup B
      PROVE  \E i \in 1 .. Len(s \o t) : (s \o t)[i] = x
  <2>1. CASE x \in A
    <3>1. PICK i \in 1 .. Len(s) : s[i] = x
      BY <2>1 DEF Lists
    <3> QED
      BY <1>2, <1>3, <3>1
  <2>2. CASE x \in B
    <3>1. PICK i \in 1 .. Len(t) : t[i] = x
      BY <2>2 DEF Lists
    <3>2. Len(s) + i \in 1 .. Len(s \o t) /\ (s \o t)[Len(s) + i] = t[i]
      BY <1>2, <1>3
    <3> QED
      BY <3>1, <3>2
  <2> QED
    BY <2>1, <2>2
<1> QED
  BY <1>3, <1>5, <1>6 DEF Lists

LEMMA ListsOne == ASSUME NEW x PROVE Lists(<<x>>, {x})
BY DEF Lists

LEMMA ListsSubSeq ==
  ASSUME NEW R, NEW s, Lists(s, R), NEW m \in Int, NEW n \in Int,
         m >= 1, n <= Len(s)
  PROVE  Lists(SubSeq(s, m, n), Between(s, m, n))
<1> DEFINE p == SubSeq(s, m, n)
<1>1. Len(s) \in Nat
  BY LenProperties DEF Lists
<1>2. \A i \in m .. n : s[i] \in Between(s, m, n)
  BY DEF Between
<1>3. /\ p \in Seq(Between(s, m, n))
      /\ Len(p) = IF m <= n THEN n - m + 1 ELSE 0
      /\ \A i \in 1 .. (n - m + 1) : p[i] = s[m + i - 1]
  BY <1>2, SubSeqProperties
<1> HIDE DEF p
<1>4. ASSUME NEW i \in 1 .. Len(p), NEW k \in 1 .. Len(p), p[i] = p[k]
      PROVE  i = k
  <2>1. m + i - 1 \in 1 .. Len(s) /\ m + k - 1 \in 1 .. Len(s)
    BY <1>1, <1>3
  <2>2. s[m + i - 1] = s[m + k - 1]
    BY <1>3, <1>4
  <2>3. m + i - 1 = m + k - 1
    BY <2>1, <2>2 DEF Lists
  <2> QED
    BY <1>3, <2>3
<1>5. ASSUME NEW x \in Between(s, m, n)
      PROVE  \E i \in 1 .. Len(p) : p[i] = x
  <2>1. PICK k \in m .. n : x = s[k]
    BY DEF Between
  <2>2. k - m + 1 \in 1 .. Len(p) /\ p[k - m + 1] = s[k]
    BY <1>3
  <2> QED
    BY <2>1, <2>2
<1>6. Lists(p, Between(s, m, n))
  BY <1>3, <1>4, <1>5 DEF Lists
<1> QED
  BY <1>6 DEF p

\* The places before i, the place i and those after i split the set listed.
LEMMA ListsSplit ==
  ASSUME NEW R, NEW s, Lists(s, R), NEW i \in 1 .. Len(s)
  PROVE  /\ Between(s, 1, i - 1) \cap Between(s, i + 1, Len(s)) = {}
         /\ s[i] \notin Between(s, 1, i - 1) \cup Between(s, i + 1, Len(s))
         /\ Between(s, 1, i - 1) \cup Between(s, i + 1, Len(s)) = R \ {s[i]}
         /\ Between(s, 1, i) = Between(s, 1, i - 1) \cup {s[i]}
         /\ s[i] \in R
<1>1. Len(s) \in Nat /\ \A k \in 1 .. Len(s) : s[k] \in R
  BY LenProperties, ElementOfSeq DEF Lists
<1>2. \A k, n \in 1 .. Len(s) : s[k] = s[n] => k = n
  BY DEF Lists
<1>3. \A x \in R : \E k \in 1 .. Len(s) : s[k] = x
  BY DEF Lists
<1>4. Between(s, 1, i - 1) \cap Between(s, i + 1, Len(s)) = {}
  BY <1>1, <1>2 DEF Between
<1>5. s[i] \notin Between(s, 1, i - 1) \cup Between(s, i + 1, Len(s))
  BY <1>1, <1>2 DEF Between
<1>6. Between(s, 1, i - 1) \cup Between(s, i + 1, Len(s)) \subseteq R
  BY <1>1 DEF Between
<1>7. ASSUME NEW x \in R, x # s[i]
      PROVE  x \in Between(s, 1, i - 1) \cup Between(s, i + 1, Len(s))
  <2>1. PICK k \in 1 .. Len(s) : s[k] = x
    BY <1>3
  <2>2. k \in 1 .. (i - 1) \/ k \in (i + 1) .. Len(s)
    BY <1>1, <1>7, <2>1
  <2> QED
    BY <2>1, <2>2 DEF Between
<1>8. Between(s, 1, i) = Between(s, 1, i - 1) \cup {s[i]}
  BY <1>1 DEF Between
<1> QED
  BY <1>1, <1>4, <1>5, <1>6, <1>7, <1>8

-----------------------------------------------------------------------------
(* The operations.                                                          *)

\* The tenants that have a job ready.
Serving(q) == {t \in Tenants : q.ready[t] # <<>>}

\* #tenantOrder lists the keys of #ready.
LEMMA GoodQueueLists ==
  ASSUME NEW q
  PROVE  GoodQueue(q) <=> /\ q = [ready |-> q.ready, order |-> q.order]
                          /\ q.ready \in [Tenants -> Seq(Jobs)]
                          /\ Lists(q.order, Serving(q))
<1>1. ASSUME GoodQueue(q)
      PROVE  /\ q = [ready |-> q.ready, order |-> q.order]
             /\ q.ready \in [Tenants -> Seq(Jobs)]
             /\ Lists(q.order, Serving(q))
  <2>1. /\ q = [ready |-> q.ready, order |-> q.order]
        /\ q.ready \in [Tenants -> Seq(Jobs)]
        /\ q.order \in Seq(Tenants)
    BY <1>1 DEF GoodQueue, Queue
  <2>2. /\ DOMAIN q.order = 1 .. Len(q.order)
        /\ Len(q.order) \in Nat
        /\ q.order \in [1 .. Len(q.order) -> Tenants]
    BY <2>1, LenProperties
  <2>3. /\ \A i, k \in 1 .. Len(q.order) : q.order[i] = q.order[k] => i = k
        /\ \A t \in Tenants : q.ready[t] # <<>>
                                <=> \E i \in 1 .. Len(q.order) : q.order[i] = t
    BY <1>1, <2>2 DEF GoodQueue, WellFormed
  <2>4. q.order \in [1 .. Len(q.order) -> Serving(q)]
    BY <2>2, <2>3 DEF Serving
  <2>5. q.order \in Seq(Serving(q))
    BY <2>2, <2>4
  <2> QED
    BY <2>1, <2>3, <2>5 DEF Lists, Serving
<1>2. ASSUME q = [ready |-> q.ready, order |-> q.order],
             q.ready \in [Tenants -> Seq(Jobs)],
             Lists(q.order, Serving(q))
      PROVE  GoodQueue(q)
  <2>1. Serving(q) \subseteq Tenants
    BY DEF Serving
  <2>2. /\ q.order \in Seq(Tenants)
        /\ DOMAIN q.order = 1 .. Len(q.order)
        /\ \A i \in 1 .. Len(q.order) : q.order[i] \in Serving(q)
    BY <1>2, <2>1, SeqMonotonic, LenProperties, ElementOfSeq DEF Lists
  <2>3. q \in Queue
    BY <1>2, <2>2 DEF Queue
  <2>4. WellFormed(q)
    BY <1>2, <2>2 DEF Lists, Serving, WellFormed
  <2> QED
    BY <2>3, <2>4 DEF GoodQueue
<1> QED
  BY <1>1, <1>2

LEMMA GoodQueueOrder ==
  ASSUME NEW q, GoodQueue(q)
  PROVE  /\ q.order \in Seq(Tenants)
         /\ Len(q.order) \in Nat
         /\ DOMAIN q.order = 1 .. Len(q.order)
         /\ \A i \in 1 .. Len(q.order) :
              q.order[i] \in Tenants /\ q.ready[q.order[i]] # <<>>
<1>1. q.order \in Seq(Tenants) /\ q.order \in Seq(Serving(q))
  BY GoodQueueLists DEF GoodQueue, Queue, Lists
<1> QED
  BY <1>1, LenProperties, ElementOfSeq DEF Serving

LEMMA EmptyQueueGood == GoodQueue(EmptyQueue)
BY EmptySeq DEF GoodQueue, Queue, WellFormed, EmptyQueue

\* #enqueueReady (dispatcher.ts 291-299): a tenant whose first job arrives is
\* put last in the order.
LEMMA EnqueueReadyGood ==
  ASSUME NEW q, GoodQueue(q), NEW j \in Jobs
  PROVE  GoodQueue(EnqueueReady(q, j))
<1> DEFINE t == TenantOf[j]
           p == EnqueueReady(q, j)
<1>1. /\ q.ready \in [Tenants -> Seq(Jobs)]
      /\ Lists(q.order, Serving(q))
      /\ t \in Tenants
  BY GoodQueueLists, JobAssumption
<1>2. p = [ready |-> [q.ready EXCEPT ![t] = Append(@, j)],
           order |-> IF q.ready[t] = <<>> THEN Append(q.order, t) ELSE q.order]
  BY DEF EnqueueReady
<1>3. /\ p = [ready |-> p.ready, order |-> p.order]
      /\ p.ready \in [Tenants -> Seq(Jobs)]
      /\ p.ready[t] # <<>>
      /\ \A u \in Tenants : u # t => p.ready[u] = q.ready[u]
  BY <1>1, <1>2, AppendProperties
<1>4. Serving(p) = Serving(q) \cup {t}
  BY <1>1, <1>3 DEF Serving
<1>5. Lists(p.order, Serving(p))
  <2>1. CASE q.ready[t] = <<>>
    <3>1. Serving(q) \cap {t} = {}
      BY <2>1 DEF Serving
    <3>2. Lists(q.order \o <<t>>, Serving(q) \cup {t})
      BY <1>1, <3>1, ListsOne, ListsConcat
    <3>3. q.order \in Seq(Tenants)
      BY GoodQueueOrder
    <3>4. Append(q.order, t) = q.order \o <<t>>
      BY <1>1, <3>3, AppendIsConcat
    <3>5. p.order = q.order \o <<t>>
      BY <1>2, <2>1, <3>4
    <3> QED
      BY <1>4, <3>2, <3>5
  <2>2. CASE q.ready[t] # <<>>
    <3>1. p.order = q.order
      BY <1>2, <2>2
    <3>2. Serving(p) = Serving(q)
      BY <1>1, <1>4, <2>2 DEF Serving
    <3> QED
      BY <1>1, <3>1, <3>2
  <2> QED
    BY <2>1, <2>2
<1> HIDE DEF p
<1> QED
  BY <1>3, <1>5, GoodQueueLists DEF p

\* The splice that takes a tenant without jobs out of the order.
LEMMA RemoveFromOrder ==
  ASSUME NEW q, GoodQueue(q), NEW i \in 1 .. Len(q.order)
  PROVE  Lists(RemoveAt(q.order, i), Serving(q) \ {q.order[i]})
<1> DEFINE L == Between(q.order, 1, i - 1)
           R == Between(q.order, i + 1, Len(q.order))
<1>1. Lists(q.order, Serving(q)) /\ Len(q.order) \in Nat
  BY GoodQueueLists, GoodQueueOrder
<1>2. /\ Lists(SubSeq(q.order, 1, i - 1), L)
      /\ Lists(SubSeq(q.order, i + 1, Len(q.order)), R)
  BY <1>1, ListsSubSeq
<1>3. L \cap R = {} /\ L \cup R = Serving(q) \ {q.order[i]}
  BY <1>1, ListsSplit
<1> HIDE DEF L, R
<1> QED
  BY <1>2, <1>3, ListsConcat DEF RemoveAt

\* #removeTenant (dispatcher.ts 330-334) and clearTenant (146-148).
LEMMA RemoveTenantGood ==
  ASSUME NEW q, GoodQueue(q), NEW t \in Tenants
  PROVE  GoodQueue(RemoveTenant(q, t))
<1> DEFINE p == RemoveTenant(q, t)
<1>1. /\ q.ready \in [Tenants -> Seq(Jobs)]
      /\ Lists(q.order, Serving(q))
      /\ q.order \in Seq(Tenants)
      /\ Len(q.order) \in Nat
      /\ DOMAIN q.order = 1 .. Len(q.order)
  BY GoodQueueLists, GoodQueueOrder
<1>2. /\ p = [ready |-> p.ready, order |-> p.order]
      /\ p.ready = [q.ready EXCEPT ![t] = <<>>]
      /\ p.order = IF \E i \in DOMAIN q.order : q.order[i] = t
                   THEN RemoveAt(q.order, IndexOf(q.order, t)) ELSE q.order
  BY DEF RemoveTenant
<1> HIDE DEF p
<1>3. p.ready \in [Tenants -> Seq(Jobs)] /\ Serving(p) = Serving(q) \ {t}
  BY <1>1, <1>2, EmptySeq DEF Serving
<1>4. CASE \E i \in DOMAIN q.order : q.order[i] = t
  <2>1. IndexOf(q.order, t) \in 1 .. Len(q.order) /\ q.order[IndexOf(q.order, t)] = t
    BY <1>1, <1>4, IndexOfFacts
  <2>2. Lists(RemoveAt(q.order, IndexOf(q.order, t)), Serving(q) \ {t})
    BY <2>1, RemoveFromOrder
  <2> QED
    BY <1>2, <1>3, <1>4, <2>2, GoodQueueLists DEF p
<1>5. CASE ~ \E i \in DOMAIN q.order : q.order[i] = t
  <2>1. t \notin Serving(q)
    BY <1>1, <1>5 DEF Lists
  <2>2. Serving(p) = Serving(q) /\ p.order = q.order
    BY <1>2, <1>3, <1>5, <2>1
  <2> QED
    BY <1>1, <1>2, <1>3, <2>2, GoodQueueLists DEF p
<1> QED
  BY <1>4, <1>5

\* dropFromReady (dispatcher.ts 134-143).
LEMMA DropFromReadyGood ==
  ASSUME NEW q, GoodQueue(q), NEW j \in Jobs
  PROVE  GoodQueue(DropFromReady(q, j))
<1> DEFINE t == TenantOf[j]
           left == RemoveAt(q.ready[t], IndexOf(q.ready[t], j))
<1>1. /\ q.ready \in [Tenants -> Seq(Jobs)]
      /\ q = [ready |-> q.ready, order |-> q.order]
      /\ Lists(q.order, Serving(q))
      /\ t \in Tenants
  BY GoodQueueLists, JobAssumption
<1>2. CASE ~ InReady(q, j)
  BY <1>2 DEF DropFromReady
<1>3. CASE InReady(q, j) /\ left = <<>>
  BY <1>1, <1>3, RemoveTenantGood DEF DropFromReady
<1>4. CASE InReady(q, j) /\ left # <<>>
  <2> DEFINE p == [ready |-> [q.ready EXCEPT ![t] = left], order |-> q.order]
  <2>1. left \in Seq(Jobs) /\ q.ready[t] # <<>>
    <3>1. q.ready[t] \in Seq(Jobs) /\ \E i \in DOMAIN q.ready[t] : q.ready[t][i] = j
      BY <1>1, <1>4 DEF InReady
    <3>2. IndexOf(q.ready[t], j) \in 1 .. Len(q.ready[t])
      BY <3>1, IndexOfFacts
    <3> QED
      BY <3>1, <3>2, RemoveAtFacts
  <2>2. p.ready \in [Tenants -> Seq(Jobs)] /\ Serving(p) = Serving(q)
    BY <1>1, <1>4, <2>1 DEF Serving
  <2>3. GoodQueue(p)
    BY <1>1, <2>2, GoodQueueLists
  <2>4. DropFromReady(q, j) = p
    BY <1>1, <1>4 DEF DropFromReady
  <2> QED
    BY <2>3, <2>4
<1> QED
  BY <1>2, <1>3, <1>4

\* #takeNextReady (dispatcher.ts 306-328) yields a job of the tenant whose
\* turn it is and rotates the order.
LEMMA TakeAtGood ==
  ASSUME NEW q, GoodQueue(q), NEW i \in DOMAIN q.order
  PROVE  JobAt(q, i) \in Jobs /\ GoodQueue(TakeAt(q, i))
<1> DEFINE t == q.order[i]
           left == Tail(q.ready[t])
           L == Between(q.order, 1, i - 1)
           R == Between(q.order, i + 1, Len(q.order))
           back == IF left = <<>> THEN i - 1 ELSE i
           p == TakeAt(q, i)
<1>1. /\ q.ready \in [Tenants -> Seq(Jobs)]
      /\ Lists(q.order, Serving(q))
      /\ Len(q.order) \in Nat
      /\ i \in 1 .. Len(q.order)
      /\ t \in Tenants /\ q.ready[t] # <<>>
  BY GoodQueueLists, GoodQueueOrder
<1>2. Head(q.ready[t]) \in Jobs /\ left \in Seq(Jobs)
  BY <1>1, HeadTailProperties
<1>3. /\ p = [ready |-> p.ready, order |-> p.order]
      /\ p.ready = [q.ready EXCEPT ![t] = left]
      /\ p.order = SubSeq(q.order, i + 1, Len(q.order)) \o SubSeq(q.order, 1, back)
  BY DEF TakeAt
<1> HIDE DEF p
<1>4. /\ p.ready \in [Tenants -> Seq(Jobs)]
      /\ Serving(p) = IF left = <<>> THEN Serving(q) \ {t} ELSE Serving(q)
  BY <1>1, <1>2, <1>3 DEF Serving
<1>5. /\ Lists(SubSeq(q.order, i + 1, Len(q.order)), R)
      /\ Lists(SubSeq(q.order, 1, i - 1), L)
      /\ Lists(SubSeq(q.order, 1, i), Between(q.order, 1, i))
  BY <1>1, ListsSubSeq
<1>6. /\ L \cap R = {} /\ t \notin L \cup R
      /\ L \cup R = Serving(q) \ {t}
      /\ Between(q.order, 1, i) = L \cup {t}
      /\ t \in Serving(q)
  BY <1>1, ListsSplit
<1> HIDE DEF L, R, t, left
<1>7. CASE left = <<>>
  <2>1. Lists(p.order, R \cup L)
    <3>1. p.order = SubSeq(q.order, i + 1, Len(q.order)) \o SubSeq(q.order, 1, i - 1)
      BY <1>3, <1>7
    <3>2. R \cap L = {}
      BY <1>6
    <3>3. Lists(SubSeq(q.order, i + 1, Len(q.order)) \o SubSeq(q.order, 1, i - 1),
                R \cup L)
      BY <1>5, <3>2, ListsConcat
    <3> QED
      BY <3>1, <3>3
  <2>2. Lists(p.order, Serving(p))
    BY <1>4, <1>6, <1>7, <2>1
  <2>3. GoodQueue(p)
    BY <1>3, <1>4, <2>2, GoodQueueLists
  <2> QED
    BY <1>2, <2>3 DEF p, JobAt, t
<1>8. CASE left # <<>>
  <2>1. Lists(p.order, R \cup (L \cup {t}))
    <3>1. p.order = SubSeq(q.order, i + 1, Len(q.order)) \o SubSeq(q.order, 1, i)
      BY <1>3, <1>8
    <3>2. R \cap (L \cup {t}) = {}
      BY <1>6
    <3>3. Lists(SubSeq(q.order, 1, i), L \cup {t})
      BY <1>5, <1>6
    <3>4. Lists(SubSeq(q.order, i + 1, Len(q.order)) \o SubSeq(q.order, 1, i),
                R \cup (L \cup {t}))
      BY <1>5, <3>2, <3>3, ListsConcat
    <3> QED
      BY <3>1, <3>4
  <2>2. Lists(p.order, Serving(p))
    <3>1. R \cup (L \cup {t}) = Serving(p)
      BY <1>4, <1>6, <1>8
    <3> QED
      BY <2>1, <3>1
  <2>3. GoodQueue(p)
    BY <1>3, <1>4, <2>2, GoodQueueLists
  <2> QED
    BY <1>2, <2>3 DEF p, JobAt, t
<1> QED
  BY <1>7, <1>8

\* rebuildFromStorage after its await (dispatcher.ts 153-155), whatever has
\* reached the ready set in the meantime.
LEMMA PushAllGood ==
  ASSUME NEW q, GoodQueue(q), NEW S \in SUBSET Jobs,
         IsFiniteSet(Jobs), IsFiniteSet(Tenants), NEW p \in PushAll(q, S)
  PROVE  /\ GoodQueue(p)
         /\ \A j \in S : InReady(p, j)
         /\ \A j \in Jobs : InReady(q, j) => InReady(p, j)
<1> DEFINE fresh == Fresh(q, S)
<1>1. /\ q.ready \in [Tenants -> Seq(Jobs)]
      /\ Lists(q.order, Serving(q))
  BY GoodQueueLists
<1>2. PICK f \in Pushes(S), o \in SetToSeqs(fresh) : p = Pushed(q, f, o)
  BY DEF PushAll
<1>3. ASSUME NEW t \in Tenants
      PROVE  /\ f[t] \in Seq(Jobs)
             /\ \A j \in JobsOf(S, t) : Has(f[t], j)
             /\ f[t] = <<>> <=> JobsOf(S, t) = {}
  <2>1. JobsOf(S, t) \subseteq Jobs /\ IsFiniteSet(JobsOf(S, t))
    BY FS_Subset DEF JobsOf
  <2>2. /\ f[t] \in Seq(JobsOf(S, t))
        /\ \A j \in JobsOf(S, t) : \E i \in 1 .. Len(f[t]) : f[t][i] = j
    BY <2>1, SetToSeqsFacts DEF Pushes
  <2>3. f[t] \in Seq(Jobs) /\ DOMAIN f[t] = 1 .. Len(f[t])
    BY <2>1, <2>2, SeqMonotonic, LenProperties
  <2>4. ASSUME f[t] # <<>> PROVE JobsOf(S, t) # {}
    BY <2>2, <2>4, HeadTailProperties
  <2>5. ASSUME f[t] = <<>> PROVE JobsOf(S, t) = {}
    BY <2>2, <2>5, EmptySeq
  <2> QED
    BY <2>2, <2>3, <2>4, <2>5 DEF Has
<1>4. ASSUME NEW t \in Tenants
      PROVE  /\ q.ready[t] \in Seq(Jobs)
             /\ p.ready[t] = q.ready[t] \o f[t]
             /\ p.ready[t] \in Seq(Jobs)
             /\ p.ready[t] = <<>> <=> q.ready[t] = <<>> /\ f[t] = <<>>
             /\ \A j : Has(p.ready[t], j) <=> Has(q.ready[t], j) \/ Has(f[t], j)
  <2>1. q.ready[t] \in Seq(Jobs) /\ f[t] \in Seq(Jobs)
    BY <1>1, <1>3
  <2>2. p.ready[t] = q.ready[t] \o f[t]
    BY <1>2 DEF Pushed
  <2>3. q.ready[t] \o f[t] = <<>> <=> q.ready[t] = <<>> /\ f[t] = <<>>
    BY <2>1, ConcatEqualIffEmpty
  <2> QED
    BY <2>1, <2>2, <2>3, ConcatProperties, ConcatHas
<1>5. Serving(p) = Serving(q) \cup fresh /\ Serving(q) \cap fresh = {}
  BY <1>3, <1>4 DEF Serving, Fresh
<1>6. Lists(o, fresh)
  <2>1. IsFiniteSet(fresh)
    BY FS_Subset DEF Fresh
  <2>2. o \in SetToSeqs(fresh)
    OBVIOUS
  <2> HIDE DEF fresh
  <2> QED
    BY <2>1, <2>2, SetToSeqsFacts DEF Lists
<1> HIDE DEF fresh
<1>7. GoodQueue(p)
  <2>1. Lists(q.order \o o, Serving(p))
    BY <1>1, <1>5, <1>6, ListsConcat
  <2>2. /\ p = [ready |-> p.ready, order |-> p.order]
        /\ p.order = q.order \o o
        /\ p.ready \in [Tenants -> Seq(Jobs)]
    BY <1>2, <1>4 DEF Pushed
  <2> QED
    BY <2>1, <2>2, GoodQueueLists
<1>8. ASSUME NEW j \in S PROVE InReady(p, j)
  <2>1. TenantOf[j] \in Tenants /\ j \in JobsOf(S, TenantOf[j])
    BY JobAssumption DEF JobsOf
  <2> QED
    BY <1>3, <1>4, <2>1 DEF InReady, Has
<1>9. ASSUME NEW j \in Jobs, InReady(q, j) PROVE InReady(p, j)
  <2>1. TenantOf[j] \in Tenants /\ Has(q.ready[TenantOf[j]], j)
    BY <1>9, JobAssumption DEF InReady, Has
  <2> QED
    BY <1>4, <2>1 DEF InReady, Has
<1> QED
  BY <1>7, <1>8, <1>9

-----------------------------------------------------------------------------
(* What an operation does to the entries of the other jobs.                 *)

LEMMA RemoveAtHas ==
  ASSUME NEW S, NEW s \in Seq(S), NEW i \in 1 .. Len(s), NEW x,
         Has(s, x), s[i] # x
  PROVE  Has(RemoveAt(s, i), x)
<1> DEFINE r == RemoveAt(s, i)
<1>1. Len(s) \in Nat /\ DOMAIN s = 1 .. Len(s)
  BY LenProperties
<1>2. /\ r \in Seq(S)
      /\ Len(r) = Len(s) - 1
      /\ \A k \in 1 .. (Len(s) - 1) : r[k] = IF k < i THEN s[k] ELSE s[k + 1]
  BY RemoveAtFacts
<1> HIDE DEF r
<1>3. DOMAIN r = 1 .. (Len(s) - 1)
  BY <1>2, LenProperties
<1>4. PICK k \in 1 .. Len(s) : s[k] = x
  BY <1>1 DEF Has
<1>5. CASE k < i
  BY <1>1, <1>2, <1>3, <1>4, <1>5 DEF Has, r
<1>6. CASE k > i
  <2>1. k - 1 \in DOMAIN r /\ ~ (k - 1 < i) /\ (k - 1) + 1 = k
    BY <1>1, <1>3, <1>6
  <2>2. r[k - 1] = x
    BY <1>2, <1>3, <1>4, <2>1
  <2> QED
    BY <2>1, <2>2 DEF Has, r
<1> QED
  BY <1>1, <1>4, <1>5, <1>6

LEMMA EnqueueReadyKeeps ==
  ASSUME NEW q, GoodQueue(q), NEW j \in Jobs
  PROVE  /\ InReady(EnqueueReady(q, j), j)
         /\ \A k \in Jobs : InReady(q, k) => InReady(EnqueueReady(q, j), k)
<1> DEFINE p == EnqueueReady(q, j)
           t == TenantOf[j]
<1>1. /\ q.ready \in [Tenants -> Seq(Jobs)]
      /\ t \in Tenants
      /\ p.ready = [q.ready EXCEPT ![t] = Append(@, j)]
  BY GoodQueueLists, JobAssumption DEF EnqueueReady
<1>2. p.ready[t] = q.ready[t] \o <<j>>
  BY <1>1, AppendIsConcat
<1>3. \A x : Has(p.ready[t], x) <=> Has(q.ready[t], x) \/ Has(<<j>>, x)
  <2> DEFINE u == q.ready[t]
             e == <<j>>
  <2>1. u \in Seq(Jobs) /\ e \in Seq(Jobs)
    BY <1>1
  <2>2. p.ready[t] = u \o e
    BY <1>2
  <2> HIDE DEF u, e, p
  <2>3. \A x : Has(u \o e, x) <=> Has(u, x) \/ Has(e, x)
    BY <2>1, ConcatHas
  <2> QED
    BY <2>2, <2>3 DEF u, e
<1>4. Has(<<j>>, j)
  BY DEF Has
<1>5. ASSUME NEW k \in Jobs, InReady(q, k) PROVE InReady(p, k)
  <2>1. CASE TenantOf[k] = t
    BY <1>3, <1>5, <2>1 DEF InReady, Has
  <2>2. CASE TenantOf[k] # t
    <3>1. p.ready[TenantOf[k]] = q.ready[TenantOf[k]]
      BY <1>1, <2>2, JobAssumption
    <3> QED
      BY <1>5, <3>1 DEF InReady
  <2> QED
    BY <2>1, <2>2
<1>6. InReady(p, j)
  BY <1>3, <1>4 DEF InReady, Has
<1> HIDE DEF p
<1> QED
  BY <1>5, <1>6 DEF p

\* dropFromReady touches no other job.
LEMMA DropFromReadyKeeps ==
  ASSUME NEW q, GoodQueue(q), NEW j \in Jobs, NEW k \in Jobs, k # j, InReady(q, k)
  PROVE  InReady(DropFromReady(q, j), k)
<1> DEFINE t == TenantOf[j]
           left == RemoveAt(q.ready[t], IndexOf(q.ready[t], j))
           p == DropFromReady(q, j)
<1>1. q.ready \in [Tenants -> Seq(Jobs)] /\ t \in Tenants /\ TenantOf[k] \in Tenants
  BY GoodQueueLists, JobAssumption
<1>2. CASE ~ InReady(q, j)
  BY <1>2 DEF DropFromReady
<1>3. CASE InReady(q, j)
  <2>1. /\ q.ready[t] \in Seq(Jobs)
        /\ IndexOf(q.ready[t], j) \in 1 .. Len(q.ready[t])
        /\ q.ready[t][IndexOf(q.ready[t], j)] = j
    BY <1>1, <1>3, IndexOfFacts DEF InReady
  <2>2. CASE TenantOf[k] = t
    <3>1. Has(left, k)
      <4>1. Has(q.ready[t], k)
        BY <2>2 DEF InReady, Has
      <4> QED
        BY <2>1, <4>1, RemoveAtHas
    <3>2. left # <<>>
      BY <3>1 DEF Has
    <3>3. p = [q EXCEPT !.ready[t] = left]
      BY <1>3, <3>2 DEF DropFromReady
    <3>4. p.ready[t] = left
      BY <1>1, <3>3, GoodQueueLists
    <3> QED
      BY <2>2, <3>1, <3>4 DEF InReady, Has
  <2>3. CASE TenantOf[k] # t
    <3>1. p = RemoveTenant(q, t) \/ p = [q EXCEPT !.ready[t] = left]
      BY <1>3 DEF DropFromReady
    <3>2. \/ p.ready = [q.ready EXCEPT ![t] = <<>>]
          \/ p.ready = [q.ready EXCEPT ![t] = left]
      <4>1. RemoveTenant(q, t).ready = [q.ready EXCEPT ![t] = <<>>]
        BY DEF RemoveTenant
      <4>2. [q EXCEPT !.ready[t] = left].ready = [q.ready EXCEPT ![t] = left]
        <5>1. q = [ready |-> q.ready, order |-> q.order]
          BY GoodQueueLists
        <5> HIDE DEF left, t
        <5> QED
          BY <5>1
      <4> HIDE DEF p, left
      <4> QED
        BY <3>1, <4>1, <4>2
    <3> HIDE DEF p, left, t
    <3>3. p.ready[TenantOf[k]] = q.ready[TenantOf[k]]
      BY <1>1, <2>3, <3>2
    <3> QED
      BY <3>3 DEF InReady, p
  <2> QED
    BY <2>2, <2>3
<1> QED
  BY <1>2, <1>3

\* #takeNextReady takes one entry.
LEMMA TakeAtKeeps ==
  ASSUME NEW q, GoodQueue(q), NEW i \in DOMAIN q.order,
         NEW k \in Jobs, k # JobAt(q, i), InReady(q, k)
  PROVE  InReady(TakeAt(q, i), k)
<1> DEFINE t == q.order[i]
           p == TakeAt(q, i)
<1>1. /\ q.ready \in [Tenants -> Seq(Jobs)]
      /\ t \in Tenants /\ TenantOf[k] \in Tenants
      /\ q.ready[t] \in Seq(Jobs) /\ q.ready[t] # <<>>
  BY GoodQueueLists, GoodQueueOrder, JobAssumption
<1>2. p.ready = [q.ready EXCEPT ![t] = Tail(@)]
  BY DEF TakeAt
<1>3. CASE TenantOf[k] = t
  <2>1. /\ Len(q.ready[t]) \in Nat
        /\ DOMAIN q.ready[t] = 1 .. Len(q.ready[t])
        /\ Tail(q.ready[t]) \in Seq(Jobs)
        /\ Len(Tail(q.ready[t])) = Len(q.ready[t]) - 1
        /\ \A n \in 1 .. Len(Tail(q.ready[t])) : Tail(q.ready[t])[n] = q.ready[t][n + 1]
    BY <1>1, HeadTailProperties, LenProperties
  <2>2. q.ready[t][1] # k
    BY <1>1 DEF JobAt
  <2>3. PICK n \in 1 .. Len(q.ready[t]) : q.ready[t][n] = k
    BY <1>3, <2>1 DEF InReady
  <2>4. /\ n - 1 \in 1 .. Len(Tail(q.ready[t]))
        /\ (n - 1) + 1 = n
    BY <2>1, <2>2, <2>3
  <2>5. n - 1 \in DOMAIN Tail(q.ready[t]) /\ Tail(q.ready[t])[n - 1] = k
    BY <2>1, <2>3, <2>4, LenProperties
  <2> QED
    BY <1>1, <1>2, <1>3, <2>5 DEF InReady
<1>4. CASE TenantOf[k] # t
  BY <1>1, <1>2, <1>4 DEF InReady
<1> QED
  BY <1>3, <1>4

\* Rotating a sequence behind its place i moves a later place k forward by i.
LEMMA RotateShifts ==
  ASSUME NEW T, NEW s \in Seq(T), NEW i \in 1 .. Len(s), NEW k \in 1 .. Len(s), i < k,
         NEW b \in 0 .. Len(s)
  PROVE  LET o == SubSeq(s, i + 1, Len(s)) \o SubSeq(s, 1, b)
         IN k - i \in DOMAIN o /\ o[k - i] = s[k]
<1> DEFINE R == SubSeq(s, i + 1, Len(s))
           L == SubSeq(s, 1, b)
<1>1. /\ Len(s) \in Nat /\ i \in Int /\ k \in Int /\ b \in Int
      /\ \A m \in 1 .. Len(s) : s[m] \in T
  BY LenProperties, ElementOfSeq
<1>2. /\ \A m \in (i + 1) .. Len(s) : s[m] \in T
      /\ \A m \in 1 .. b : s[m] \in T
      /\ i + 1 \in Int
  BY <1>1
<1>3. /\ R \in Seq(T)
      /\ Len(R) = IF i + 1 <= Len(s) THEN Len(s) - (i + 1) + 1 ELSE 0
      /\ \A m \in 1 .. (Len(s) - (i + 1) + 1) : R[m] = s[(i + 1) + m - 1]
  BY <1>1, <1>2, SubSeqProperties
<1>4. L \in Seq(T)
  BY <1>1, <1>2, SubSeqProperties
<1> HIDE DEF R, L
<1>5. /\ k - i \in 1 .. Len(R) /\ R[k - i] = s[k]
      /\ Len(R) \in Nat /\ Len(L) \in Nat
  <2>1. /\ k - i \in 1 .. (Len(s) - (i + 1) + 1)
        /\ (i + 1) + (k - i) - 1 = k
        /\ Len(R) = Len(s) - (i + 1) + 1
    BY <1>1, <1>3
  <2>2. R[k - i] = s[(i + 1) + (k - i) - 1]
    BY <1>3, <2>1
  <2> QED
    BY <1>3, <1>4, <2>1, <2>2, LenProperties
<1>6. /\ R \o L \in Seq(T) /\ Len(R \o L) = Len(R) + Len(L)
      /\ (R \o L)[k - i] = R[k - i]
  <2>1. k - i \in 1 .. (Len(R) + Len(L)) /\ k - i <= Len(R)
    BY <1>1, <1>5
  <2> QED
    BY <1>3, <1>4, <2>1, ConcatProperties
<1>7. k - i \in DOMAIN (R \o L)
  BY <1>1, <1>5, <1>6, LenProperties
<1> QED
  BY <1>5, <1>6, <1>7 DEF R, L

\* The tenants behind the one served move forward by its place.
LEMMA TakeAtShifts ==
  ASSUME NEW q, GoodQueue(q), NEW i \in DOMAIN q.order, NEW k \in DOMAIN q.order, i < k
  PROVE  k - i \in DOMAIN TakeAt(q, i).order /\ TakeAt(q, i).order[k - i] = q.order[k]
<1> DEFINE b == IF Tail(q.ready[q.order[i]]) = <<>> THEN i - 1 ELSE i
<1>1. /\ q.order \in Seq(Tenants) /\ Len(q.order) \in Nat
      /\ i \in 1 .. Len(q.order) /\ k \in 1 .. Len(q.order)
  BY GoodQueueOrder
<1>2. b \in 0 .. Len(q.order)
  <2>1. i - 1 \in 0 .. Len(q.order) /\ i \in 0 .. Len(q.order)
    BY <1>1
  <2>2. b = i - 1 \/ b = i
    OBVIOUS
  <2> QED
    BY <2>1, <2>2
<1>3. TakeAt(q, i).order = SubSeq(q.order, i + 1, Len(q.order)) \o SubSeq(q.order, 1, b)
  BY DEF TakeAt
<1> HIDE DEF b
<1> QED
  BY <1>1, <1>2, <1>3, RotateShifts

-----------------------------------------------------------------------------
(* Every FIFO holds jobs of its own tenant only.                            *)

Sorted(q) == \A t \in Tenants : q.ready[t] \in Seq(JobsOf(Jobs, t))

LEMMA EmptyQueueSorted == Sorted(EmptyQueue)
BY EmptySeq DEF Sorted, EmptyQueue

LEMMA EnqueueReadySorted ==
  ASSUME NEW q, GoodQueue(q), Sorted(q), NEW j \in Jobs
  PROVE  Sorted(EnqueueReady(q, j))
<1>1. /\ q.ready \in [Tenants -> Seq(Jobs)] /\ TenantOf[j] \in Tenants
      /\ j \in JobsOf(Jobs, TenantOf[j])
  BY GoodQueueLists, JobAssumption DEF JobsOf
<1>2. Append(q.ready[TenantOf[j]], j) \in Seq(JobsOf(Jobs, TenantOf[j]))
  BY <1>1, AppendProperties DEF Sorted
<1> QED
  BY <1>1, <1>2 DEF Sorted, EnqueueReady

LEMMA RemoveTenantSorted ==
  ASSUME NEW q, GoodQueue(q), Sorted(q), NEW t \in Tenants
  PROVE  Sorted(RemoveTenant(q, t))
<1>1. q.ready \in [Tenants -> Seq(Jobs)]
  BY GoodQueueLists
<1>2. RemoveTenant(q, t).ready = [q.ready EXCEPT ![t] = <<>>]
  BY DEF RemoveTenant
<1> QED
  BY <1>1, <1>2, EmptySeq DEF Sorted

LEMMA DropFromReadySorted ==
  ASSUME NEW q, GoodQueue(q), Sorted(q), NEW j \in Jobs
  PROVE  Sorted(DropFromReady(q, j))
<1> DEFINE t == TenantOf[j]
           left == RemoveAt(q.ready[t], IndexOf(q.ready[t], j))
<1>1. /\ q.ready \in [Tenants -> Seq(Jobs)] /\ t \in Tenants
      /\ q = [ready |-> q.ready, order |-> q.order]
      /\ q.ready[t] \in Seq(JobsOf(Jobs, t))
  BY GoodQueueLists, JobAssumption DEF Sorted
<1>2. CASE ~ InReady(q, j)
  BY <1>2 DEF DropFromReady
<1>3. CASE InReady(q, j) /\ left = <<>>
  BY <1>1, <1>3, RemoveTenantSorted DEF DropFromReady
<1>4. CASE InReady(q, j) /\ left # <<>>
  <2>1. IndexOf(q.ready[t], j) \in 1 .. Len(q.ready[t])
    BY <1>1, <1>4, IndexOfFacts DEF InReady
  <2>2. left \in Seq(JobsOf(Jobs, t))
    BY <1>1, <2>1, RemoveAtFacts
  <2>3. DropFromReady(q, j) = [q EXCEPT !.ready[t] = left]
    BY <1>4 DEF DropFromReady
  <2> HIDE DEF left, t
  <2>4. DropFromReady(q, j).ready = [q.ready EXCEPT ![t] = left]
    BY <1>1, <2>3
  <2> QED
    BY <1>1, <2>2, <2>4 DEF Sorted
<1> QED
  BY <1>2, <1>3, <1>4

LEMMA TakeAtSorted ==
  ASSUME NEW q, GoodQueue(q), Sorted(q), NEW i \in DOMAIN q.order
  PROVE  Sorted(TakeAt(q, i)) /\ TenantOf[JobAt(q, i)] = q.order[i]
<1> DEFINE t == q.order[i]
<1>1. /\ q.ready \in [Tenants -> Seq(Jobs)] /\ t \in Tenants
      /\ q.ready[t] \in Seq(JobsOf(Jobs, t)) /\ q.ready[t] # <<>>
  BY GoodQueueLists, GoodQueueOrder DEF Sorted
<1>2. /\ Head(q.ready[t]) \in JobsOf(Jobs, t)
      /\ Tail(q.ready[t]) \in Seq(JobsOf(Jobs, t))
  BY <1>1, HeadTailProperties
<1>3. TakeAt(q, i).ready = [q.ready EXCEPT ![t] = Tail(@)]
  BY DEF TakeAt
<1> QED
  BY <1>1, <1>2, <1>3 DEF Sorted, JobAt, JobsOf

LEMMA PushAllSorted ==
  ASSUME NEW q, GoodQueue(q), Sorted(q), NEW S \in SUBSET Jobs,
         IsFiniteSet(Jobs), NEW p \in PushAll(q, S)
  PROVE  Sorted(p)
<1>1. PICK f \in Pushes(S), o \in SetToSeqs(Fresh(q, S)) : p = Pushed(q, f, o)
  BY DEF PushAll
<1>2. SUFFICES ASSUME NEW t \in Tenants PROVE p.ready[t] \in Seq(JobsOf(Jobs, t))
  BY DEF Sorted
<1>3. JobsOf(S, t) \subseteq JobsOf(Jobs, t) /\ IsFiniteSet(JobsOf(S, t))
  BY FS_Subset DEF JobsOf
<1>4. f[t] \in Seq(JobsOf(S, t))
  BY <1>3, SetToSeqsFacts DEF Pushes
<1>5. f[t] \in Seq(JobsOf(Jobs, t)) /\ q.ready[t] \in Seq(JobsOf(Jobs, t))
  BY <1>3, <1>4, SeqMonotonic DEF Sorted
<1>6. p.ready[t] = q.ready[t] \o f[t]
  BY <1>1 DEF Pushed
<1> QED
  BY <1>5, <1>6, ConcatProperties

-----------------------------------------------------------------------------
(* The statements of the job table keep its columns in their types.         *)


\* A row that does not exist has the columns of NoRow.
LEMMA NoRowTyped == NoRow \in Row
BY DEF NoRow, Row, Status

\* A row whose columns change within their types.
LEMMA RowUpdate ==
  ASSUME NEW r \in Row, NEW st \in Status, NEW n \in Nat, NEW m \in Nat
  PROVE  /\ [r EXCEPT !.status = st, !.leaseExpires = n] \in Row
         /\ [r EXCEPT !.status = st, !.retryCount = n] \in Row
         /\ [r EXCEPT !.status = st, !.leaseExpires = n, !.claims = m] \in Row
         /\ [r EXCEPT !.status = st, !.leaseExpires = n, !.resultExpires = m] \in Row
         /\ [r EXCEPT !.status = st, !.retryCount = m, !.leaseExpires = n] \in Row
BY DEF Row

\* enqueue, claim, ack (do-storage.ts 106-230).
LEMMA EnqueueClaimAckTyped ==
  ASSUME NEW table \in [Jobs -> Row], NEW j \in Jobs, NEW t \in Nat
  PROVE  /\ Insert(table, j) \in [Jobs -> Row]
         /\ Claim(table, j, t) \in [Jobs -> Row]
         /\ Ack(table, j, t) \in [Jobs -> Row]
<1> DEFINE r == table[j]
<1>1. /\ r \in Row /\ r.claims + 1 \in Nat
      /\ t + LeaseMs \in Nat /\ t + ResultTtlMs \in Nat /\ 0 \in Nat
      /\ "queued" \in Status /\ "leased" \in Status /\ "done" \in Status
  BY JobStoreAssumption DEF Row, Status
<1> HIDE DEF r
<1>2. Insert(table, j) \in [Jobs -> Row]
  <2>1. [NoRow EXCEPT !.status = "queued"] \in Row
    BY DEF NoRow, Row, Status
  <2> QED
    BY <2>1 DEF Insert
<1>3. Claim(table, j, t) \in [Jobs -> Row]
  <2>1. [r EXCEPT !.status = "leased", !.leaseExpires = t + LeaseMs,
                  !.claims = r.claims + 1] \in Row
    BY <1>1, RowUpdate
  <2> QED
    BY <2>1 DEF Claim, r
<1>4. Ack(table, j, t) \in [Jobs -> Row]
  <2>1. [r EXCEPT !.status = "done", !.leaseExpires = 0,
                  !.resultExpires = t + ResultTtlMs] \in Row
    BY <1>1, RowUpdate
  <2> QED
    BY <2>1 DEF Ack, r
<1> QED
  BY <1>2, <1>3, <1>4

\* fail, failQueued, cancel (do-storage.ts 232-291).
LEMMA FailCancelTyped ==
  ASSUME NEW table \in [Jobs -> Row], NEW j \in Jobs
  PROVE  /\ Fail(table, j) \in [Jobs -> Row]
         /\ FailQueued(table, j) \in [Jobs -> Row]
         /\ Cancel(table, j) \in [Jobs -> Row]
<1> DEFINE r == table[j]
           st == IF AttemptsSpent(table, j) THEN "failed" ELSE "queued"
<1>1. /\ r \in Row /\ r.retryCount + 1 \in Nat /\ RetryMax[j] \in Nat /\ 0 \in Nat
      /\ "failed" \in Status /\ "cancelled" \in Status /\ st \in Status
  BY JobAssumption DEF Row, Status
<1> HIDE DEF r, st
<1>2. Fail(table, j) \in [Jobs -> Row]
  <2>1. [r EXCEPT !.status = st, !.retryCount = r.retryCount + 1,
                  !.leaseExpires = 0] \in Row
    BY <1>1, RowUpdate
  <2> QED
    BY <2>1 DEF Fail, r, st
<1>3. FailQueued(table, j) \in [Jobs -> Row]
  <2>1. [r EXCEPT !.status = "failed", !.retryCount = RetryMax[j]] \in Row
    BY <1>1, RowUpdate
  <2> QED
    BY <2>1 DEF FailQueued, r
<1>4. Cancel(table, j) \in [Jobs -> Row]
  <2>1. [r EXCEPT !.status = "cancelled", !.leaseExpires = 0] \in Row
    BY <1>1, RowUpdate
  <2> QED
    BY <2>1 DEF Cancel, r
<1> QED
  BY <1>2, <1>3, <1>4

\* reclaimExpiredLeases and sweepExpired (do-storage.ts 344-365).
LEMMA ReclaimSweepTyped ==
  ASSUME NEW table \in [Jobs -> Row], NEW t \in Nat
  PROVE  /\ ReclaimExpiredLeases(table, t) \in [Jobs -> Row]
         /\ SweepExpired(table, t) \in [Jobs -> Row]
<1>1. "queued" \in Status
  BY DEF Status
<1>2. ASSUME NEW k \in Jobs
      PROVE  [table[k] EXCEPT !.status = "queued", !.leaseExpires = 0] \in Row
  BY <1>1, RowUpdate
<1>3. ReclaimExpiredLeases(table, t) \in [Jobs -> Row]
  BY <1>2 DEF ReclaimExpiredLeases
<1>4. SweepExpired(table, t) \in [Jobs -> Row]
  BY NoRowTyped DEF SweepExpired
<1> QED
  BY <1>3, <1>4

-----------------------------------------------------------------------------
(* Shape and limits.                                                        *)


\* TypeOK is inductive only together with the agreement of #ready and
\* #tenantOrder: the loop takes the head of the FIFO of a tenant it finds in
\* the order, and that FIFO must not be empty.
Shape == TypeOK /\ QueueWellFormed

LEMMA ShapeGoodQueue == ASSUME Shape PROVE GoodQueue(queue)
BY DEF Shape, TypeOK, QueueWellFormed, GoodQueue

LEMMA KickTyped == ASSUME loop \in LoopState, Kick PROVE loop' \in LoopState
BY DEF Kick, LoopState, LoopTop

LEMMA QueuedJobs == ASSUME NEW r PROVE Queued(r) \in SUBSET Jobs
BY DEF Queued, Having

LEMMA ShapeInit == Init => Shape
<1> SUFFICES ASSUME Init PROVE Shape
  OBVIOUS
<1>1. rows \in [Jobs -> Row]
  BY NoRowTyped DEF Init
<1>2. queue \in Queue /\ QueueWellFormed
  BY EmptyQueueGood DEF Init, GoodQueue, QueueWellFormed
<1>3. loop \in LoopState /\ alarm \in AlarmState
  BY DEF Init, LoopIdle, LoopState, AlarmOff, AlarmState
<1> QED
  BY <1>1, <1>2, <1>3 DEF Init, Shape, TypeOK, NoTenantCancel

-----------------------------------------------------------------------------
(* One lemma per handler.                                                   *)

LEMMA ShapeEnqueue ==
  ASSUME Shape, NEW j \in Jobs, EnqueueCall(j)
  PROVE  Shape'
<1> USE DEF Shape
<1>1. Insert(rows, j) \in [Jobs -> Row]
  BY EnqueueClaimAckTyped, 0 \in Nat DEF TypeOK
<1>2. ASSUME NEW q, Admit(j, q)
      PROVE  /\ rows' \in [Jobs -> Row]
             /\ calls' \in [Jobs -> {"none", "init", "stored", "accepted", "rejected", "lost"}]
  BY <1>1, <1>2 DEF Admit, TypeOK
<1>3. CASE Enqueue(j)
  BY <1>2, <1>3 DEF Enqueue, TypeOK, QueueWellFormed, memory
<1>4. CASE EnqueueInit(j)
  <2>1. queue' \in Queue /\ WellFormed(queue')
    BY <1>4, EmptyQueueGood DEF EnqueueInit, StartRebuild, GoodQueue
  <2>2. boot' \in SUBSET Jobs
    BY <1>4, QueuedJobs DEF EnqueueInit
  <2> QED
    BY <1>4, <2>1, <2>2 DEF EnqueueInit, TypeOK, QueueWellFormed
<1>5. CASE EnqueueInitDone(j)
  <2>1. PICK q \in PushAll(queue, boot) : queue' = q /\ Admit(j, q)
    BY <1>5 DEF EnqueueInitDone
  <2>2. GoodQueue(q)
    BY PushAllGood, ShapeGoodQueue, SchedulerAssumption DEF TypeOK
  <2> QED
    BY <1>2, <1>5, <2>1, <2>2 DEF EnqueueInitDone, TypeOK, QueueWellFormed, GoodQueue
<1>6. CASE EnqueueAccept(j)
  <2>1. GoodQueue(queue')
    BY <1>6, EnqueueReadyGood, ShapeGoodQueue DEF EnqueueAccept
  <2>2. loop' \in LoopState
    BY <1>6, KickTyped DEF EnqueueAccept, TypeOK
  <2> QED
    BY <1>6, <2>1, <2>2 DEF EnqueueAccept, TypeOK, QueueWellFormed, GoodQueue
<1> QED
  BY <1>3, <1>4, <1>5, <1>6 DEF EnqueueCall

LEMMA ShapeLoop == ASSUME Shape, LoopStep PROVE Shape'
<1> USE DEF Shape
<1>1. CASE LoopStop
  BY <1>1 DEF LoopStop, LoopIdle, LoopState, TypeOK, QueueWellFormed
<1>2. CASE LoopTake
  <2>1. PICK i \in DOMAIN queue.order :
          LET j == JobAt(queue, i)
              late == PastDeadline(j)
              won == ~ late /\ Claimable(rows, j, now)
          IN /\ queue' = TakeAt(queue, i)
             /\ loop' = [at |-> "waiting", job |-> j,
                         claim |-> IF won THEN rows[j].claims + 1 ELSE 0]
             /\ rows' = IF late THEN FailQueued(rows, j)
                        ELSE IF won THEN Claim(rows, j, now)
                        ELSE rows
             /\ lapsed' = IF won /\ LeaseExpired(rows[j], now)
                          THEN lapsed \cup {j} ELSE lapsed
    BY <1>2 DEF LoopTake
  <2> DEFINE j == JobAt(queue, i)
  <2>2. j \in Jobs /\ GoodQueue(queue')
    BY <2>1, TakeAtGood, ShapeGoodQueue
  <2> HIDE DEF j
  <2>3. rows' \in [Jobs -> Row]
    <3>1. FailQueued(rows, j) \in [Jobs -> Row] /\ Claim(rows, j, now) \in [Jobs -> Row]
      BY <2>2, EnqueueClaimAckTyped, FailCancelTyped DEF TypeOK
    <3> QED
      BY <2>1, <3>1 DEF TypeOK, j
  <2>4. loop' \in LoopState
    <3>1. rows[j].claims + 1 \in Nat
      BY <2>2 DEF TypeOK, Row
    <3> QED
      BY <2>1, <2>2, <3>1 DEF LoopState, j
  <2>5. lapsed' \in SUBSET Jobs
    BY <2>1, <2>2 DEF TypeOK, j
  <2> QED
    BY <1>2, <2>2, <2>3, <2>4, <2>5 DEF LoopTake, TypeOK, QueueWellFormed, GoodQueue
<1>3. CASE LoopSkip
  BY <1>3 DEF LoopSkip, LoopTop, LoopState, TypeOK, QueueWellFormed
<1>4. CASE LoopStart
  <2>1. loop.job \in Jobs /\ loop.claim \in Nat
    BY <1>4 DEF LoopStart, LoopState, TypeOK
  <2>2. executions' \in SUBSET Execution
    BY <1>4, <2>1 DEF LoopStart, Execution, TypeOK
  <2>3. loop' \in LoopState
    BY <1>4 DEF LoopStart, LoopTop, LoopState
  <2> QED
    BY <1>4, <2>1, <2>2, <2>3 DEF LoopStart, TypeOK, QueueWellFormed
<1> QED
  BY <1>1, <1>2, <1>3, <1>4 DEF LoopStep

LEMMA ShapeRun == ASSUME Shape, NEW e \in executions, RunStep(e) PROVE Shape'
<1> USE DEF Shape
<1>1. e \in Execution /\ e.job \in Jobs
  BY DEF TypeOK, Execution
<1>2. ASSUME NEW phase \in {"settled", "retrying"}, Settle(e, phase)
      PROVE  executions' \in SUBSET Execution
  BY <1>1, <1>2 DEF Settle, Execution, TypeOK
<1>3. CASE RunOk(e)
  <2>1. rows' \in [Jobs -> Row]
    BY <1>1, <1>3, EnqueueClaimAckTyped DEF RunOk, TypeOK
  <2> QED
    BY <1>2, <1>3, <2>1 DEF RunOk, TypeOK, QueueWellFormed
<1>4. CASE RunThrow(e)
  <2>1. rows' \in [Jobs -> Row]
    BY <1>1, <1>4, FailCancelTyped DEF RunThrow, TypeOK
  <2> QED
    BY <1>2, <1>4, <2>1 DEF RunThrow, TypeOK, QueueWellFormed
<1>5. CASE RunEnd(e)
  <2>1. timers' \in [Jobs -> Nat] /\ alarmAt' \in Nat \cup {NoAlarm}
    BY <1>1, <1>5, SchedulerAssumption DEF RunEnd, EarlierAlarm, TypeOK
  <2>2. loop' \in LoopState
    BY <1>5, KickTyped DEF RunEnd, TypeOK
  <2> QED
    BY <1>5, <2>1, <2>2 DEF RunEnd, TypeOK, QueueWellFormed
<1> QED
  BY <1>3, <1>4, <1>5 DEF RunStep

LEMMA ShapeTimer ==
  ASSUME Shape, NEW j \in Jobs, TimerFires(j) PROVE Shape'
<1> USE DEF Shape
<1>1. GoodQueue(queue')
  BY EnqueueReadyGood, ShapeGoodQueue DEF TimerFires
<1>2. loop' \in LoopState
  BY KickTyped DEF TimerFires, TypeOK
<1>3. timers' \in [Jobs -> Nat]
  BY DEF TimerFires, TypeOK
<1> QED
  BY <1>1, <1>2, <1>3 DEF TimerFires, TypeOK, QueueWellFormed, GoodQueue

LEMMA ShapeCancel == ASSUME Shape, CancelCall PROVE Shape'
<1> USE DEF Shape
<1>1. ASSUME NEW j \in Jobs PROVE Cancel(rows, j) \in [Jobs -> Row]
  BY FailCancelTyped DEF TypeOK
<1>2. ASSUME NEW j \in Jobs, CancelJob(j) PROVE Shape'
  BY <1>1, <1>2 DEF CancelJob, TypeOK, QueueWellFormed
<1>3. ASSUME NEW j \in Jobs, CancelDrop(j) PROVE Shape'
  <2>1. GoodQueue(queue')
    BY <1>3, DropFromReadyGood, ShapeGoodQueue DEF CancelDrop
  <2> QED
    BY <1>3, <2>1 DEF CancelDrop, TypeOK, QueueWellFormed, GoodQueue
<1>4. ASSUME NEW j \in Jobs, TenantCancelOne(j) PROVE Shape'
  BY <1>1, <1>4 DEF TenantCancelOne, TypeOK, QueueWellFormed
<1>5. ASSUME NEW t \in Tenants, TenantCancelList(t) PROVE Shape'
  BY <1>5 DEF TenantCancelList, JobsOf, TypeOK, QueueWellFormed
<1>6. ASSUME NEW t \in Tenants, TenantCancelClear(t) PROVE Shape'
  <2>1. GoodQueue(queue')
    BY <1>6, RemoveTenantGood, ShapeGoodQueue DEF TenantCancelClear
  <2> QED
    BY <1>6, <2>1 DEF TenantCancelClear, NoTenantCancel, TypeOK, QueueWellFormed,
                      GoodQueue
<1> QED
  BY <1>2, <1>3, <1>4, <1>5, <1>6 DEF CancelCall

LEMMA ShapeAlarm == ASSUME Shape, AlarmStep PROVE Shape'
<1> USE DEF Shape
<1>1. GoodQueue(EmptyQueue) /\ Queued(rows) \in SUBSET Jobs
  BY EmptyQueueGood, QueuedJobs
<1>2. CASE AlarmFires
  <2>1. \/ alarm' = [alarm EXCEPT !.at = "reclaim"] /\ queue' = queue
        \/ /\ alarm' = [alarm EXCEPT !.at = "initPush", !.found = Queued(rows)]
           /\ queue' = EmptyQueue
    BY <1>2 DEF AlarmFires, AlarmGoes, StartRebuild
  <2>2. alarm' \in AlarmState
    BY <1>1, <2>1 DEF AlarmState, TypeOK
  <2>3. GoodQueue(queue')
    BY <1>1, <2>1, ShapeGoodQueue
  <2> QED
    BY <1>2, <2>2, <2>3 DEF AlarmFires, TypeOK, QueueWellFormed, GoodQueue
<1>3. ASSUME NEW from, NEW to \in {"reclaim", "sweep", "finish"}, AlarmPush(from, to)
      PROVE  Shape'
  <2>1. alarm.found \in SUBSET Jobs
    BY DEF TypeOK, AlarmState
  <2>2. GoodQueue(queue')
    BY <1>3, <2>1, PushAllGood, ShapeGoodQueue, SchedulerAssumption DEF AlarmPush
  <2>3. alarm' \in AlarmState
    BY <1>3 DEF AlarmPush, AlarmState, TypeOK
  <2> QED
    BY <1>3, <2>2, <2>3 DEF AlarmPush, TypeOK, QueueWellFormed, GoodQueue
<1>4. CASE AlarmReclaim
  <2>1. rows' \in [Jobs -> Row]
    BY <1>4, ReclaimSweepTyped DEF AlarmReclaim, TypeOK
  <2>2. alarm' \in AlarmState
    BY <1>4 DEF AlarmReclaim, AlarmState, TypeOK
  <2> QED
    BY <1>4, <2>1, <2>2 DEF AlarmReclaim, ExpiredLeases, TypeOK, QueueWellFormed
<1>5. CASE AlarmRebuild
  BY <1>1, <1>5 DEF AlarmRebuild, StartRebuild, AlarmState, TypeOK,
                    QueueWellFormed, GoodQueue
<1>6. CASE AlarmSweep
  <2>1. alarm.since \in Nat
    BY DEF TypeOK, AlarmState
  <2>2. rows' \in [Jobs -> Row]
    BY <1>6, <2>1, ReclaimSweepTyped DEF AlarmSweep, TypeOK
  <2>3. alarm' \in AlarmState
    BY <1>6 DEF AlarmSweep, AlarmGoes, AlarmState, TypeOK
  <2> QED
    BY <1>6, <2>2, <2>3 DEF AlarmSweep, TypeOK, QueueWellFormed
<1>7. CASE AlarmBackstop
  <2>1. \/ alarm' = [alarm EXCEPT !.at = "finish"] /\ queue' = queue
        \/ /\ alarm' = [alarm EXCEPT !.at = "refill", !.found = Queued(rows)]
           /\ queue' = EmptyQueue
    BY <1>7 DEF AlarmBackstop, AlarmGoes, StartRebuild
  <2>2. alarm' \in AlarmState
    BY <1>1, <2>1 DEF AlarmState, TypeOK
  <2>3. GoodQueue(queue')
    BY <1>1, <2>1, ShapeGoodQueue
  <2> QED
    BY <1>7, <2>2, <2>3 DEF AlarmBackstop, TypeOK, QueueWellFormed, GoodQueue
<1>8. CASE AlarmFinish
  <2>1. loop' \in LoopState
    BY <1>8, KickTyped DEF AlarmFinish, TypeOK
  <2>2. alarm' \in AlarmState
    BY <1>8 DEF AlarmFinish, AlarmGoes, AlarmState, TypeOK
  <2> QED
    BY <1>8, <2>1, <2>2 DEF AlarmFinish, TypeOK, QueueWellFormed
<1>9. CASE AlarmArm
  <2>1. alarmAt' \in Nat
    BY <1>9, SchedulerAssumption DEF AlarmArm, AlarmState, TypeOK
  <2>2. alarm' \in AlarmState
    BY <1>9 DEF AlarmArm, AlarmOff, AlarmState
  <2> QED
    BY <1>9, <2>1, <2>2 DEF AlarmArm, TypeOK, QueueWellFormed
<1> QED
  BY <1>2, <1>3, <1>4, <1>5, <1>6, <1>7, <1>8, <1>9 DEF AlarmStep

LEMMA ShapeRestart == ASSUME Shape, Restart PROVE Shape'
<1> USE DEF Shape
<1>1. GoodQueue(queue') /\ loop' \in LoopState /\ alarm' \in AlarmState
  BY EmptyQueueGood DEF Restart, LoopIdle, LoopState, AlarmOff, AlarmState
<1>2. /\ timers' \in [Jobs -> Nat]
      /\ calls' \in [Jobs -> {"none", "init", "stored", "accepted", "rejected", "lost"}]
  BY DEF Restart, TypeOK
<1>3. alarmAt' \in Nat \cup {NoAlarm}
  BY DEF Restart, EarlierAlarm, TypeOK
<1>4. tenantCancel' \in [on: BOOLEAN, tenants: SUBSET Tenants, left: SUBSET Jobs]
  BY DEF Restart, NoTenantCancel
<1>5. rows' = rows /\ now' = now /\ tenantCancels' = tenantCancels /\ lapsed' = lapsed
  BY DEF Restart
<1>6. /\ restarts' = restarts + 1 /\ initialized' = FALSE
      /\ running' = {} /\ executions' = {} /\ boot' = {} /\ dropping' = {}
  BY DEF Restart
<1>7. TypeOK'
  <2>1. /\ rows' \in [Jobs -> Row] /\ now' \in Nat /\ restarts' \in Nat
        /\ tenantCancels' \in Nat /\ lapsed' \in SUBSET Jobs
    BY <1>5, <1>6 DEF TypeOK
  <2>2. /\ running' \in SUBSET Jobs /\ executions' \in SUBSET Execution
        /\ boot' \in SUBSET Jobs /\ dropping' \in SUBSET Jobs
        /\ initialized' \in BOOLEAN
    BY <1>6
  <2>3. queue' \in Queue
    BY <1>1 DEF GoodQueue
  <2> QED
    BY <1>1, <1>2, <1>3, <1>4, <2>1, <2>2, <2>3 DEF TypeOK
<1> QED
  BY <1>1, <1>7 DEF QueueWellFormed, GoodQueue

LEMMA ShapeNext == ASSUME Shape, [Next]_vars PROVE Shape'
<1>1. CASE Tick
  BY <1>1 DEF Tick, memory, Shape, TypeOK, QueueWellFormed
<1>2. CASE UNCHANGED vars
  BY <1>2 DEF vars, memory, Shape, TypeOK, QueueWellFormed
<1> QED
  BY <1>1, <1>2, ShapeEnqueue, ShapeLoop, ShapeRun, ShapeTimer, ShapeCancel,
     ShapeAlarm, ShapeRestart DEF Next

LEMMA ShapeAlways == Spec => []Shape
<1>1. Shape /\ [Next]_vars => Shape'
  BY ShapeNext
<1> QED
  BY <1>1, ShapeInit, PTL DEF Spec

\* In every reachable state of every configuration the scheduler's state has
\* its shape: no handler reads a job from an empty FIFO, pops a tenant that is
\* not in #ready or leaves its own places.
THEOREM ShapeInvariant == Spec => []TypeOK /\ []QueueWellFormed
<1>1. Spec => []Shape
  BY ShapeAlways
<1>2. Shape => TypeOK /\ QueueWellFormed
  BY DEF Shape
<1> QED
  BY <1>1, <1>2, PTL

-----------------------------------------------------------------------------
(* The in-flight limits.                                                    *)

\* What a step may do to the ready set.
QueueMove ==
  \/ queue' = queue
  \/ queue' = EmptyQueue
  \/ \E j \in Jobs : queue' = EnqueueReady(queue, j) \/ queue' = DropFromReady(queue, j)
  \/ \E t \in Tenants : queue' = RemoveTenant(queue, t)
  \/ \E i \in DOMAIN queue.order : queue' = TakeAt(queue, i)
  \/ \E S \in SUBSET Jobs : queue' \in PushAll(queue, S)

LEMMA NextMovesQueue == ASSUME Shape, [Next]_vars PROVE QueueMove
<1>1. ASSUME NEW j \in Jobs, EnqueueCall(j) PROVE QueueMove
  BY <1>1 DEF EnqueueCall, Enqueue, EnqueueInit, EnqueueInitDone, EnqueueAccept,
              StartRebuild, memory, Shape, TypeOK, QueueMove
<1>2. CASE LoopStep
  BY <1>2 DEF LoopStep, LoopStop, LoopTake, LoopSkip, LoopStart, QueueMove
<1>3. ASSUME NEW e \in executions, RunStep(e) PROVE QueueMove
  BY <1>3 DEF RunStep, RunOk, RunThrow, RunEnd, QueueMove
<1>4. ASSUME NEW j \in Jobs, TimerFires(j) PROVE QueueMove
  BY <1>4 DEF TimerFires, QueueMove
<1>5. CASE CancelCall
  BY <1>5 DEF CancelCall, CancelJob, CancelDrop, TenantCancelOne, TenantCancelList,
              TenantCancelClear, QueueMove
<1>6. CASE AlarmStep
  <2>1. alarm.found \in SUBSET Jobs
    BY DEF Shape, TypeOK, AlarmState
  <2> QED
    BY <1>6, <2>1 DEF AlarmStep, AlarmFires, AlarmPush, AlarmReclaim, AlarmRebuild,
       AlarmSweep, AlarmBackstop, AlarmFinish, AlarmArm, StartRebuild, QueueMove
<1>7. CASE Tick \/ Restart \/ UNCHANGED vars
  BY <1>7 DEF Tick, Restart, vars, memory, QueueMove
<1> QED
  BY <1>1, <1>2, <1>3, <1>4, <1>5, <1>6, <1>7 DEF Next

LEMMA SortedNext ==
  ASSUME Shape, Sorted(queue), [Next]_vars PROVE Sorted(queue')
<1>1. QueueMove /\ GoodQueue(queue)
  BY NextMovesQueue, ShapeGoodQueue
<1> QED
  BY <1>1, EmptyQueueSorted, EnqueueReadySorted, DropFromReadySorted, TakeAtSorted,
     RemoveTenantSorted, PushAllSorted, SchedulerAssumption DEF QueueMove

\* The claim that the loop awaits was made when there was room for it, and
\* only the loop fills the running set.
Room ==
  loop.at = "waiting" /\ loop.claim # 0
    => /\ Cardinality(running) < InFlightLimit
       /\ Cardinality(RunningOf(TenantOf[loop.job])) < FairCapacityPerTenant

\* FIFOs are needed to be sorted so that the cap that is checked is the cap
\* of the tenant of the job that is taken.
LimitsInv == Shape /\ Sorted(queue) /\ LimitsRespected /\ Room

LEMMA RunningFinite ==
  ASSUME NEW R \in SUBSET Jobs, NEW t
  PROVE  /\ IsFiniteSet(R) /\ Cardinality(R) \in Nat
         /\ IsFiniteSet(JobsOf(R, t)) /\ Cardinality(JobsOf(R, t)) \in Nat
<1>1. IsFiniteSet(R)
  BY SchedulerAssumption, FS_Subset
<1>2. IsFiniteSet(JobsOf(R, t))
  BY <1>1, FS_Subset DEF JobsOf
<1> QED
  BY <1>1, <1>2, FS_CardinalityType

\* Steps that start nothing: the running set shrinks or stays, and no new
\* claim is awaited.
LEMMA LimitsQuiet ==
  ASSUME Shape, LimitsRespected, Room,
         running' \subseteq running,
         loop' = loop \/ loop'.at # "waiting" \/ loop'.claim = 0
  PROVE  LimitsRespected' /\ Room'
<1>1. running \in SUBSET Jobs /\ running' \in SUBSET Jobs
  BY DEF Shape, TypeOK
<1>2. Cardinality(running') <= Cardinality(running)
  BY <1>1, RunningFinite, FS_Subset
<1>3. ASSUME NEW t
      PROVE  Cardinality(JobsOf(running', t)) <= Cardinality(JobsOf(running, t))
  <2>1. JobsOf(running', t) \in SUBSET JobsOf(running, t)
    BY DEF JobsOf
  <2> QED
    BY <1>1, <2>1, RunningFinite, FS_Subset
<1>4. /\ Cardinality(running) \in Nat /\ Cardinality(running') \in Nat
      /\ \A t : /\ Cardinality(JobsOf(running, t)) \in Nat
                /\ Cardinality(JobsOf(running', t)) \in Nat
  BY <1>1, RunningFinite
<1>5. LimitsRespected'
  BY <1>2, <1>3, <1>4, SchedulerAssumption DEF LimitsRespected, RunningOf
<1>6. Room'
  BY <1>2, <1>3, <1>4, SchedulerAssumption DEF Room, RunningOf
<1> QED
  BY <1>5, <1>6

\* The claim is made with a free slot, for a tenant below its cap.
LEMMA LimitsTake == ASSUME LimitsInv, LoopTake PROVE LimitsRespected' /\ Room'
<1> USE DEF LimitsInv
<1>1. PICK i \in DOMAIN queue.order :
        /\ IsNextSlot(queue, Open, i)
        /\ loop'.job = JobAt(queue, i)
  BY DEF LoopTake
<1>2. TenantOf[JobAt(queue, i)] = queue.order[i]
  BY TakeAtSorted, ShapeGoodQueue
<1>3. running' = running /\ HasSlot
  BY DEF LoopTake
<1>4. Cardinality(RunningOf(TenantOf[loop'.job])) < FairCapacityPerTenant
  BY <1>1, <1>2 DEF IsNextSlot, Open
<1>5. LimitsRespected'
  BY <1>3 DEF LimitsRespected, RunningOf
<1>6. Room'
  BY <1>3, <1>4 DEF Room, HasSlot, RunningOf
<1> QED
  BY <1>5, <1>6

\* The job whose claim was awaited takes the room that was left for it.
LEMMA LimitsStart == ASSUME LimitsInv, LoopStart PROVE LimitsRespected' /\ Room'
<1> USE DEF LimitsInv
<1> DEFINE j == loop.job
<1>1. /\ running' = running \cup {j}
      /\ loop'.at # "waiting"
      /\ Cardinality(running) < InFlightLimit
      /\ Cardinality(RunningOf(TenantOf[j])) < FairCapacityPerTenant
      /\ j \in Jobs /\ running \in SUBSET Jobs
  BY DEF LoopStart, LoopTop, Room, Shape, TypeOK, LoopState
<1> HIDE DEF j
<1>2. Cardinality(running') <= InFlightLimit
  <2>1. IsFiniteSet(running) /\ Cardinality(running) \in Nat
    BY <1>1, RunningFinite
  <2>2. Cardinality(running \cup {j}) = IF j \in running THEN Cardinality(running)
                                        ELSE Cardinality(running) + 1
    BY <2>1, FS_AddElement
  <2> QED
    BY <1>1, <2>1, <2>2, SchedulerAssumption
<1>3. ASSUME NEW t \in Tenants
      PROVE  Cardinality(JobsOf(running', t)) <= FairCapacityPerTenant
  <2>1. Cardinality(JobsOf(running, t)) <= FairCapacityPerTenant
    BY DEF LimitsRespected, RunningOf
  <2>2. IsFiniteSet(JobsOf(running, t)) /\ Cardinality(JobsOf(running, t)) \in Nat
    BY <1>1, RunningFinite
  <2>3. CASE TenantOf[j] = t
    <3>1. JobsOf(running', t) = JobsOf(running, t) \cup {j}
      BY <1>1, <2>3 DEF JobsOf
    <3>2. Cardinality(JobsOf(running, t) \cup {j}) =
            IF j \in JobsOf(running, t) THEN Cardinality(JobsOf(running, t))
            ELSE Cardinality(JobsOf(running, t)) + 1
      BY <2>2, FS_AddElement
    <3>3. Cardinality(JobsOf(running, t)) < FairCapacityPerTenant
      BY <1>1, <2>3 DEF RunningOf
    <3> QED
      BY <2>2, <3>1, <3>2, <3>3, SchedulerAssumption
  <2>4. CASE TenantOf[j] # t
    <3>1. JobsOf(running', t) = JobsOf(running, t)
      BY <1>1, <2>4 DEF JobsOf
    <3> QED
      BY <2>1, <3>1
  <2> QED
    BY <2>3, <2>4
<1>4. LimitsRespected'
  BY <1>2, <1>3 DEF LimitsRespected, RunningOf
<1>5. Room'
  BY <1>1 DEF Room
<1> QED
  BY <1>4, <1>5

LEMMA LimitsNext == ASSUME LimitsInv, [Next]_vars PROVE LimitsInv'
<1> USE DEF LimitsInv
<1>1. Shape' /\ Sorted(queue')
  BY ShapeNext, SortedNext
<1>2. Kick => loop' = loop \/ loop'.at # "waiting"
  BY DEF Kick, LoopTop
<1>3. \/ LoopTake \/ LoopStart
      \/ /\ running' \subseteq running
         /\ loop' = loop \/ loop'.at # "waiting" \/ loop'.claim = 0
  <2>1. ASSUME NEW j \in Jobs, EnqueueCall(j) \/ TimerFires(j)
        PROVE  running' = running /\ (loop' = loop \/ loop'.at # "waiting")
    BY <1>2, <2>1 DEF EnqueueCall, Enqueue, EnqueueInit, EnqueueInitDone,
                      EnqueueAccept, TimerFires, memory
  <2>2. CASE LoopStop \/ LoopSkip
    BY <2>2 DEF LoopStop, LoopSkip, LoopIdle, LoopTop
  <2>3. ASSUME NEW e \in executions, RunStep(e)
        PROVE  running' \subseteq running /\ (loop' = loop \/ loop'.at # "waiting")
    BY <1>2, <2>3 DEF RunStep, RunOk, RunThrow, RunEnd
  <2>4. CASE CancelCall
    BY <2>4 DEF CancelCall, CancelJob, CancelDrop, TenantCancelOne, TenantCancelList,
                TenantCancelClear
  <2>5. CASE AlarmStep
    BY <1>2, <2>5 DEF AlarmStep, AlarmFires, AlarmPush, AlarmReclaim, AlarmRebuild,
       AlarmSweep, AlarmBackstop, AlarmFinish, AlarmArm
  <2>6. CASE Tick \/ UNCHANGED vars
    BY <2>6 DEF Tick, vars, memory
  <2>7. CASE Restart
    BY <2>7 DEF Restart, LoopIdle
  <2> QED
    BY <2>1, <2>2, <2>3, <2>4, <2>5, <2>6, <2>7 DEF Next, LoopStep
<1> QED
  BY <1>1, <1>3, LimitsTake, LimitsStart, LimitsQuiet

LEMMA LimitsAlways == Spec => []LimitsInv
<1>1. Init => LimitsInv
  <2> SUFFICES ASSUME Init PROVE LimitsInv
    OBVIOUS
  <2>1. Shape
    BY ShapeInit
  <2>2. Sorted(queue)
    BY EmptyQueueSorted DEF Init
  <2>3. running = {} /\ \A t : JobsOf(running, t) = {}
    BY DEF Init, JobsOf
  <2>4. LimitsRespected
    BY <2>3, FS_EmptySet, SchedulerAssumption DEF LimitsRespected, RunningOf
  <2>5. Room
    BY DEF Init, LoopIdle, Room
  <2> QED
    BY <2>1, <2>2, <2>4, <2>5 DEF LimitsInv
<1> QED
  BY <1>1, LimitsNext, PTL DEF Spec

\* Checking the limits before the await of the claim is enough, for any
\* number of tenants and any interleaving with the other handlers: the
\* running set never outgrows inFlightLimit, nor a tenant's part of it
\* fairCapacityPerTenant (dispatcher.ts 195-222).
THEOREM LimitsInvariant == Spec => []LimitsRespected
<1>1. LimitsInv => LimitsRespected
  BY DEF LimitsInv
<1> QED
  BY <1>1, LimitsAlways, PTL

\* Where a tenant stands in a well-formed order.
LEMMA PositionFacts ==
  ASSUME NEW q, GoodQueue(q), NEW k \in DOMAIN q.order
  PROVE  Position(q.order, q.order[k]) = k
<1>1. \A m \in DOMAIN q.order : q.order[m] = q.order[k] => m = k
  BY DEF GoodQueue, WellFormed
<1> QED
  BY <1>1 DEF Position

\* The next slot is the first one below its cap, so a tenant with room stands
\* behind it, and everyone behind the tenant served moves forward.
LEMMA RotationStep ==
  ASSUME LimitsInv, [Next]_vars, NEW t \in Tenants, NEW u \in Tenants,
         Takes(u), t # u, t \in Open, queue.ready[t] # <<>>
  PROVE  Position(queue'.order, t) < Position(queue.order, t)
<1>1. GoodQueue(queue) /\ Sorted(queue) /\ GoodQueue(queue')
  BY ShapeNext, ShapeGoodQueue DEF LimitsInv, Shape, TypeOK, QueueWellFormed, GoodQueue
<1>2. LoopTake
  BY DEF Takes, Next, LoopYields, LoopStep, LoopStop, LoopIdle, LoopSkip, LoopStart, vars,
            memory
<1>3. PICK i \in DOMAIN queue.order :
        /\ IsNextSlot(queue, Open, i)
        /\ queue' = TakeAt(queue, i)
        /\ loop'.job = JobAt(queue, i)
  BY <1>2 DEF LoopTake
<1>4. queue.order[i] = u
  BY <1>1, <1>3, TakeAtSorted DEF Takes
<1>5. PICK k \in DOMAIN queue.order : queue.order[k] = t
  BY <1>1 DEF GoodQueue, WellFormed
<1>6. i \in Nat /\ k \in Nat /\ i < k /\ i >= 1
  <2>1. i \in 1 .. Len(queue.order) /\ k \in 1 .. Len(queue.order) /\ Len(queue.order) \in Nat
    BY <1>1, GoodQueueOrder
  <2>2. k # i /\ ~ (k \in 1 .. (i - 1))
    BY <1>3, <1>4, <1>5 DEF IsNextSlot
  <2> QED
    BY <2>1, <2>2
<1>7. k - i \in DOMAIN queue'.order /\ queue'.order[k - i] = t
  BY <1>1, <1>3, <1>5, <1>6, TakeAtShifts
<1>8. Position(queue.order, t) = k /\ Position(queue'.order, t) = k - i
  BY <1>1, <1>5, <1>7, PositionFacts
<1> QED
  BY <1>6, <1>8

\* Round robin for any number of tenants: whoever has a job ready and room
\* under its cap is passed over at most once by each other tenant, whatever
\* rebuilds, enqueues and cancels reorder in between (dispatcher.ts 306-328).
THEOREM RotationTheorem == Spec => RotationIsFair
<1> DEFINE Fair == \A t, u \in Tenants :
             (Takes(u) /\ t # u /\ t \in Open /\ queue.ready[t] # <<>>)
             => Position(queue'.order, t) < Position(queue.order, t)
<1>1. LimitsInv /\ [Next]_vars => [Fair]_vars
  BY RotationStep
<1> QED
  BY <1>1, LimitsAlways, PTL DEF Spec, RotationIsFair

-----------------------------------------------------------------------------
(* What becomes of the jobs.                                                *)


\* What a step may do to the job table.  Only an execution whose function has
\* just settled acknowledges or fails a row, and a claim or a reclaim that goes
\* over an expired lease is noted in `lapsed`.
RowsMove ==
  \/ rows' = rows
  \/ \E j \in Jobs :
       \/ /\ calls[j] \in {"none", "init"} /\ calls'[j] = "stored"
          /\ rows' = Insert(rows, j)
       \/ /\ Claimable(rows, j, now) /\ rows' = Claim(rows, j, now)
          /\ LeaseExpired(rows[j], now) => j \in lapsed'
       \/ rows' = FailQueued(rows, j)
       \/ rows' = Cancel(rows, j)
  \/ \E e \in executions :
       /\ e.phase = "running" /\ e \notin executions'
       /\ rows' = Ack(rows, e.job, now) \/ rows' = Fail(rows, e.job)
  \/ rows' = ReclaimExpiredLeases(rows, now) /\ ExpiredLeases(rows, now) \subseteq lapsed'
  \/ \E n \in Nat : rows' = SweepExpired(rows, n)

LEMMA NextMovesRows == ASSUME Shape, [Next]_vars PROVE RowsMove
<1>1. ASSUME NEW j \in Jobs, EnqueueCall(j) PROVE RowsMove
  <2>1. ASSUME NEW q, Admit(j, q), calls[j] \in {"none", "init"} PROVE RowsMove
    BY <2>1 DEF Admit, RowsMove, Shape, TypeOK
  <2> QED
    BY <1>1, <2>1 DEF EnqueueCall, Enqueue, EnqueueInit, EnqueueInitDone,
                      EnqueueAccept, RowsMove
<1>2. CASE LoopTake
  <2>1. PICK i \in DOMAIN queue.order :
          LET j == JobAt(queue, i)
              late == PastDeadline(j)
              won == ~ late /\ Claimable(rows, j, now)
          IN /\ rows' = IF late THEN FailQueued(rows, j)
                        ELSE IF won THEN Claim(rows, j, now)
                        ELSE rows
             /\ won /\ LeaseExpired(rows[j], now) => j \in lapsed'
    BY <1>2 DEF LoopTake
  <2>2. JobAt(queue, i) \in Jobs
    BY TakeAtGood, ShapeGoodQueue
  <2> QED
    BY <2>1, <2>2 DEF RowsMove
<1>3. CASE LoopStop \/ LoopSkip \/ LoopStart
  BY <1>3 DEF LoopStop, LoopSkip, LoopStart, RowsMove
<1>4. ASSUME NEW e \in executions, RunStep(e) PROVE RowsMove
  <2>1. e \in Execution
    BY DEF Shape, TypeOK
  <2>2. ASSUME NEW phase \in {"settled", "retrying"}, Settle(e, phase), e.phase = "running"
        PROVE  e \notin executions'
    BY <2>1, <2>2 DEF Settle, Execution
  <2> QED
    BY <1>4, <2>2 DEF RunStep, RunOk, RunThrow, RunEnd, RowsMove
<1>5. ASSUME NEW j \in Jobs, TimerFires(j) PROVE RowsMove
  BY <1>5 DEF TimerFires, RowsMove
<1>6. CASE CancelCall
  BY <1>6 DEF CancelCall, CancelJob, CancelDrop, TenantCancelOne, TenantCancelList,
              TenantCancelClear, RowsMove
<1>7. CASE AlarmStep
  <2>1. alarm.since \in Nat
    BY DEF Shape, TypeOK, AlarmState
  <2>2. AlarmReclaim => RowsMove
    BY DEF AlarmReclaim, RowsMove
  <2> QED
    BY <1>7, <2>1, <2>2 DEF AlarmStep, AlarmFires, AlarmPush, AlarmReclaim, AlarmRebuild,
       AlarmSweep, AlarmBackstop, AlarmFinish, AlarmArm, RowsMove
<1>8. CASE Tick \/ Restart \/ UNCHANGED vars
  BY <1>8 DEF Tick, Restart, vars, RowsMove
<1> QED
  BY <1>1, <1>2, <1>3, <1>4, <1>5, <1>6, <1>7, <1>8 DEF Next, LoopStep

-----------------------------------------------------------------------------
(* The refinement of JobLifecycle.                                          *)

\* An absent row has the columns of a new one, and the row of a job whose
\* enqueue call has not reached the store is absent: an INSERT never meets a
\* row of the same id.
NewRows ==
  \A j \in Jobs :
    /\ rows[j].status = "absent" => rows[j].retryCount = 0
    /\ calls[j] \in {"none", "init"} => rows[j].status = "absent"

LEMMA NewRowsNext == ASSUME Shape, NewRows, [Next]_vars PROVE NewRows'
<1>1. rows \in [Jobs -> Row] /\ Shape'
  BY ShapeNext DEF Shape, TypeOK
<1>2. RowsMove
  BY NextMovesRows
<1>3. ASSUME NEW j \in Jobs, calls'[j] \in {"none", "init"}
      PROVE  calls[j] \in {"none", "init"}
  BY <1>3 DEF Next, vars, memory, EnqueueCall, Enqueue, EnqueueInit, EnqueueInitDone,
     EnqueueAccept, Admit, LoopStep, LoopStop, LoopTake, LoopSkip, LoopStart, RunStep,
     RunOk, RunThrow, RunEnd, TimerFires, CancelCall, CancelJob, CancelDrop,
     TenantCancelOne, TenantCancelList, TenantCancelClear, AlarmStep, AlarmFires,
     AlarmPush, AlarmReclaim, AlarmRebuild, AlarmSweep, AlarmBackstop, AlarmFinish, AlarmArm,
     Tick, Restart, Shape, TypeOK
<1> DEFINE Kept == \A j \in Jobs :
     /\ rows[j].status = "absent" =>
          \/ rows'[j].status = "absent" /\ rows'[j].retryCount = rows[j].retryCount
          \/ calls'[j] = "stored"
     /\ rows'[j].status = "absent" => rows'[j].retryCount = 0
<1>4. ASSUME NEW k \in Jobs, calls'[k] = "stored", rows' = Insert(rows, k) PROVE Kept
  BY <1>1, <1>4 DEF Insert, NoRow, Row, NewRows
<1>5. ASSUME NEW k \in Jobs, Claimable(rows, k, now), rows' = Claim(rows, k, now) PROVE Kept
  BY <1>1, <1>5 DEF Claimable, LeaseExpired, Claim, Row, NewRows
<1>6. ASSUME NEW k \in Jobs, rows' = Ack(rows, k, now) PROVE Kept
  BY <1>1, <1>6 DEF Ack, Row, NewRows
<1>7. ASSUME NEW k \in Jobs, rows' = Fail(rows, k) PROVE Kept
  BY <1>1, <1>7 DEF Fail, Row, NewRows
<1>8. ASSUME NEW k \in Jobs, rows' = FailQueued(rows, k) PROVE Kept
  BY <1>1, <1>8 DEF FailQueued, Row, NewRows
<1>9. ASSUME NEW k \in Jobs, rows' = Cancel(rows, k) PROVE Kept
  BY <1>1, <1>9 DEF Cancel, Active, Row, NewRows
<1>10. ASSUME rows' = ReclaimExpiredLeases(rows, now) PROVE Kept
  <2>1. ASSUME NEW j \in Jobs
        PROVE  \/ rows'[j] = rows[j]
               \/ /\ rows[j].status = "leased"
                  /\ rows'[j] = [rows[j] EXCEPT !.status = "queued", !.leaseExpires = 0]
    BY <1>10 DEF ReclaimExpiredLeases, LeaseExpired
  <2>2. \A j \in Jobs : rows[j] \in Row
    BY <1>1
  <2> QED
    BY <2>1, <2>2 DEF Row, NewRows
<1>11. ASSUME NEW n \in Nat, rows' = SweepExpired(rows, n) PROVE Kept
  BY <1>1, <1>11 DEF SweepExpired, NoRow, Row, NewRows
<1>12. ASSUME rows' = rows PROVE Kept
  BY <1>12 DEF NewRows
<1> HIDE DEF Kept
<1>13. Kept
  <2>1. \A e \in executions : e.job \in Jobs
    BY DEF Shape, TypeOK, Execution
  <2> QED
    BY <1>2, <1>4, <1>5, <1>6, <1>7, <1>8, <1>9, <1>10, <1>11, <1>12, <2>1 DEF RowsMove
<1> QED
  BY <1>3, <1>13 DEF NewRows, Kept

LEMMA NewRowsInit == Init => NewRows
<1> SUFFICES ASSUME Init, NEW j \in Jobs
             PROVE  rows[j].status = "absent" /\ rows[j].retryCount = 0
  BY DEF NewRows
<1>1. rows[j] = NoRow
  BY DEF Init
<1> QED
  BY <1>1 DEF NoRow

\* A step that changes at most the row of k, seen through the refinement mapping.
LEMMA OneRow ==
  ASSUME rows \in [Jobs -> Row], rows' \in [Jobs -> Row], NEW k \in Jobs,
         \A j \in Jobs \ {k} : rows'[j] = rows[j]
  PROVE  /\ [j \in Jobs |-> rows[j].status]'
              = [[j \in Jobs |-> rows[j].status] EXCEPT ![k] = rows'[k].status]
         /\ [j \in Jobs |-> rows[j].retryCount]'
              = [[j \in Jobs |-> rows[j].retryCount] EXCEPT ![k] = rows'[k].retryCount]
<1> DEFINE S == [j \in Jobs |-> rows[j].status]
           A == [j \in Jobs |-> rows[j].retryCount]
<1>1. \A j \in Jobs : S'[j] = [S EXCEPT ![k] = rows'[k].status][j]
  OBVIOUS
<1>2. \A j \in Jobs : A'[j] = [A EXCEPT ![k] = rows'[k].retryCount][j]
  OBVIOUS
<1>3. S' = [S EXCEPT ![k] = rows'[k].status]
  BY <1>1
<1>4. A' = [A EXCEPT ![k] = rows'[k].retryCount]
  BY <1>2
<1> QED
  BY <1>3, <1>4

\* Every step of the scheduler is a step of JobLifecycle or leaves it alone.
LEMMA LifeStep ==
  ASSUME Shape, NewRows, [Next]_vars PROVE [Life!LifeNext]_(Life!lifeVars)
<1> DEFINE S == [j \in Jobs |-> rows[j].status]
           A == [j \in Jobs |-> rows[j].retryCount]
           Moves == [Life!LifeNext]_(Life!lifeVars)
<1>1. rows \in [Jobs -> Row] /\ rows' \in [Jobs -> Row]
  BY ShapeNext DEF Shape, TypeOK
<1>2. RowsMove
  BY NextMovesRows
<1>3. ASSUME NEW k \in Jobs, NEW s, NEW n,
             rows' = [rows EXCEPT ![k] = rows'[k]],
             rows'[k].status = s, rows'[k].retryCount = n
      PROVE  S' = [S EXCEPT ![k] = s] /\ A' = [A EXCEPT ![k] = n]
  BY <1>1, <1>3, OneRow
<1>4. ASSUME rows' = rows PROVE Moves
  BY <1>4 DEF Life!lifeVars
<1>5. ASSUME NEW k \in Jobs, calls[k] \in {"none", "init"}, rows' = Insert(rows, k)
      PROVE  Moves
  <2>1. CASE ~ KeyTaken(rows, k)
    <3>1. rows[k].status = "absent" /\ rows[k].retryCount = 0
      BY <1>5 DEF NewRows
    <3>2. rows' = [rows EXCEPT ![k] = rows'[k]] /\ rows'[k].status = "queued"
          /\ rows'[k].retryCount = 0
      BY <1>1, <1>5, <2>1 DEF Insert, NoRow
    <3>3. S' = [S EXCEPT ![k] = "queued"] /\ A' = [A EXCEPT ![k] = 0]
      BY <1>3, <3>2
    <3>4. [A EXCEPT ![k] = 0] = A
      BY <3>1
    <3> QED
      BY <3>1, <3>3, <3>4 DEF Life!LifeNext, Life!Submit, Life!Move
  <2> QED
    BY <1>4, <1>5, <2>1 DEF Insert
<1>6. ASSUME NEW k \in Jobs, Claimable(rows, k, now), rows' = Claim(rows, k, now)
      PROVE  Moves
  <2>1. rows' = [rows EXCEPT ![k] = rows'[k]] /\ rows'[k].status = "leased"
        /\ rows'[k].retryCount = rows[k].retryCount
    BY <1>1, <1>6 DEF Claim, Row
  <2>2. S' = [S EXCEPT ![k] = "leased"] /\ A' = A
    BY <1>1, <1>3, <2>1
  <2>3. CASE rows[k].status = "queued"
    BY <2>2, <2>3 DEF Life!LifeNext, Life!Lease, Life!Move
  <2>4. CASE rows[k].status = "leased"
    BY <2>2, <2>4 DEF Life!lifeVars
  <2> QED
    BY <1>6, <2>3, <2>4 DEF Claimable, LeaseExpired
<1>7. ASSUME NEW k \in Jobs, rows' = Ack(rows, k, now) PROVE Moves
  <2>1. CASE rows[k].status = "leased"
    <3>1. rows' = [rows EXCEPT ![k] = rows'[k]] /\ rows'[k].status = "done"
          /\ rows'[k].retryCount = rows[k].retryCount
      BY <1>1, <1>7, <2>1 DEF Ack, Row
    <3>2. S' = [S EXCEPT ![k] = "done"] /\ A' = A
      BY <1>1, <1>3, <3>1
    <3> QED
      BY <2>1, <3>2 DEF Life!LifeNext, Life!Complete, Life!Move
  <2> QED
    BY <1>4, <1>7, <2>1 DEF Ack
<1>8. ASSUME NEW k \in Jobs, rows' = Fail(rows, k) PROVE Moves
  <2> DEFINE n == rows[k].retryCount + 1
             s == IF AttemptsSpent(rows, k) THEN "failed" ELSE "queued"
  <2>1. CASE rows[k].status = "leased"
    <3>1. rows' = [rows EXCEPT ![k] = rows'[k]] /\ rows'[k].status = s
          /\ rows'[k].retryCount = n
      BY <1>1, <1>8, <2>1 DEF Fail, Row
    <3>2. S' = [S EXCEPT ![k] = s] /\ A' = [A EXCEPT ![k] = n]
      BY <1>3, <3>1
    <3>3. CASE AttemptsSpent(rows, k)
      BY <2>1, <3>2, <3>3 DEF Life!LifeNext, Life!GiveUp, Life!Move, AttemptsSpent
    <3>4. CASE ~ AttemptsSpent(rows, k)
      <4>1. n < RetryMax[k]
        BY <1>1, <3>4, JobAssumption DEF AttemptsSpent, Row
      <4> QED
        BY <2>1, <3>2, <3>4, <4>1 DEF Life!LifeNext, Life!Retry, Life!Move
    <3> QED
      BY <3>3, <3>4
  <2> QED
    BY <1>4, <1>8, <2>1 DEF Fail
<1>9. ASSUME NEW k \in Jobs, rows' = FailQueued(rows, k) PROVE Moves
  <2>1. CASE rows[k].status = "queued"
    <3>1. rows' = [rows EXCEPT ![k] = rows'[k]] /\ rows'[k].status = "failed"
          /\ rows'[k].retryCount = RetryMax[k]
      BY <1>1, <1>9, <2>1 DEF FailQueued, Row
    <3> QED
      BY <1>3, <2>1, <3>1 DEF Life!LifeNext, Life!Expire, Life!Move
  <2> QED
    BY <1>4, <1>9, <2>1 DEF FailQueued
<1>10. ASSUME NEW k \in Jobs, rows' = Cancel(rows, k) PROVE Moves
  <2>1. CASE Active(rows, k)
    <3>1. rows' = [rows EXCEPT ![k] = rows'[k]] /\ rows'[k].status = "cancelled"
          /\ rows'[k].retryCount = rows[k].retryCount
      BY <1>1, <1>10, <2>1 DEF Cancel, Row
    <3>2. S' = [S EXCEPT ![k] = "cancelled"] /\ A' = A
      BY <1>1, <1>3, <3>1
    <3> QED
      BY <2>1, <3>2 DEF Life!LifeNext, Life!CancelOne, Life!Move, Active
  <2> QED
    BY <1>4, <1>10, <2>1 DEF Cancel
<1>11. ASSUME rows' = ReclaimExpiredLeases(rows, now) PROVE Moves
  <2> DEFINE X == ExpiredLeases(rows, now)
  <2>1. \A j \in Jobs :
          /\ rows'[j].status = IF j \in X THEN "queued" ELSE rows[j].status
          /\ rows'[j].retryCount = rows[j].retryCount
          /\ j \in X => rows[j].status = "leased"
    BY <1>1, <1>11 DEF ReclaimExpiredLeases, ExpiredLeases, LeaseExpired, Row
  <2>2. X \in SUBSET Jobs
    BY DEF ExpiredLeases
  <2> QED
    BY <2>1, <2>2 DEF Life!LifeNext, Life!Release
<1>12. ASSUME NEW n \in Nat, rows' = SweepExpired(rows, n) PROVE Moves
  <2> DEFINE X == {j \in Jobs : rows[j].status = "done" /\ rows[j].resultExpires < n}
  <2>1. \A j \in Jobs :
          /\ rows'[j].status = IF j \in X THEN "absent" ELSE rows[j].status
          /\ rows'[j].retryCount = IF j \in X THEN 0 ELSE rows[j].retryCount
          /\ j \in X => rows[j].status = "done"
    BY <1>12 DEF SweepExpired, NoRow
  <2>2. X \in SUBSET Jobs
    OBVIOUS
  <2> QED
    BY <2>1, <2>2 DEF Life!LifeNext, Life!Forget
<1> HIDE DEF Moves
<1>13. \A e \in executions : e.job \in Jobs
  BY DEF Shape, TypeOK, Execution
<1> QED
  BY <1>2, <1>4, <1>5, <1>6, <1>7, <1>8, <1>9, <1>10, <1>11, <1>12, <1>13 DEF RowsMove, Moves

\* The scheduler implements JobLifecycle.  Whatever interleaves, crashes or
\* runs twice, a row follows the life of a job, and the attempts it counts
\* decide between a retry and failure.
THEOREM LifecycleRefinement == Spec => ImplementsLifecycle
<1>1. Init => Life!LifeInit
  BY DEF Init, NoRow, Life!LifeInit
<1>2. Spec => []NewRows
  <2>1. Shape /\ NewRows /\ [Next]_vars => NewRows'
    BY NewRowsNext
  <2> QED
    BY <2>1, NewRowsInit, ShapeAlways, PTL DEF Spec
<1>3. Shape /\ NewRows /\ [Next]_vars => [Life!LifeNext]_(Life!lifeVars)
  BY LifeStep
<1> QED
  BY <1>1, <1>2, <1>3, ShapeAlways, PTL DEF Spec, ImplementsLifecycle, Life!LifeSpec
-----------------------------------------------------------------------------
(* Memory forgets no queued job.                                            *)

\* NoQueuedJobForgotten is inductive together with: a job whose ready entry
\* is still to be dropped is cancelled for good, and the alarm handler holds
\* rows only between reading them and pushing them.
Remembered ==
  /\ Shape
  /\ NewRows
  /\ NoQueuedJobForgotten
  /\ \A j \in dropping : rows[j].status = "cancelled"
  /\ alarm.at \notin {"initPush", "push", "refill"} => alarm.found = {}
  /\ tenantCancel = NoTenantCancel

\* What a step must not touch for a tracked job to stay tracked.
LEMMA StillTracked ==
  ASSUME NEW j \in Jobs, Tracked(j),
         InReady(queue, j) => InReady(queue', j),
         timers[j] > 0 => timers'[j] > 0,
         \A e \in executions : e.phase = "retrying" => e \in executions',
         calls[j] = "stored" => calls'[j] = "stored",
         boot' = boot, alarm.found \subseteq alarm'.found,
         alarm.at = "rebuild" => alarm'.at = "rebuild",
         initialized' = initialized
  PROVE  Tracked(j)'
BY DEF Tracked

LEMMA RememberEnqueue ==
  ASSUME Remembered, NEW k \in Jobs, EnqueueCall(k) PROVE NoQueuedJobForgotten'
<1> SUFFICES ASSUME NEW j \in Jobs, rows'[j].status = "queued" PROVE Tracked(j)'
  BY DEF NoQueuedJobForgotten
<1>6. GoodQueue(queue) /\ boot \in SUBSET Jobs
      /\ calls = [i \in Jobs |-> calls[i]]
      /\ rows \in [Jobs -> Row]
  BY ShapeGoodQueue DEF Remembered, Shape, TypeOK
<1>1. ASSUME NEW q, Admit(k, q), calls[k] \in {"none", "init"}
      PROVE  \/ calls'[j] = "stored"
             \/ rows[j].status = "queued" /\ (calls[j] = "stored" => calls'[j] = "stored")
  BY <1>6, <1>1 DEF Admit, Insert
<1>2. CASE Enqueue(k)
  <2>1. CASE calls'[j] = "stored"
    BY <2>1 DEF Tracked
  <2>2. CASE rows[j].status = "queued" /\ (calls[j] = "stored" => calls'[j] = "stored")
    <3>1. Tracked(j)
      BY <2>2 DEF Remembered, NoQueuedJobForgotten
    <3> QED
      BY <1>2, <2>2, <3>1, StillTracked DEF Enqueue, memory
  <2> QED
    BY <1>1, <1>2, <2>1, <2>2 DEF Enqueue
<1>3. CASE EnqueueInit(k)
  BY <1>3 DEF EnqueueInit, Tracked, Queued, Having
<1>4. CASE EnqueueInitDone(k)
  <2>1. PICK q \in PushAll(queue, boot) : queue' = q /\ Admit(k, q)
    BY <1>4 DEF EnqueueInitDone
  <2>2. CASE calls'[j] = "stored"
    BY <2>2 DEF Tracked
  <2>3. CASE rows[j].status = "queued" /\ (calls[j] = "stored" => calls'[j] = "stored")
    <3>1. Tracked(j)
      BY <2>3 DEF Remembered, NoQueuedJobForgotten
    <3>2. (j \in boot => InReady(queue', j)) /\ (InReady(queue, j) => InReady(queue', j))
      BY <1>6, <2>1, PushAllGood, SchedulerAssumption
    <3> QED
      BY <1>4, <2>3, <3>1, <3>2 DEF EnqueueInitDone, Tracked
  <2> QED
    BY <1>1, <1>4, <2>1, <2>2, <2>3 DEF EnqueueInitDone
<1>5. CASE EnqueueAccept(k)
  <2>1. InReady(queue', k) /\ (InReady(queue, j) => InReady(queue', j))
    BY <1>6, <1>5, EnqueueReadyKeeps DEF EnqueueAccept
  <2>2. Tracked(j)
    BY <1>5 DEF EnqueueAccept, Remembered, NoQueuedJobForgotten
  <2>3. CASE j = k
    BY <2>1, <2>3 DEF Tracked
  <2>4. CASE j # k
    BY <1>6, <1>5, <2>1, <2>2, <2>4, StillTracked DEF EnqueueAccept
  <2> QED
    BY <2>3, <2>4
<1> QED
  BY <1>2, <1>3, <1>4, <1>5 DEF EnqueueCall

\* The loop takes an entry out of the ready set only to fail the job or to
\* claim it: with deadlines in the future of 0 no claim is refused to a queued
\* job the loop did not find late.
LEMMA RememberLoop ==
  ASSUME Remembered, LoopStep, \A j \in Jobs : Deadline[j] > 0
  PROVE  NoQueuedJobForgotten'
<1> SUFFICES ASSUME NEW j \in Jobs, rows'[j].status = "queued" PROVE Tracked(j)'
  BY DEF NoQueuedJobForgotten
<1>1. GoodQueue(queue) /\ now \in Nat /\ rows \in [Jobs -> Row]
  BY ShapeGoodQueue DEF Remembered, Shape, TypeOK
<1>2. CASE LoopTake
  <2>1. PICK i \in DOMAIN queue.order :
          /\ queue' = TakeAt(queue, i)
          /\ LET k == JobAt(queue, i)
                 late == PastDeadline(k)
                 won == ~ late /\ Claimable(rows, k, now)
             IN rows' = IF late THEN FailQueued(rows, k)
                        ELSE IF won THEN Claim(rows, k, now)
                        ELSE rows
    BY <1>2 DEF LoopTake
  <2> DEFINE k == JobAt(queue, i)
  <2>2. k \in Jobs
    BY <1>1, TakeAtGood
  <2>3. j # k
    <3>1. CASE PastDeadline(k)
      BY <1>1, <2>1, <2>2, <3>1 DEF FailQueued, Row
    <3>2. CASE ~ PastDeadline(k) /\ Claimable(rows, k, now)
      BY <1>1, <2>1, <2>2, <3>2 DEF Claim, Row
    <3>3. CASE ~ PastDeadline(k) /\ ~ Claimable(rows, k, now)
      <4>1. Deadline[k] > now
        BY <1>1, <2>2, <3>3, JobAssumption DEF PastDeadline
      <4> QED
        BY <2>1, <3>3, <4>1 DEF Claimable
    <3> QED
      BY <3>1, <3>2, <3>3
  <2>4. rows[j].status = "queued"
    BY <1>1, <2>1, <2>2, <2>3 DEF FailQueued, Claim
  <2>5. Tracked(j)
    BY <2>4 DEF Remembered, NoQueuedJobForgotten
  <2>6. InReady(queue, j) => InReady(queue', j)
    BY <1>1, <2>1, <2>3, TakeAtKeeps
  <2> QED
    BY <1>2, <2>5, <2>6, StillTracked DEF LoopTake
<1>3. CASE LoopStop \/ LoopSkip \/ LoopStart
  <2>1. Tracked(j)
    BY <1>3 DEF LoopStop, LoopSkip, LoopStart, Remembered, NoQueuedJobForgotten
  <2>2. queue' = queue /\ timers' = timers /\ executions \subseteq executions'
        /\ calls' = calls /\ boot' = boot /\ alarm' = alarm /\ initialized' = initialized
    BY <1>3 DEF LoopStop, LoopSkip, LoopStart
  <2> QED
    BY <2>1, <2>2, StillTracked
<1> QED
  BY <1>2, <1>3 DEF LoopStep

LEMMA RememberRun ==
  ASSUME Remembered, NEW e \in executions, RunStep(e) PROVE NoQueuedJobForgotten'
<1> SUFFICES ASSUME NEW j \in Jobs, rows'[j].status = "queued" PROVE Tracked(j)'
  BY DEF NoQueuedJobForgotten
<1>1. e \in Execution /\ rows \in [Jobs -> Row] /\ timers \in [Jobs -> Nat]
  BY DEF Remembered, Shape, TypeOK
<1>2. CASE RunOk(e)
  <2>1. rows[j].status = "queued"
    BY <1>1, <1>2 DEF RunOk, Ack, Execution, Row
  <2>2. Tracked(j)
    BY <2>1 DEF Remembered, NoQueuedJobForgotten
  <2>3. \A f \in executions : f.phase = "retrying" => f \in executions'
    BY <1>2 DEF RunOk, Settle
  <2> QED
    BY <1>2, <2>2, <2>3, StillTracked DEF RunOk
<1>3. CASE RunThrow(e)
  <2>1. \A f \in executions : f.phase = "retrying" => f \in executions'
    BY <1>3 DEF RunThrow, Settle
  <2>2. CASE rows[j].status = "queued"
    <3>1. Tracked(j)
      BY <2>2 DEF Remembered, NoQueuedJobForgotten
    <3> QED
      BY <1>3, <2>1, <3>1, StillTracked DEF RunThrow
  <2>3. CASE rows[j].status # "queued"
    <3>1. j = e.job /\ rows[e.job].status = "leased" /\ ~ AttemptsSpent(rows, e.job)
      BY <1>1, <1>3, <2>3 DEF RunThrow, Fail, Execution, Row
    <3>2. [e EXCEPT !.phase = "retrying"] \in executions'
      BY <1>3, <3>1 DEF RunThrow, Settle
    <3>3. [e EXCEPT !.phase = "retrying"].job = j
          /\ [e EXCEPT !.phase = "retrying"].phase = "retrying"
      BY <1>1, <3>1 DEF Execution
    <3> QED
      BY <3>2, <3>3 DEF Tracked
  <2> QED
    BY <2>2, <2>3
<1>4. CASE RunEnd(e)
  <2>1. Tracked(j)
    BY <1>4 DEF RunEnd, Remembered, NoQueuedJobForgotten
  <2>2. timers[j] > 0 => timers'[j] > 0
    BY <1>1, <1>4 DEF RunEnd, Execution
  <2>3. CASE e.job = j /\ e.phase = "retrying"
    <3>1. timers'[j] > 0
      BY <1>1, <1>4, <2>3 DEF RunEnd, Execution
    <3> QED
      BY <3>1 DEF Tracked
  <2>4. CASE ~ (e.job = j /\ e.phase = "retrying")
    <3>1. \A f \in executions : f.job = j /\ f.phase = "retrying" => f \in executions'
      BY <1>4, <2>4 DEF RunEnd
    <3>2. UNCHANGED <<queue, calls, boot, alarm, initialized>>
      BY <1>4 DEF RunEnd
    <3> QED
      BY <2>1, <2>2, <3>1, <3>2 DEF Tracked
  <2> QED
    BY <2>3, <2>4
<1> QED
  BY <1>2, <1>3, <1>4 DEF RunStep

LEMMA RememberTimerCancel ==
  ASSUME Remembered, MaxTenantCancels = 0,
         (\E k \in Jobs : TimerFires(k)) \/ CancelCall
  PROVE  NoQueuedJobForgotten'
<1> SUFFICES ASSUME NEW j \in Jobs, rows'[j].status = "queued" PROVE Tracked(j)'
  BY DEF NoQueuedJobForgotten
<1>1. GoodQueue(queue) /\ rows \in [Jobs -> Row] /\ timers \in [Jobs -> Nat]
      /\ tenantCancels \in Nat
  BY ShapeGoodQueue DEF Remembered, Shape, TypeOK
<1>2. ASSUME NEW k \in Jobs, TimerFires(k) PROVE Tracked(j)'
  <2>1. InReady(queue', k) /\ (InReady(queue, j) => InReady(queue', j))
    BY <1>1, <1>2, EnqueueReadyKeeps DEF TimerFires
  <2>2. Tracked(j)
    BY <1>2 DEF TimerFires, Remembered, NoQueuedJobForgotten
  <2>3. CASE j = k
    BY <2>1, <2>3 DEF Tracked
  <2>4. CASE j # k
    BY <1>1, <1>2, <2>1, <2>2, <2>4, StillTracked DEF TimerFires
  <2> QED
    BY <2>3, <2>4
<1>3. ASSUME NEW k \in Jobs, CancelJob(k) PROVE Tracked(j)'
  <2>1. rows[j].status = "queued"
    BY <1>1, <1>3 DEF CancelJob, Cancel, Row
  <2>2. Tracked(j)
    BY <2>1 DEF Remembered, NoQueuedJobForgotten
  <2> QED
    BY <1>3, <2>2, StillTracked DEF CancelJob
<1>4. ASSUME NEW k \in Jobs, CancelDrop(k) PROVE Tracked(j)'
  <2>1. j # k
    BY <1>4 DEF CancelDrop, Remembered
  <2>2. Tracked(j)
    BY <1>4 DEF CancelDrop, Remembered, NoQueuedJobForgotten
  <2>3. InReady(queue, j) => InReady(queue', j)
    BY <1>1, <1>4, <2>1, DropFromReadyKeeps DEF CancelDrop
  <2> QED
    BY <1>4, <2>2, <2>3, StillTracked DEF CancelDrop
<1>5. ASSUME NEW k \in Jobs PROVE ~ TenantCancelOne(k)
  BY DEF TenantCancelOne, Remembered, NoTenantCancel
<1>6. ASSUME NEW t \in Tenants PROVE ~ TenantCancelList(t) /\ ~ TenantCancelClear(t)
  BY <1>1 DEF TenantCancelList, TenantCancelClear, Remembered, NoTenantCancel
<1> QED
  BY <1>2, <1>3, <1>4, <1>5, <1>6 DEF CancelCall
LEMMA RememberAlarm ==
  ASSUME Remembered, AlarmStep PROVE NoQueuedJobForgotten'
<1> SUFFICES ASSUME NEW j \in Jobs, rows'[j].status = "queued" PROVE Tracked(j)'
  BY DEF NoQueuedJobForgotten
<1>1. GoodQueue(queue) /\ rows \in [Jobs -> Row] /\ alarm \in AlarmState
  BY ShapeGoodQueue DEF Remembered, Shape, TypeOK
<1>2. rows[j].status = "queued" => Tracked(j)
  BY DEF Remembered, NoQueuedJobForgotten
<1>3. j \in Queued(rows) <=> rows[j].status = "queued"
  BY DEF Queued, Having
<1>4. CASE AlarmFires
  <2>1. CASE initialized
    <3>1. alarm'.found = alarm.found /\ alarm.at = "off"
      BY <1>1, <1>4, <2>1 DEF AlarmFires, AlarmGoes, AlarmState
    <3> QED
      BY <1>2, <1>4, <2>1, <3>1 DEF AlarmFires, Tracked
  <2>2. CASE ~ initialized
    <3>1. j \in alarm'.found
      BY <1>1, <1>3, <1>4, <2>2 DEF AlarmFires, AlarmState
    <3> QED
      BY <3>1 DEF Tracked
  <2> QED
    BY <2>1, <2>2
<1>5. ASSUME NEW from, NEW to, AlarmPush(from, to), from # "rebuild" PROVE Tracked(j)'
  <2>1. PICK q \in PushAll(queue, alarm.found) : queue' = q
    BY <1>5 DEF AlarmPush
  <2>2. (j \in alarm.found => InReady(queue', j)) /\ (InReady(queue, j) => InReady(queue', j))
    BY <1>1, <2>1, PushAllGood, SchedulerAssumption DEF AlarmState
  <2>3. alarm.at # "rebuild" /\ Tracked(j)
    BY <1>2, <1>5 DEF AlarmPush
  <2> QED
    BY <1>5, <2>2, <2>3 DEF AlarmPush, Tracked
<1>6. CASE AlarmReclaim
  <2>1. CASE ExpiredLeases(rows, now) # {}
    <3>1. alarm'.at = "rebuild"
      BY <1>1, <1>6, <2>1 DEF AlarmReclaim, AlarmState
    <3> QED
      BY <3>1 DEF Tracked
  <2>2. CASE ExpiredLeases(rows, now) = {}
    <3>1. rows'[j] = rows[j]
      BY <1>6, <2>2 DEF AlarmReclaim, ReclaimExpiredLeases, ExpiredLeases
    <3>2. alarm'.found = alarm.found
      BY <1>1, <1>6 DEF AlarmReclaim, AlarmState
    <3>3. alarm.at = "reclaim"
      BY <1>6 DEF AlarmReclaim
    <3> QED
      BY <1>2, <1>6, <3>1, <3>2, <3>3, StillTracked DEF AlarmReclaim
  <2> QED
    BY <2>1, <2>2
<1>7. CASE AlarmRebuild
  <2>1. j \in alarm'.found
    BY <1>1, <1>3, <1>7 DEF AlarmRebuild, AlarmState
  <2> QED
    BY <2>1 DEF Tracked
<1>8. CASE AlarmSweep
  <2>1. rows[j].status = "queued"
    BY <1>8 DEF AlarmSweep, SweepExpired, NoRow
  <2>2. alarm'.found = alarm.found /\ alarm.at = "sweep"
    BY <1>1, <1>8 DEF AlarmSweep, AlarmGoes, AlarmState
  <2> QED
    BY <1>2, <1>8, <2>1, <2>2, StillTracked DEF AlarmSweep
<1>9. CASE AlarmBackstop
  <2>1. CASE TotalReady(queue) + Cardinality(running) >= InFlightLimit
    <3>1. queue' = queue /\ alarm'.found = alarm.found /\ alarm.at = "backstop"
      BY <1>1, <1>9, <2>1 DEF AlarmBackstop, AlarmGoes, AlarmState
    <3> QED
      BY <1>2, <1>9, <3>1, StillTracked DEF AlarmBackstop
  <2>2. CASE ~ (TotalReady(queue) + Cardinality(running) >= InFlightLimit)
    <3>1. alarm'.found = Queued(rows) /\ rows' = rows
      BY <1>1, <1>9, <2>2 DEF AlarmBackstop, AlarmState
    <3> QED
      BY <1>3, <3>1 DEF Tracked
  <2> QED
    BY <2>1, <2>2
<1>10. CASE AlarmFinish
  <2>1. alarm'.found = alarm.found /\ alarm.at = "finish"
    BY <1>1, <1>10 DEF AlarmFinish, AlarmGoes, AlarmState
  <2> QED
    BY <1>2, <1>10, <2>1, StillTracked DEF AlarmFinish
<1>11. CASE AlarmArm
  <2>1. alarm.found = {} /\ alarm.at = "arm"
    BY <1>11 DEF AlarmArm, Remembered
  <2> QED
    BY <1>2, <1>11, <2>1, StillTracked DEF AlarmArm
<1> QED
  BY <1>4, <1>5, <1>6, <1>7, <1>8, <1>9, <1>10, <1>11 DEF AlarmStep

LEMMA RememberNext ==
  ASSUME Remembered, [Next]_vars, MaxTenantCancels = 0, \A j \in Jobs : Deadline[j] > 0
  PROVE  Remembered'
<1>1. Shape' /\ NewRows'
  BY ShapeNext, NewRowsNext DEF Remembered
<1>2. NoQueuedJobForgotten'
  <2>1. CASE Tick \/ UNCHANGED vars
    BY <2>1 DEF Tick, vars, memory, Remembered, NoQueuedJobForgotten, Tracked
  <2>2. CASE Restart
    BY <2>2 DEF Restart, NoQueuedJobForgotten, Tracked
  <2> QED
    BY <2>1, <2>2, RememberEnqueue, RememberLoop, RememberRun, RememberTimerCancel,
       RememberAlarm DEF Next
<1>3. ASSUME NEW j \in dropping' PROVE rows'[j].status = "cancelled"
  <2>1. rows \in [Jobs -> Row] /\ dropping \subseteq Jobs
    BY DEF Remembered, Shape, TypeOK
  <2>2. \A k \in Jobs : rows[k].status = "cancelled" => rows'[k].status = "cancelled"
    <3> SUFFICES ASSUME NEW k \in Jobs, rows[k].status = "cancelled"
                 PROVE  rows'[k].status = "cancelled"
      OBVIOUS
    <3>1. RowsMove
      BY NextMovesRows DEF Remembered
    <3>2. ~ Claimable(rows, k, now) /\ ~ LeaseExpired(rows[k], now) /\ ~ Active(rows, k)
      BY DEF Claimable, LeaseExpired, Active
    <3> QED
      BY <2>1, <3>1, <3>2 DEF Remembered, NewRows, RowsMove, Insert, Claim, Ack, Fail,
         FailQueued, Cancel, ReclaimExpiredLeases, SweepExpired
  <2>3. j \in dropping \/ \E k \in Jobs : CancelJob(k) /\ j = k
    BY <1>3 DEF Next, vars, memory, EnqueueCall, Enqueue, EnqueueInit, EnqueueInitDone,
       EnqueueAccept, LoopStep, LoopStop, LoopTake, LoopSkip, LoopStart, RunStep, RunOk,
       RunThrow, RunEnd, TimerFires, CancelCall, CancelJob, CancelDrop,
       TenantCancelOne, TenantCancelList, TenantCancelClear, AlarmStep, AlarmFires,
       AlarmPush, AlarmReclaim, AlarmRebuild, AlarmSweep, AlarmBackstop, AlarmFinish, AlarmArm,
       Tick, Restart
  <2>4. CASE \E k \in Jobs : CancelJob(k) /\ j = k
    BY <2>1, <2>4 DEF CancelJob, Cancel, Row
  <2> QED
    BY <2>1, <2>2, <2>3, <2>4 DEF Remembered
<1>4. alarm'.at \notin {"initPush", "push", "refill"} => alarm'.found = {}
  <2>1. alarm \in AlarmState
    BY DEF Remembered, Shape, TypeOK
  <2>2. CASE AlarmStep
    <3>1. CASE AlarmFires \/ AlarmReclaim \/ AlarmSweep
      BY <2>1, <3>1 DEF Remembered, AlarmFires, AlarmGoes, AlarmReclaim, AlarmSweep,
         AlarmState
    <3>2. CASE AlarmRebuild
      BY <2>1, <3>2 DEF AlarmRebuild, AlarmState
    <3>3. CASE AlarmBackstop
      BY <2>1, <3>3 DEF Remembered, AlarmBackstop, AlarmGoes, AlarmState
    <3>4. ASSUME NEW from, NEW to, AlarmPush(from, to)
          PROVE  alarm'.found = {}
      BY <2>1, <3>4 DEF AlarmPush, AlarmState
    <3>5. CASE AlarmFinish
      BY <2>1, <3>5 DEF Remembered, AlarmFinish, AlarmGoes, AlarmState
    <3>6. CASE AlarmArm
      BY <3>6 DEF AlarmArm, AlarmOff
    <3> QED
      BY <2>2, <3>1, <3>2, <3>3, <3>4, <3>5, <3>6 DEF AlarmStep
  <2>3. CASE Restart
    BY <2>3 DEF Restart, AlarmOff
  <2>4. CASE alarm' = alarm
    BY <2>4 DEF Remembered
  <2> QED
    BY <2>2, <2>3, <2>4 DEF Next, vars, memory, EnqueueCall, Enqueue, EnqueueInit,
       EnqueueInitDone, EnqueueAccept, LoopStep, LoopStop, LoopTake, LoopSkip,
       LoopStart, RunStep, RunOk, RunThrow, RunEnd, TimerFires, CancelCall, CancelJob,
       CancelDrop, TenantCancelOne, TenantCancelList, TenantCancelClear, Tick
<1>5. tenantCancel' = NoTenantCancel
  <2>1. ASSUME NEW t \in Tenants PROVE ~ TenantCancelList(t)
    BY DEF TenantCancelList, Remembered, Shape, TypeOK
  <2>2. ASSUME NEW k \in Jobs PROVE ~ TenantCancelOne(k)
    BY DEF TenantCancelOne, Remembered, NoTenantCancel
  <2> QED
    BY <2>1, <2>2 DEF Remembered, Next, vars, memory, EnqueueCall, Enqueue, EnqueueInit,
       EnqueueInitDone, EnqueueAccept, LoopStep, LoopStop, LoopTake, LoopSkip,
       LoopStart, RunStep, RunOk, RunThrow, RunEnd, TimerFires, CancelCall, CancelJob,
       CancelDrop, TenantCancelClear, AlarmStep, AlarmFires, AlarmPush, AlarmReclaim,
       AlarmRebuild, AlarmSweep, AlarmBackstop, AlarmFinish, AlarmArm, Tick, Restart
<1> QED
  BY <1>1, <1>2, <1>3, <1>4, <1>5 DEF Remembered

\* As long as the object lives and no cancelByTenant is used, a queued job is
\* never forgotten: rebuilds, enqueues, timers, cancels and the loop change the
\* ready set across each other's awaits, and whichever way they interleave
\* something in memory still leads to the job.  A deadline of 0 is excluded:
\* such a job is popped and neither failed nor claimed.
THEOREM NothingForgotten ==
  ASSUME MaxTenantCancels = 0, \A j \in Jobs : Deadline[j] > 0
  PROVE  Spec => []NoQueuedJobForgotten
<1>1. Init => Remembered
  <2> SUFFICES ASSUME Init PROVE Remembered
    OBVIOUS
  <2>1. NoQueuedJobForgotten
    <3>1. ASSUME NEW j \in Jobs PROVE rows[j] = NoRow
      BY <3>1 DEF Init
    <3> QED
      BY <3>1 DEF NoQueuedJobForgotten, NoRow
  <2> QED
    BY <2>1, ShapeInit, NewRowsInit DEF Init, Remembered, AlarmOff
<1>2. Remembered /\ [Next]_vars => Remembered'
  BY RememberNext
<1>3. Remembered => NoQueuedJobForgotten
  BY DEF Remembered
<1> QED
  BY <1>1, <1>2, <1>3, PTL DEF Spec
-----------------------------------------------------------------------------
(* Attempts.                                                                *)

\* AttemptsBounded is inductive once `claims`, which no statement of the store
\* reads, is tied to retry_count, which decides: of a job whose leases never
\* ran out every claim but the current one was followed by a counted failure.
Counted ==
  \A j \in Jobs :
    /\ Active(rows, j) /\ rows[j].retryCount > 0 => rows[j].retryCount < RetryMax[j]
    /\ j \notin lapsed =>
         /\ rows[j].status = "queued" => rows[j].claims = rows[j].retryCount
         /\ rows[j].status = "leased" => rows[j].claims = rows[j].retryCount + 1
         /\ rows[j].claims > 1 => rows[j].claims <= RetryMax[j]

LEMMA LapsedStays == ASSUME Shape, [Next]_vars PROVE lapsed \subseteq lapsed'
<1>1. LoopStep => lapsed \subseteq lapsed'
  BY DEF LoopStep, LoopStop, LoopTake, LoopSkip, LoopStart
<1>2. AlarmStep => lapsed \subseteq lapsed'
  BY DEF AlarmStep, AlarmFires, AlarmPush, AlarmReclaim, AlarmRebuild, AlarmSweep,
     AlarmBackstop, AlarmFinish, AlarmArm
<1>3. CancelCall => lapsed' = lapsed
  BY DEF CancelCall, CancelJob, CancelDrop, TenantCancelOne, TenantCancelList,
     TenantCancelClear
<1> QED
  BY <1>1, <1>2, <1>3 DEF Next, vars, EnqueueCall, Enqueue, EnqueueInit,
     EnqueueInitDone, EnqueueAccept, RunStep, RunOk, RunThrow, RunEnd, TimerFires,
     Tick, Restart

LEMMA CountedNext ==
  ASSUME Shape, NewRows, Counted, [Next]_vars PROVE Counted'
<1>1. rows \in [Jobs -> Row] /\ RowsMove /\ lapsed \subseteq lapsed'
  BY NextMovesRows, LapsedStays DEF Shape, TypeOK
<1>2. \A j \in Jobs : RetryMax[j] \in Nat
  BY JobAssumption
<1>3. ASSUME rows' = rows PROVE Counted'
  BY <1>1, <1>3 DEF Counted, Active
<1>4. ASSUME NEW k \in Jobs, calls[k] \in {"none", "init"}, rows' = Insert(rows, k)
      PROVE  Counted'
  BY <1>1, <1>2, <1>4 DEF Insert, NoRow, Counted, Active, Row
<1>5. ASSUME NEW k \in Jobs, Claimable(rows, k, now), rows' = Claim(rows, k, now),
             LeaseExpired(rows[k], now) => k \in lapsed'
      PROVE  Counted'
  BY <1>1, <1>2, <1>5 DEF Claimable, LeaseExpired, Claim, Counted, Active, Row
<1>6. ASSUME NEW k \in Jobs, rows' = FailQueued(rows, k) PROVE Counted'
  BY <1>1, <1>2, <1>6 DEF FailQueued, Counted, Active, Row
<1>7. ASSUME NEW k \in Jobs, rows' = Cancel(rows, k) PROVE Counted'
  BY <1>1, <1>2, <1>7 DEF Cancel, Counted, Active, Row
<1>8. ASSUME NEW k \in Jobs, rows' = Ack(rows, k, now) PROVE Counted'
  BY <1>1, <1>2, <1>8 DEF Ack, Counted, Active, Row
<1>9. ASSUME NEW k \in Jobs, rows' = Fail(rows, k) PROVE Counted'
  BY <1>1, <1>2, <1>9 DEF Fail, AttemptsSpent, Counted, Active, Row
<1>10. ASSUME rows' = ReclaimExpiredLeases(rows, now),
              ExpiredLeases(rows, now) \subseteq lapsed'
       PROVE  Counted'
  <2>1. ASSUME NEW j \in Jobs
        PROVE  \/ rows'[j] = rows[j]
               \/ /\ j \in lapsed' /\ rows[j].status = "leased"
                  /\ rows'[j].status = "queued" /\ rows'[j].retryCount = rows[j].retryCount
    BY <1>1, <1>10 DEF ReclaimExpiredLeases, ExpiredLeases, LeaseExpired, Row
  <2> QED
    BY <1>1, <1>2, <2>1 DEF Counted, Active, Row
<1>11. ASSUME NEW n \in Nat, rows' = SweepExpired(rows, n) PROVE Counted'
  BY <1>1, <1>2, <1>11 DEF SweepExpired, NoRow, Counted, Active, Row
<1>12. \A e \in executions : e.job \in Jobs
  BY DEF Shape, TypeOK, Execution
<1> QED
  BY <1>1, <1>3, <1>4, <1>5, <1>6, <1>7, <1>8, <1>9, <1>10, <1>11, <1>12 DEF RowsMove

LEMMA ShapeNewRowsAlways == Spec => [](Shape /\ NewRows)
<1>1. Shape /\ NewRows /\ [Next]_vars => (Shape /\ NewRows)'
  BY ShapeNext, NewRowsNext
<1> QED
  BY <1>1, ShapeInit, NewRowsInit, PTL DEF Spec

\* retry.max bounds how often a job runs, through rebuilds that push a job
\* twice, cancels, restarts and stale executions; only a lease that runs out
\* buys an attempt that is not counted (do-storage.ts 237-252).
THEOREM AttemptsInvariant == Spec => []AttemptsBounded
<1>1. Init => Counted
  <2> SUFFICES ASSUME Init PROVE Counted
    OBVIOUS
  <2>1. ASSUME NEW j \in Jobs
        PROVE  /\ rows[j].status = "absent" /\ rows[j].claims = 0
               /\ ~ Active(rows, j) /\ ~ (rows[j].claims > 1)
    <3>1. rows[j] = NoRow
      BY DEF Init
    <3> QED
      BY <3>1 DEF NoRow, Active
  <2> QED
    BY <2>1 DEF Counted
<1>2. Shape /\ NewRows /\ Counted /\ [Next]_vars => Counted'
  BY CountedNext
<1>3. Counted => AttemptsBounded
  BY DEF Counted, AttemptsBounded, Active
<1> QED
  BY <1>1, <1>2, <1>3, ShapeNewRowsAlways, PTL DEF Spec
-----------------------------------------------------------------------------
(* One run at a time.                                                       *)

\* A claim of job j numbered c was made: never before the row was inserted,
\* and the row remembers it until it is swept.
Made(j, c) ==
  /\ c # 0
  /\ calls[j] \notin {"none", "init"}
  /\ rows[j].status # "absent" => c <= rows[j].claims

\* The claim c is the one the row of j is under, or was cancelled under.
Current(j, c) ==
  j \notin lapsed => rows[j].status \in {"leased", "cancelled"} /\ rows[j].claims = c

\* The loop waits for the answer of a claim that succeeded.
Won == loop.at = "waiting" /\ loop.claim # 0

\* OneRunAtATime is inductive together with the claims the functions run under:
\* claims of one job differ, a function runs under the current claim of its
\* job, and so does the one the loop is about to start.
ClaimsInv ==
  /\ \A e \in executions :
       /\ Made(e.job, e.claim)
       /\ e.phase = "running" => Current(e.job, e.claim)
       /\ e.phase = "running" /\ e.job \notin lapsed /\ e.claim = 1 => e.job \in running
       /\ \A f \in executions : f.job = e.job /\ f.claim = e.claim => f = e
  /\ Won =>
       /\ Made(loop.job, loop.claim)
       /\ Current(loop.job, loop.claim)
       /\ \A e \in executions : e.job = loop.job => e.claim # loop.claim

LEMMA CallsMove ==
  ASSUME Shape, NEW j \in Jobs, [Next]_vars, calls[j] \notin {"none", "init"}
  PROVE  calls'[j] \notin {"none", "init"}
BY DEF Next, vars, memory, EnqueueCall, Enqueue, EnqueueInit, EnqueueInitDone,
   EnqueueAccept, Admit, LoopStep, LoopStop, LoopTake, LoopSkip, LoopStart, RunStep,
   RunOk, RunThrow, RunEnd, TimerFires, CancelCall, CancelJob, CancelDrop,
   TenantCancelOne, TenantCancelList, TenantCancelClear, AlarmStep, AlarmFires,
   AlarmPush, AlarmReclaim, AlarmRebuild, AlarmSweep, AlarmBackstop, AlarmFinish,
   AlarmArm, Tick, Restart, Shape, TypeOK

\* No statement forgets a claim but the sweep, which deletes the row.
LEMMA MadeStays ==
  ASSUME Shape, NewRows, [Next]_vars, NEW j \in Jobs, NEW c \in Nat, Made(j, c)
  PROVE  Made(j, c)'
<1>1. rows \in [Jobs -> Row] /\ RowsMove
  BY NextMovesRows DEF Shape, TypeOK
<1>2. calls[j] \notin {"none", "init"} /\ calls'[j] \notin {"none", "init"} /\ c # 0
  BY CallsMove DEF Made
<1>3. \A e \in executions : e.job \in Jobs
  BY DEF Shape, TypeOK, Execution
<1> DEFINE Kept == rows'[j].status # "absent" =>
                     rows[j].status # "absent" /\ rows[j].claims <= rows'[j].claims
<1>4. ASSUME NEW k \in Jobs, calls[k] \in {"none", "init"}, rows' = Insert(rows, k)
      PROVE  Kept
  BY <1>1, <1>2, <1>4 DEF Insert, Row
<1>5. ASSUME NEW k \in Jobs, Claimable(rows, k, now), rows' = Claim(rows, k, now)
      PROVE  Kept
  BY <1>1, <1>5 DEF Claimable, LeaseExpired, Claim, Row
<1>6. ASSUME NEW k \in Jobs,
             \/ rows' = FailQueued(rows, k) \/ rows' = Cancel(rows, k)
             \/ rows' = Ack(rows, k, now) \/ rows' = Fail(rows, k)
      PROVE  Kept
  <2>1. CASE rows' = FailQueued(rows, k)
    BY <1>1, <2>1 DEF FailQueued, Row
  <2>2. CASE rows' = Cancel(rows, k)
    BY <1>1, <2>2 DEF Cancel, Active, Row
  <2>3. CASE rows' = Ack(rows, k, now)
    BY <1>1, <2>3 DEF Ack, Row
  <2>4. CASE rows' = Fail(rows, k)
    BY <1>1, <2>4 DEF Fail, Row
  <2> QED
    BY <1>6, <2>1, <2>2, <2>3, <2>4
<1>7. ASSUME rows' = ReclaimExpiredLeases(rows, now) PROVE Kept
  <2>1. CASE LeaseExpired(rows[j], now)
    <3>1. rows'[j] = [rows[j] EXCEPT !.status = "queued", !.leaseExpires = 0]
      BY <1>7, <2>1 DEF ReclaimExpiredLeases
    <3> QED
      BY <1>1, <2>1, <3>1 DEF LeaseExpired, Row
  <2>2. CASE ~ LeaseExpired(rows[j], now)
    <3>1. rows'[j] = rows[j]
      BY <1>7, <2>2 DEF ReclaimExpiredLeases
    <3> QED
      BY <1>1, <3>1 DEF Row
  <2> QED
    BY <2>1, <2>2
<1>8. ASSUME NEW n \in Nat, rows' = SweepExpired(rows, n) PROVE Kept
  BY <1>1, <1>8 DEF SweepExpired, NoRow, Row
<1>9. ASSUME rows' = rows PROVE Kept
  BY <1>1, <1>9 DEF Row
<1> HIDE DEF Kept
<1>10. Kept
  BY <1>1, <1>3, <1>4, <1>5, <1>6, <1>7, <1>8, <1>9 DEF RowsMove
<1>11. rows[j].claims \in Nat /\ rows'[j].claims \in Nat
  BY <1>1, ShapeNext DEF Shape, TypeOK, Row
<1> QED
  BY <1>2, <1>10, <1>11 DEF Kept, Made

\* A claim stays the current one until a function of its job settles: the
\* claim by id refuses a leased row, and what it takes from an expired lease
\* counts as lapsed.
LEMMA CurrentStays ==
  ASSUME Shape, NewRows, [Next]_vars, NEW j \in Jobs, NEW c \in Nat,
         Made(j, c), Current(j, c),
         \A e \in executions : e.phase = "running" /\ e \notin executions' => e.job # j
  PROVE  Current(j, c)'
<1>1. rows \in [Jobs -> Row] /\ RowsMove /\ lapsed \subseteq lapsed'
  BY NextMovesRows, LapsedStays DEF Shape, TypeOK
<1>2. SUFFICES ASSUME j \notin lapsed'
               PROVE  rows'[j].status \in {"leased", "cancelled"} /\ rows'[j].claims = c
  BY DEF Current
<1>3. /\ rows[j].status \in {"leased", "cancelled"} /\ rows[j].claims = c
      /\ calls[j] \notin {"none", "init"}
  BY <1>1, <1>2 DEF Current, Made
<1> DEFINE Kept == rows'[j].status \in {"leased", "cancelled"} /\ rows'[j].claims = c
<1>4. ASSUME NEW k \in Jobs, calls[k] \in {"none", "init"}, rows' = Insert(rows, k)
      PROVE  Kept
  BY <1>1, <1>3, <1>4 DEF Insert
<1>5. ASSUME NEW k \in Jobs, Claimable(rows, k, now), rows' = Claim(rows, k, now),
             LeaseExpired(rows[k], now) => k \in lapsed'
      PROVE  Kept
  BY <1>1, <1>2, <1>3, <1>5 DEF Claimable, Claim
<1>6. ASSUME NEW k \in Jobs, rows' = FailQueued(rows, k) \/ rows' = Cancel(rows, k)
      PROVE  Kept
  <2>1. CASE rows' = FailQueued(rows, k)
    BY <1>1, <1>3, <2>1 DEF FailQueued
  <2>2. CASE rows' = Cancel(rows, k)
    BY <1>1, <1>3, <2>2 DEF Cancel, Row
  <2> QED
    BY <1>6, <2>1, <2>2
<1>7. ASSUME NEW e \in executions, e.phase = "running", e \notin executions',
             rows' = Ack(rows, e.job, now) \/ rows' = Fail(rows, e.job)
      PROVE  Kept
  BY <1>1, <1>3, <1>7 DEF Ack, Fail
<1>8. ASSUME rows' = ReclaimExpiredLeases(rows, now),
             ExpiredLeases(rows, now) \subseteq lapsed'
      PROVE  Kept
  BY <1>1, <1>2, <1>3, <1>8 DEF ReclaimExpiredLeases, ExpiredLeases
<1>9. ASSUME NEW n \in Nat, rows' = SweepExpired(rows, n) PROVE Kept
  BY <1>1, <1>3, <1>9 DEF SweepExpired
<1> QED
  BY <1>1, <1>3, <1>4, <1>5, <1>6, <1>7, <1>8, <1>9 DEF RowsMove

\* What Shape says of the claims.
LEMMA ClaimsTyped ==
  ASSUME Shape
  PROVE  /\ \A e \in executions : e \in Execution /\ e.job \in Jobs /\ e.claim \in Nat
         /\ Won => loop.job \in Jobs /\ loop.claim \in Nat
BY DEF Shape, TypeOK, Execution, LoopState, Won

\* Steps that start and settle no function.  A slot is freed only after the
\* outcome was written, so not under the first attempt.
LEMMA ClaimsQuiet ==
  ASSUME Shape, NewRows, ClaimsInv, [Next]_vars,
         executions' \subseteq executions,
         \A e \in executions :
           e.phase = "running" => e \in executions' \/ (executions' = {} /\ ~ Won'),
         \A j \in running : j \in running' \/ executions' = {}
           \/ \E f \in executions : f.job = j /\ f.phase # "running" /\ f \notin executions',
         loop' = loop \/ ~ Won'
  PROVE  ClaimsInv'
<1>1. lapsed \subseteq lapsed'
  BY LapsedStays
<1>2. ASSUME NEW e \in executions'
      PROVE  /\ Made(e.job, e.claim)'
             /\ e.phase = "running" => Current(e.job, e.claim)'
             /\ e.phase = "running" /\ e.job \notin lapsed' /\ e.claim = 1
                  => e.job \in running'
             /\ \A f \in executions' : f.job = e.job /\ f.claim = e.claim => f = e
  <2>1. e \in executions /\ executions' # {} /\ e.job \in Jobs /\ e.claim \in Nat
    BY <1>2, ClaimsTyped
  <2>2. Made(e.job, e.claim)'
    BY <2>1, MadeStays DEF ClaimsInv
  <2>3. e.phase = "running" => Current(e.job, e.claim)'
    BY <2>1, CurrentStays DEF ClaimsInv
  <2>4. ASSUME e.phase = "running", e.job \notin lapsed', e.claim = 1
        PROVE  e.job \in running'
    <3>1. e.job \in running /\ Current(e.job, e.claim) /\ e.job \notin lapsed
      BY <1>1, <2>1, <2>4 DEF ClaimsInv
    <3>2. SUFFICES ASSUME NEW f \in executions, f.job = e.job, f.phase # "running"
                   PROVE  FALSE
      BY <2>1, <3>1
    <3>3. Made(f.job, f.claim) /\ f.claim \in Nat
      BY ClaimsTyped DEF ClaimsInv
    <3>4. f.claim = 1
      BY <2>4, <3>1, <3>2, <3>3 DEF Made, Current
    <3> QED
      BY <2>1, <2>4, <3>2, <3>4 DEF ClaimsInv
  <2> QED
    BY <2>1, <2>2, <2>3, <2>4 DEF ClaimsInv
<1>3. ASSUME Won'
      PROVE  /\ Made(loop.job, loop.claim)'
             /\ Current(loop.job, loop.claim)'
             /\ \A e \in executions' : e.job = loop'.job => e.claim # loop'.claim
  <2>1. loop' = loop /\ Won
    BY <1>3 DEF Won
  <2>2. PICK j \in Jobs, c \in Nat : j = loop.job /\ c = loop.claim
    BY <2>1, ClaimsTyped
  <2>3. Made(j, c)' /\ Current(j, c)'
    BY <1>3, <2>1, <2>2, MadeStays, CurrentStays DEF ClaimsInv
  <2>4. \A e \in executions : e.job = j => e.claim # c
    BY <2>1, <2>2 DEF ClaimsInv
  <2> QED
    BY <2>1, <2>2, <2>3, <2>4 DEF Made, Current
<1> QED
  BY <1>2, <1>3 DEF ClaimsInv

\* The claim by id succeeds: its number is new, and no function of the job
\* runs under the current one.
LEMMA ClaimsTake ==
  ASSUME Shape, NewRows, ClaimsInv, [Next]_vars, LoopTake PROVE ClaimsInv'
<1>1. /\ rows \in [Jobs -> Row] /\ lapsed \subseteq lapsed'
      /\ executions' = executions /\ running' = running /\ calls' = calls
  BY LapsedStays DEF LoopTake, Shape, TypeOK
<1>2. ASSUME NEW e \in executions
      PROVE  /\ Made(e.job, e.claim)'
             /\ e.phase = "running" => Current(e.job, e.claim)'
    BY <1>1, <1>2, ClaimsTyped, MadeStays, CurrentStays DEF ClaimsInv
<1>3. ASSUME Won'
      PROVE  /\ Made(loop.job, loop.claim)'
             /\ Current(loop.job, loop.claim)'
             /\ \A e \in executions : e.job = loop'.job => e.claim # loop'.claim
  <2>1. PICK i \in DOMAIN queue.order :
          LET j == JobAt(queue, i)
              late == PastDeadline(j)
              won == ~ late /\ Claimable(rows, j, now)
          IN /\ loop' = [at |-> "waiting", job |-> j,
                         claim |-> IF won THEN rows[j].claims + 1 ELSE 0]
             /\ rows' = IF late THEN FailQueued(rows, j)
                        ELSE IF won THEN Claim(rows, j, now)
                        ELSE rows
    BY DEF LoopTake
  <2>2. PICK j \in Jobs : j = JobAt(queue, i)
    BY TakeAtGood, ShapeGoodQueue
  <2>3. /\ loop'.job = j /\ loop'.claim = rows[j].claims + 1
        /\ Claimable(rows, j, now) /\ rows' = Claim(rows, j, now)
    BY <1>3, <2>1, <2>2 DEF Won
  <2>4. rows[j].claims \in Nat /\ rows[j].status # "absent"
    BY <1>1, <2>3 DEF Claimable, LeaseExpired, Row
  <2>5. rows'[j].status = "leased" /\ rows'[j].claims = rows[j].claims + 1
    BY <1>1, <2>3 DEF Claim, Row
  <2>6. Made(loop.job, loop.claim)' /\ Current(loop.job, loop.claim)'
    BY <1>1, <2>3, <2>4, <2>5 DEF NewRows, Made, Current
  <2>7. ASSUME NEW e \in executions, e.job = j PROVE e.claim # rows[j].claims + 1
    <3>1. e.claim <= rows[j].claims /\ e.claim \in Nat
      BY <2>4, <2>7, ClaimsTyped DEF ClaimsInv, Made
    <3> QED
      BY <2>4, <3>1
  <2> QED
    BY <2>3, <2>6, <2>7
<1> QED
  BY <1>1, <1>2, <1>3 DEF ClaimsInv

\* The function starts under the claim that was awaited.
LEMMA ClaimsStart ==
  ASSUME Shape, NewRows, ClaimsInv, [Next]_vars, LoopStart PROVE ClaimsInv'
<1> DEFINE n == [job |-> loop.job, claim |-> loop.claim, phase |-> "running"]
<1>1. /\ Won /\ ~ Won' /\ rows' = rows /\ calls' = calls /\ lapsed' = lapsed
      /\ executions' = executions \cup {n} /\ running' = running \cup {loop.job}
  BY DEF LoopStart, LoopTop, Won
<1>2. Made(n.job, n.claim) /\ Current(n.job, n.claim)
      /\ \A e \in executions : e.job = n.job => e.claim # n.claim
  BY <1>1 DEF ClaimsInv
<1>3. n.job \in running'
  BY <1>1
<1>4. /\ \A j, c : Made(j, c) => Made(j, c)'
      /\ \A j, c : Current(j, c) => Current(j, c)'
  BY <1>1 DEF Made, Current
<1> HIDE DEF n
<1> QED
  BY <1>1, <1>2, <1>3, <1>4 DEF ClaimsInv

\* The outcome of a function is written under its claim, so it ends the run
\* of its job that is the current one; no other function of the job runs
\* unless a lease lapsed.
LEMMA ClaimsSettle ==
  ASSUME Shape, NewRows, ClaimsInv, [Next]_vars,
         NEW e \in executions, RunOk(e) \/ RunThrow(e)
  PROVE  ClaimsInv'
<1>1. PICK ph \in {"settled", "retrying"} :
        executions' = (executions \ {e}) \cup {[e EXCEPT !.phase = ph]}
  BY DEF RunOk, RunThrow, Settle
<1> DEFINE d == [e EXCEPT !.phase = ph]
<1>2. /\ e.phase = "running" /\ running' = running /\ loop' = loop
      /\ lapsed \subseteq lapsed' /\ lapsed' = lapsed
  BY LapsedStays DEF RunOk, RunThrow
<1>3. /\ d.job = e.job /\ d.claim = e.claim /\ d.phase # "running" /\ e \notin executions'
      /\ e.job \in Jobs /\ e.claim \in Nat
  BY <1>1, <1>2, ClaimsTyped DEF Execution
<1>4. executions' = (executions \ {e}) \cup {d}
  BY <1>1
<1> HIDE DEF d
<1>5. \A f \in executions' :
        \E g \in executions : g.job = f.job /\ g.claim = f.claim /\ (g # e => f = g)
                              /\ (f.phase = "running" => g # e)
  BY <1>3, <1>4
<1>6. ASSUME NEW f \in executions PROVE Made(f.job, f.claim)'
  BY ClaimsTyped, MadeStays DEF ClaimsInv
<1>7. ASSUME NEW f \in executions, f # e, f.phase = "running"
      PROVE  Current(f.job, f.claim)'
  <2>1. Current(f.job, f.claim) /\ Current(e.job, e.claim) /\ Made(f.job, f.claim)
    BY <1>2, <1>7 DEF ClaimsInv
  <2>2. CASE f.job = e.job
    <3>1. f.job \in lapsed
      BY <1>7, <2>1, <2>2 DEF ClaimsInv, Current
    <3> QED
      BY <1>2, <3>1 DEF Current
  <2>3. CASE f.job # e.job
    <3>1. \A g \in executions : g.phase = "running" /\ g \notin executions' => g.job # f.job
      BY <1>4, <2>3
    <3> QED
      BY <2>1, <3>1, ClaimsTyped, CurrentStays
  <2> QED
    BY <2>2, <2>3
<1>8. ASSUME NEW f \in executions'
      PROVE  /\ Made(f.job, f.claim)'
             /\ f.phase = "running" => Current(f.job, f.claim)'
             /\ f.phase = "running" /\ f.job \notin lapsed' /\ f.claim = 1
                  => f.job \in running'
             /\ \A g \in executions' : g.job = f.job /\ g.claim = f.claim => g = f
  <2>1. PICK g \in executions : g.job = f.job /\ g.claim = f.claim /\ (g # e => f = g)
                              /\ (f.phase = "running" => g # e)
    BY <1>5
  <2>2. Made(f.job, f.claim)' /\ (f.phase = "running" => Current(f.job, f.claim)')
    BY <1>6, <1>7, <2>1
  <2>3. f.phase = "running" /\ f.job \notin lapsed' /\ f.claim = 1 => f.job \in running'
    BY <1>2, <2>1 DEF ClaimsInv
  <2>4. ASSUME NEW h \in executions', h.job = f.job, h.claim = f.claim PROVE h = f
    <3>1. \A x, y \in executions : x.job = y.job /\ x.claim = y.claim => x = y
      BY DEF ClaimsInv
    <3> QED
      BY <1>3, <1>4, <2>4, <3>1
  <2> QED
    BY <2>2, <2>3, <2>4
<1>9. ASSUME Won'
      PROVE  /\ Made(loop.job, loop.claim)'
             /\ Current(loop.job, loop.claim)'
             /\ \A f \in executions' : f.job = loop'.job => f.claim # loop'.claim
  <2>1. Won /\ loop.job \in Jobs /\ loop.claim \in Nat
    BY <1>2, <1>9, ClaimsTyped DEF Won
  <2>2. PICK j \in Jobs, c \in Nat : j = loop.job /\ c = loop.claim
    BY <2>1
  <2>3. /\ Made(j, c) /\ Current(j, c) /\ Current(e.job, e.claim)
        /\ \A f \in executions : f.job = j => f.claim # c
    BY <1>2, <2>1, <2>2 DEF ClaimsInv
  <2>4. Made(j, c)'
    BY <2>3, MadeStays
  <2>5. Current(j, c)'
    <3>1. CASE e.job = j
      BY <1>2, <2>3, <3>1 DEF Current
    <3>2. CASE e.job # j
      BY <1>4, <2>3, <3>2, CurrentStays
    <3> QED
      BY <3>1, <3>2
  <2>6. \A f \in executions' : f.job = j => f.claim # c
    BY <1>5, <2>3
  <2> QED
    BY <1>2, <2>2, <2>4, <2>5, <2>6 DEF Made, Current
<1> QED
  BY <1>8, <1>9 DEF ClaimsInv

LEMMA ClaimsNext ==
  ASSUME Shape, NewRows, ClaimsInv, [Next]_vars PROVE ClaimsInv'
<1>1. Kick => loop' = loop \/ ~ Won'
  BY DEF Kick, LoopTop, Won
<1> DEFINE Still == executions' = executions /\ running' = running /\ (loop' = loop \/ ~ Won')
<1>2. Still => ClaimsInv'
  BY ClaimsQuiet
<1>3. ASSUME NEW j \in Jobs, EnqueueCall(j) \/ TimerFires(j) PROVE Still
  BY <1>1, <1>3 DEF EnqueueCall, Enqueue, EnqueueInit, EnqueueInitDone, EnqueueAccept,
                    TimerFires, memory
<1>4. CASE LoopStop \/ LoopSkip
  <2>1. Still
    BY <1>4 DEF LoopStop, LoopSkip, LoopIdle, LoopTop, Won
  <2> QED
    BY <1>2, <2>1
<1>5. CASE CancelCall
  <2>1. Still
    BY <1>5 DEF CancelCall, CancelJob, CancelDrop, TenantCancelOne, TenantCancelList,
                TenantCancelClear
  <2> QED
    BY <1>2, <2>1
<1>6. CASE AlarmStep
  <2>1. Still
    BY <1>1, <1>6 DEF AlarmStep, AlarmFires, AlarmPush, AlarmReclaim, AlarmRebuild,
       AlarmSweep, AlarmBackstop, AlarmFinish, AlarmArm
  <2> QED
    BY <1>2, <2>1
<1>7. CASE Tick \/ UNCHANGED vars
  <2>1. Still
    BY <1>7 DEF Tick, vars, memory
  <2> QED
    BY <1>2, <2>1
<1>8. CASE Restart
  <2>1. executions' = {} /\ ~ Won'
    BY <1>8 DEF Restart, LoopIdle, Won
  <2> QED
    BY <2>1, ClaimsQuiet
<1>9. ASSUME NEW e \in executions, RunEnd(e) PROVE ClaimsInv'
  <2>1. /\ e.phase # "running" /\ executions' = executions \ {e}
        /\ running' = running \ {e.job} /\ (loop' = loop \/ ~ Won')
    BY <1>1, <1>9 DEF RunEnd
  <2> QED
    BY <2>1, ClaimsQuiet
<1> HIDE DEF Still
<1> QED
  BY <1>2, <1>3, <1>4, <1>5, <1>6, <1>7, <1>8, <1>9, ClaimsTake, ClaimsStart, ClaimsSettle
  DEF Next, LoopStep, RunStep

\* Whatever rebuilds, timers and retries push to the ready set twice, and
\* however the answers of claims interleave with outcomes, cancels, sweeps and
\* restarts, two functions of one job run together only after one of its
\* leases ran out.
THEOREM OneRunInvariant == Spec => []OneRunAtATime
<1>1. Init => ClaimsInv
  BY DEF Init, LoopIdle, ClaimsInv, Won
<1>2. Shape /\ NewRows /\ ClaimsInv /\ [Next]_vars => ClaimsInv'
  BY ClaimsNext
<1>3. ClaimsInv => OneRunAtATime
  BY DEF ClaimsInv, OneRunAtATime, Current
<1> QED
  BY <1>1, <1>2, <1>3, ShapeNewRowsAlways, PTL DEF Spec
=============================================================================
