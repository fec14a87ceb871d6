------------------------- MODULE TreeDispatchProofs -------------------------
(***************************************************************************)
(* For every request, every bound on faults and every order in which       *)
(* answers come: no item is dropped where work is cut up, runMany answers  *)
(* for each item with the item's own result, and an item is started at     *)
(* most once for every combination of attempts above it.  First the        *)
(* arithmetic of the plan, then the coordinators that run (Inv), then how  *)
(* often an item is started (Count).                                       *)
(***************************************************************************)
EXTENDS TreeDispatch, SequenceTheorems, FiniteSetTheorems, WellFoundedInduction, TLAPS

-----------------------------------------------------------------------------
(* Numbers.                                                                 *)

LEMMA LeastNumber ==
  ASSUME NEW S, S \subseteq Nat, S # {}
  PROVE  \E n \in S : \A k \in S : n <= k
<1>1. PICK i \in S : \A k \in S : <<k, i>> \notin OpToRel(<, Nat)
  BY WFMin, NatLessThanWellFounded, Zenon
<1>2. i \in Nat /\ \A k \in S : k \in Nat /\ ~ (k < i)
  BY <1>1, Zenon DEF OpToRel
<1> QED
  BY <1>2

LEMMA UpTo ==
  ASSUME NEW n \in Nat, NEW S, 0 \in S, \A i \in 1 .. n : i - 1 \in S => i \in S
  PROVE  \A i \in 0 .. n : i \in S
<1> DEFINE Bad == {i \in 0 .. n : i \notin S}
<1> SUFFICES ASSUME Bad # {} PROVE FALSE
  OBVIOUS
<1>1. PICK m \in Bad : \A k \in Bad : m <= k
  <2>1. Bad \subseteq Nat
    OBVIOUS
  <2> HIDE DEF Bad
  <2> QED
    BY <2>1, LeastNumber
<1>2. m \in 1 .. n /\ m - 1 \in 0 .. n /\ m \notin S
  OBVIOUS
<1>3. m - 1 \in S
  BY <1>1, <1>2
<1> QED
  BY <1>2, <1>3

\* The sums of the first numbers of a sequence are what Ends computes.
LEMMA EndsAre ==
  ASSUME NEW s \in Seq(Nat)
  PROVE  /\ Ends(s) \in [0 .. Len(s) -> Nat] /\ Ends(s)[0] = 0
         /\ \A i \in 1 .. Len(s) : Ends(s)[i] = Ends(s)[i - 1] + s[i]
<1> DEFINE Sums(m, f) == f \in [0 .. m -> Nat] /\ f[0] = 0 /\ \A i \in 1 .. m : f[i] = f[i - 1] + s[i]
           Good(m) == \E f : Sums(m, f)
           step(e) == [i \in 0 .. Len(s) |-> IF i = 0 THEN 0 ELSE e[i - 1] + s[i]]
<1>1. Len(s) \in Nat /\ \A i \in 1 .. Len(s) : s[i] \in Nat
  BY LenProperties, ElementOfSeq
<1>2. Good(0)
  <2> DEFINE f == [i \in 0 .. 0 |-> 0]
  <2>1. Sums(0, f)
    OBVIOUS
  <2> QED
    BY <2>1
<1>3. ASSUME NEW m \in 1 .. Len(s), Good(m - 1) PROVE Good(m)
  <2>1. PICK f : Sums(m - 1, f)
    BY <1>3
  <2> DEFINE g == [i \in 0 .. m |-> IF i = m THEN f[m - 1] + s[m] ELSE f[i]]
  <2>2. s[m] \in Nat /\ f[m - 1] \in Nat /\ m \in Nat
    BY <1>1, <2>1
  <2>3. g \in [0 .. m -> Nat] /\ g[0] = 0
    BY <2>1, <2>2
  <2>4. ASSUME NEW i \in 1 .. m PROVE g[i] = g[i - 1] + s[i]
    <3>1. CASE i = m
      BY <2>2, <3>1
    <3>2. CASE i # m
      <4>1. i \in 1 .. m - 1 /\ i - 1 \in 0 .. m /\ i - 1 # m /\ i \in 0 .. m
        BY <2>2, <3>2
      <4> QED
        BY <2>1, <3>2, <4>1
    <3> QED
      BY <3>1, <3>2
  <2> QED
    BY <2>3, <2>4
<1> HIDE DEF Good
<1>4. Good(Len(s))
  <2> DEFINE S == {m \in 0 .. Len(s) : Good(m)}
  <2>1. 0 \in S /\ \A i \in 1 .. Len(s) : i - 1 \in S => i \in S
    BY <1>1, <1>2, <1>3
  <2> HIDE DEF S
  <2>2. \A i \in 0 .. Len(s) : i \in S
    BY <1>1, <2>1, UpTo
  <2> QED
    BY <1>1, <2>2 DEF S
<1>5. PICK f : Sums(Len(s), f)
  BY <1>4 DEF Good
<1>6. f = step(f)
  <2>1. \A i \in 0 .. Len(s) : f[i] = IF i = 0 THEN 0 ELSE f[i - 1] + s[i]
    BY <1>1, <1>5
  <2> QED
    BY <1>5, <2>1
<1>7. Ends(s) = CHOOSE e : e = step(e)
  BY DEF Ends
<1> HIDE DEF step
<1>8. Ends(s) = step(Ends(s))
  BY <1>6, <1>7, Zenon
<1> DEFINE e == Ends(s)
<1>9. e = step(e)
  BY <1>8
<1> HIDE DEF e
<1>10. DOMAIN e = 0 .. Len(s) /\ e[0] = 0 /\ \A i \in 1 .. Len(s) : e[i] = e[i - 1] + s[i]
  BY <1>1, <1>9 DEF step
<1>11. \A i \in 0 .. Len(s) : e[i] \in Nat
  <2> DEFINE S == {i \in 0 .. Len(s) : e[i] \in Nat}
  <2>1. 0 \in S /\ \A i \in 1 .. Len(s) : i - 1 \in S => i \in S
    BY <1>1, <1>10
  <2> HIDE DEF S
  <2>2. \A i \in 0 .. Len(s) : i \in S
    BY <1>1, <2>1, UpTo
  <2> QED
    BY <2>2 DEF S
<1>12. e \in [0 .. Len(s) -> Nat]
  <2>1. e = [i \in 0 .. Len(s) |-> e[i]]
    BY <1>9, <1>10 DEF step
  <2> QED
    BY <1>11, <2>1
<1> QED
  BY <1>10, <1>12 DEF e

\* Ends grows.
LEMMA EndsGrow ==
  ASSUME NEW s \in Seq(Nat), NEW i \in 0 .. Len(s), NEW k \in 0 .. Len(s), i <= k
  PROVE  Ends(s)[i] <= Ends(s)[k]
<1> DEFINE S == {d \in Nat : i + d <= Len(s) => Ends(s)[i] <= Ends(s)[i + d]}
<1>1. /\ Len(s) \in Nat /\ \A m \in 1 .. Len(s) : s[m] \in Nat
      /\ \A m \in 0 .. Len(s) : Ends(s)[m] \in Nat
      /\ \A m \in 1 .. Len(s) : Ends(s)[m] = Ends(s)[m - 1] + s[m]
  BY LenProperties, ElementOfSeq, EndsAre
<1>2. 0 \in S
  BY <1>1
<1>3. ASSUME NEW d \in 1 .. k - i, d - 1 \in S PROVE d \in S
  <2>1. i + d \in 1 .. Len(s) /\ i + (d - 1) \in 0 .. Len(s) /\ (i + d) - 1 = i + (d - 1)
    BY <1>1
  <2>2. Ends(s)[i + d] = Ends(s)[i + (d - 1)] + s[i + d]
    BY <1>1, <2>1
  <2>3. Ends(s)[i] <= Ends(s)[i + (d - 1)]
    BY <1>3, <2>1
  <2>a. PICK x \in Nat : x = Ends(s)[i]
    BY <1>1
  <2>b. PICK y \in Nat : y = Ends(s)[i + (d - 1)]
    BY <1>1, <2>1
  <2>c. PICK z \in Nat : z = s[i + d]
    BY <1>1, <2>1
  <2>4. Ends(s)[i + d] = y + z /\ x <= y
    BY <2>2, <2>3, <2>a, <2>b, <2>c
  <2>5. Ends(s)[i] <= Ends(s)[i + d]
    BY <2>4, <2>a
  <2>6. d \in Nat
    OBVIOUS
  <2> QED
    BY <2>5, <2>6
<1> HIDE DEF S
<1>4. k - i \in Nat /\ k - i \in 0 .. k - i
  BY <1>1
<1>5. k - i \in S
  BY <1>2, <1>3, <1>4, UpTo
<1>6. i + (k - i) = k /\ k <= Len(s)
  BY <1>1
<1> QED
  BY <1>5, <1>6 DEF S

LEMMA LengthsTyped ==
  ASSUME NEW S, NEW ss \in Seq(Seq(S))
  PROVE  /\ Len(ss) \in Nat /\ DOMAIN ss = 1 .. Len(ss)
         /\ Lengths(ss) \in Seq(Nat) /\ Len(Lengths(ss)) = Len(ss)
         /\ \A i \in 1 .. Len(ss) : /\ ss[i] \in Seq(S) /\ Len(ss[i]) \in Nat
                                    /\ Lengths(ss)[i] = Len(ss[i])
<1>1. Len(ss) \in Nat /\ DOMAIN ss = 1 .. Len(ss)
  BY LenProperties
<1>2. \A i \in 1 .. Len(ss) : ss[i] \in Seq(S)
  BY ElementOfSeq
<1>3. \A i \in 1 .. Len(ss) : Len(ss[i]) \in Nat
  BY <1>2, LenProperties
<1> QED
  BY <1>1, <1>2, <1>3 DEF Lengths

\* Every element of a concatenation is the element of one of its sequences.
LEMMA ConcatenationIs ==
  ASSUME NEW S, NEW ss \in Seq(Seq(S))
  PROVE  /\ Concatenation(ss) \in Seq(S) /\ Len(Concatenation(ss)) = Total(Lengths(ss))
         /\ \A k \in 1 .. Total(Lengths(ss)) : \E i \in 1 .. Len(ss) :
              /\ k - Ends(Lengths(ss))[i - 1] \in 1 .. Len(ss[i])
              /\ Concatenation(ss)[k] = ss[i][k - Ends(Lengths(ss))[i - 1]]
<1> DEFINE n == Len(ss)
           e == Ends(Lengths(ss))
           of(k) == CHOOSE i \in DOMAIN ss : e[i - 1] < k /\ k <= e[i]
<1>1. /\ n \in Nat /\ DOMAIN ss = 1 .. n
      /\ \A i \in 1 .. n : ss[i] \in Seq(S) /\ Len(ss[i]) \in Nat
  BY LengthsTyped
<1>2. /\ \A i \in 0 .. n : e[i] \in Nat
      /\ e[0] = 0 /\ \A i \in 1 .. n : e[i] = e[i - 1] + Len(ss[i])
      /\ Total(Lengths(ss)) = e[n]
  <2>1. Lengths(ss) \in Seq(Nat) /\ Len(Lengths(ss)) = n /\ \A i \in 1 .. n : Lengths(ss)[i] = Len(ss[i])
    BY LengthsTyped
  <2>2. /\ e \in [0 .. n -> Nat] /\ e[0] = 0
        /\ \A i \in 1 .. n : e[i] = e[i - 1] + Lengths(ss)[i]
    BY <2>1, EndsAre
  <2> QED
    BY <2>1, <2>2 DEF Total
<1>3. Concatenation(ss) = [k \in 1 .. e[n] |-> ss[of(k)][k - e[of(k) - 1]]]
  BY DEF Concatenation
<1> HIDE DEF e, n
<1>4. ASSUME NEW k \in 1 .. e[n]
      PROVE  of(k) \in 1 .. n /\ k - e[of(k) - 1] \in 1 .. Len(ss[of(k)])
  <2> DEFINE S0 == {i \in 0 .. n : k <= e[i]}
  <2>1. n \in S0 /\ S0 \subseteq Nat
    BY <1>1, <1>2
  <2>2. PICK i \in S0 : \A j \in S0 : i <= j
    <3> HIDE DEF S0
    <3> QED
      BY <2>1, LeastNumber
  <2>3. i \in 1 .. n /\ i - 1 \in 0 .. n /\ i - 1 \notin S0
    BY <1>1, <1>2, <2>2
  <2>4. e[i - 1] < k /\ k <= e[i]
    BY <1>2, <2>2, <2>3
  <2>5. of(k) \in 1 .. n /\ e[of(k) - 1] < k /\ k <= e[of(k)]
    BY <1>1, <2>3, <2>4
  <2> DEFINE m == of(k)
  <2> HIDE DEF of
  <2>6. PICK x \in Nat : x = e[m - 1]
    <3>1. m - 1 \in 0 .. n
      BY <1>1, <2>5
    <3> QED
      BY <1>2, <3>1
  <2>7. PICK l \in Nat : l = Len(ss[m]) /\ e[m] = x + l
    BY <1>1, <1>2, <2>5, <2>6
  <2>8. x < k /\ k <= x + l
    BY <2>5, <2>6, <2>7
  <2>9. k - x \in 1 .. l
    BY <2>8
  <2> QED
    BY <2>5, <2>6, <2>7, <2>9
<1> HIDE DEF of
<1>5. ASSUME NEW k \in 1 .. e[n] PROVE ss[of(k)][k - e[of(k) - 1]] \in S
  BY <1>1, <1>4, ElementOfSeq
<1>6. e[n] \in Nat
  BY <1>1, <1>2
<1>7. /\ Concatenation(ss) \in Seq(S) /\ Len(Concatenation(ss)) = e[n]
      /\ \A k \in 1 .. e[n] : Concatenation(ss)[k] = ss[of(k)][k - e[of(k) - 1]]
  BY <1>3, <1>5, <1>6
<1> QED
  BY <1>2, <1>4, <1>7 DEF e, n

\* Sequences that begin alike end alike so far.
LEMMA SameEnds ==
  ASSUME NEW s \in Seq(Nat), NEW t \in Seq(Nat), NEW m \in Nat, m <= Len(s), m <= Len(t),
         \A i \in 1 .. m : s[i] = t[i]
  PROVE  \A i \in 0 .. m : Ends(s)[i] = Ends(t)[i]
<1> DEFINE S == {i \in 0 .. m : Ends(s)[i] = Ends(t)[i]}
<1>1. Len(s) \in Nat /\ Len(t) \in Nat
  BY LenProperties
<1>2. /\ Ends(s)[0] = 0 /\ Ends(t)[0] = 0
      /\ \A i \in 1 .. m : Ends(s)[i] = Ends(s)[i - 1] + s[i] /\ Ends(t)[i] = Ends(t)[i - 1] + t[i]
  <2>1. \A i \in 1 .. m : i \in 1 .. Len(s) /\ i \in 1 .. Len(t)
    BY <1>1
  <2> QED
    BY <2>1, EndsAre
<1>3. 0 \in S /\ \A i \in 1 .. m : i - 1 \in S => i \in S
  BY <1>2
<1> HIDE DEF S
<1>4. \A i \in 0 .. m : i \in S
  BY <1>3, UpTo
<1> QED
  BY <1>4 DEF S

LEMMA OnesTotal ==
  ASSUME NEW n \in Nat
  PROVE  /\ Ones(n) \in Seq(Nat) /\ Len(Ones(n)) = n /\ Total(Ones(n)) = n
         /\ \A i \in 1 .. n : Ones(n)[i] = 1
         /\ \A i \in 0 .. n : Ends(Ones(n))[i] = i
<1>1. Ones(n) \in Seq(Nat) /\ Len(Ones(n)) = n /\ \A i \in 1 .. n : Ones(n)[i] = 1
  BY DEF Ones
<1> DEFINE e == Ends(Ones(n))
           S == {i \in 0 .. n : e[i] = i}
<1>2. e[0] = 0 /\ \A i \in 1 .. n : e[i] = e[i - 1] + 1
  BY <1>1, EndsAre
<1> HIDE DEF e
<1>3. 0 \in S /\ \A i \in 1 .. n : i - 1 \in S => i \in S
  BY <1>2
<1> HIDE DEF S
<1>4. \A i \in 0 .. n : i \in S
  BY <1>3, UpTo
<1>5. \A i \in 0 .. n : e[i] = i
  BY <1>4 DEF S
<1>6. e[n] = n
  BY <1>5
<1> QED
  BY <1>1, <1>5, <1>6 DEF Total, e

\* A factor keeps the order.
LEMMA TimesMonotone ==
  ASSUME NEW a \in Int, NEW b \in Int, NEW m \in Nat, a <= b
  PROVE  a * m <= b * m
OBVIOUS

LEMMA DivMod ==
  ASSUME NEW a \in Nat, NEW b \in Nat, b > 0
  PROVE  a \div b \in Nat /\ a % b \in Nat /\ a % b < b /\ a = (a \div b) * b + (a % b)
OBVIOUS

\* balancedFill shares out all of size, the larger sizes first.
LEMMA FillIs ==
  ASSUME NEW size \in Nat, NEW n \in Nat, n > 0
  PROVE  LET b == BalancedFill(size, n)
             q == size \div n
             r == size % n
         IN /\ b \in Seq(Nat) /\ Len(b) = n
            /\ \A i \in 1 .. n : b[i] = q + (IF i <= r THEN 1 ELSE 0)
            /\ \A i \in 0 .. n : Ends(b)[i] = i * q + (IF i <= r THEN i ELSE r)
            /\ Total(b) = size
<1> DEFINE b == BalancedFill(size, n)
           q == size \div n
           r == size % n
<1>1. q \in Nat /\ r \in Nat /\ r < n /\ size = q * n + r
  BY DivMod
<1>2. \A i \in 1 .. n : b[i] = q + (IF i <= r THEN 1 ELSE 0)
  BY DEF BalancedFill
<1>3. b \in Seq(Nat) /\ Len(b) = n
  <2>1. b = [i \in 1 .. n |-> q + (IF i <= r THEN 1 ELSE 0)]
    BY DEF BalancedFill
  <2> HIDE DEF b, q, r
  <2> QED
    BY <1>1, <2>1
<1> DEFINE e == Ends(b)
           S == {i \in 0 .. n : e[i] = i * q + (IF i <= r THEN i ELSE r)}
<1>4. e[0] = 0 /\ \A i \in 1 .. n : e[i] = e[i - 1] + b[i]
  BY <1>3, EndsAre
<1> HIDE DEF e, b, q, r
<1>5. 0 \in S
  BY <1>1, <1>4
<1>6. ASSUME NEW i \in 1 .. n, i - 1 \in S PROVE i \in S
  <2>1. PICK p \in Nat : p = (i - 1) * q
    BY <1>1
  <2>2. i * q = p + q
    BY <1>1, <2>1
  <2>3. e[i] = (p + (IF i - 1 <= r THEN i - 1 ELSE r)) + (q + (IF i <= r THEN 1 ELSE 0))
    BY <1>2, <1>4, <1>6, <2>1
  <2>4. e[i] = (p + q) + (IF i <= r THEN i ELSE r)
    BY <1>1, <2>3
  <2> QED
    BY <2>2, <2>4
<1> HIDE DEF S
<1>7. \A i \in 0 .. n : i \in S
  BY <1>5, <1>6, UpTo
<1>8. \A i \in 0 .. n : e[i] = i * q + (IF i <= r THEN i ELSE r)
  BY <1>7 DEF S
<1>9. e[n] = size
  <2>1. n \in 0 .. n /\ n * q = q * n
    BY <1>1
  <2>2. e[n] = n * q + r
    BY <1>1, <1>8
  <2> QED
    BY <1>1, <2>1, <2>2
<1>10. Total(b) = size
  BY <1>3, <1>9 DEF Total, e
<1> QED
  BY <1>2, <1>3, <1>8, <1>10 DEF e, b, q, r

\* No share is above a number that times n is enough.
LEMMA FillBound ==
  ASSUME NEW size \in Nat, NEW n \in Nat, n > 0, NEW M \in Nat, size <= M * n,
         NEW i \in 1 .. n
  PROVE  BalancedFill(size, n)[i] <= M
<1> DEFINE q == size \div n
           r == size % n
<1>1. q \in Nat /\ r \in Nat /\ r < n /\ size = q * n + r
  BY DivMod
<1>2. BalancedFill(size, n)[i] = q + (IF i <= r THEN 1 ELSE 0)
  BY FillIs
<1> HIDE DEF q, r
<1>3. q <= M
  <2> SUFFICES ASSUME M + 1 <= q PROVE FALSE
    BY <1>1
  <2>1. (M + 1) * n <= q * n
    BY <1>1, TimesMonotone
  <2>2. (M + 1) * n = M * n + n /\ M * n \in Nat /\ q * n \in Nat
    BY <1>1
  <2> QED
    BY <1>1, <2>1, <2>2
<1>4. i <= r => q < M
  <2> SUFFICES ASSUME i <= r, M <= q PROVE FALSE
    BY <1>1
  <2>1. M * n <= q * n
    BY <1>1, TimesMonotone
  <2>2. M * n \in Nat /\ q * n \in Nat
    BY <1>1
  <2> QED
    BY <1>1, <2>1, <2>2
<1> QED
  BY <1>1, <1>2, <1>3, <1>4

\* What is left of balancedFill's shares without the zeros still is all of size.
LEMMA NonZeroFill ==
  ASSUME NEW size \in Nat, size > 0, NEW n \in Nat, n > 0
  PROVE  LET b == BalancedFill(size, n)
             f == NonZero(b)
         IN /\ f \in Seq(Nat) /\ Len(f) \in 0 .. n
            /\ \A i \in 1 .. Len(f) : f[i] = b[i] /\ f[i] > 0
            /\ Total(f) = size
<1> DEFINE b == BalancedFill(size, n)
           q == size \div n
           r == size % n
           Cut0(k) == \A i \in DOMAIN b : b[i] > 0 <=> i <= k
           k0 == CHOOSE k \in 0 .. Len(b) : Cut0(k)
<1>0. /\ b \in Seq(Nat) /\ Len(b) = n
      /\ \A i \in 1 .. n : b[i] = q + (IF i <= r THEN 1 ELSE 0)
      /\ \A i \in 0 .. n : Ends(b)[i] = i * q + (IF i <= r THEN i ELSE r)
      /\ Total(b) = size
  BY FillIs
<1>2. q \in Nat /\ r \in Nat /\ r < n /\ size = q * n + r
  BY DivMod
<1>3. NonZero(b) = SubSeq(b, 1, k0)
  BY DEF NonZero
<1> HIDE DEF b, q, r
<1>1. /\ b \in Seq(Nat) /\ Len(b) = n /\ DOMAIN b = 1 .. n
      /\ \A i \in 1 .. n : b[i] = q + (IF i <= r THEN 1 ELSE 0)
      /\ \A i \in 0 .. n : Ends(b)[i] = i * q + (IF i <= r THEN i ELSE r)
      /\ Total(b) = size
  BY <1>0, LenProperties
<1>4. \E k \in 0 .. Len(b) : Cut0(k)
  <2>1. CASE q = 0
    <3>1. r \in 0 .. Len(b) /\ Cut0(r)
      BY <1>1, <1>2, <2>1
    <3> QED
      BY <3>1
  <2>2. CASE q > 0
    <3>1. ASSUME NEW i \in 1 .. n PROVE b[i] > 0 /\ i <= n
      <4>1. b[i] = q + (IF i <= r THEN 1 ELSE 0)
        BY <1>1
      <4> QED
        BY <1>2, <2>2, <4>1
    <3>2. n \in 0 .. Len(b) /\ Cut0(n)
      BY <1>1, <3>1
    <3> QED
      BY <3>2
  <2> QED
    BY <1>2, <2>1, <2>2
<1>5. k0 \in 0 .. n /\ Cut0(k0)
  BY <1>1, <1>4
<1> HIDE DEF k0
<1>6. Ends(b)[k0] = size
  <2>1. CASE k0 = n
    BY <1>1, <2>1 DEF Total
  <2>2. CASE k0 # n
    <3>1. k0 + 1 \in 1 .. n /\ ~ (k0 + 1 <= k0)
      BY <1>5, <2>2
    <3>2. q = 0
      <4>1. b[k0 + 1] = q + (IF k0 + 1 <= r THEN 1 ELSE 0)
        BY <1>1, <3>1
      <4>2. ~ (b[k0 + 1] > 0)
        BY <1>1, <1>5, <3>1
      <4> QED
        BY <1>2, <4>1, <4>2
    <3>3. k0 = r
      <4>1. \A i \in 1 .. n : i <= r <=> i <= k0
        BY <1>1, <1>2, <1>5, <3>2
      <4>2. r # 0 => r \in 1 .. n
        BY <1>2
      <4>3. k0 # 0 => k0 \in 1 .. n
        BY <1>5
      <4> QED
        BY <1>2, <1>5, <4>1, <4>2, <4>3
    <3>4. Ends(b)[k0] = k0 * q + r /\ k0 * q = 0 /\ q * n = 0
      BY <1>1, <1>5, <3>2, <3>3
    <3> QED
      BY <1>2, <3>4
  <2> QED
    BY <2>1, <2>2
<1>7. /\ SubSeq(b, 1, k0) \in Seq(Nat) /\ Len(SubSeq(b, 1, k0)) = k0
      /\ \A i \in 1 .. k0 : SubSeq(b, 1, k0)[i] = b[i]
  <2>1. \A i \in 1 .. k0 : b[i] \in Nat
    BY <1>1, <1>2, <1>5
  <2>2. /\ SubSeq(b, 1, k0) \in Seq(Nat)
        /\ Len(SubSeq(b, 1, k0)) = IF 1 <= k0 THEN k0 - 1 + 1 ELSE 0
        /\ \A i \in 1 .. k0 - 1 + 1 : SubSeq(b, 1, k0)[i] = b[1 + i - 1]
    BY <1>5, <2>1, SubSeqProperties
  <2>3. k0 - 1 + 1 = k0 /\ \A i \in 1 .. k0 : 1 + i - 1 = i
    BY <1>5
  <2> QED
    BY <1>5, <2>2, <2>3
<1> DEFINE f == SubSeq(b, 1, k0)
<1> HIDE DEF f
<1>8. f \in Seq(Nat) /\ Len(f) = k0 /\ \A i \in 1 .. k0 : f[i] = b[i]
  BY <1>7 DEF f
<1>9. Total(f) = size
  <2>1. \A i \in 0 .. k0 : Ends(f)[i] = Ends(b)[i]
    BY <1>1, <1>5, <1>8, SameEnds
  <2> QED
    BY <1>5, <1>6, <1>8, <2>1 DEF Total
<1>10. \A i \in 1 .. k0 : f[i] > 0
  BY <1>1, <1>5, <1>8
<1> QED
  BY <1>3, <1>5, <1>8, <1>9, <1>10 DEF f, b

LEMMA CeilIs ==
  ASSUME NEW a \in Nat, NEW b \in Nat, b > 0
  PROVE  CeilDiv(a, b) \in Nat /\ a <= CeilDiv(a, b) * b
<1> DEFINE q == (a + b - 1) \div b
           r == (a + b - 1) % b
<1>1. a + b - 1 \in Nat
  OBVIOUS
<1>2. q \in Nat /\ r \in Nat /\ r < b /\ a + b - 1 = q * b + r
  <2> DEFINE x == a + b - 1
  <2> HIDE DEF x
  <2>1. x \div b \in Nat /\ x % b \in Nat /\ x % b < b /\ x = (x \div b) * b + (x % b)
    BY <1>1, DivMod DEF x
  <2> QED
    BY <2>1 DEF x
<1> HIDE DEF q, r
<1>3. q * b \in Nat
  BY <1>2
<1> QED
  BY <1>2, <1>3 DEF CeilDiv, q

\* What is divided by two or more gets smaller.
LEMMA CeilSmaller ==
  ASSUME NEW a \in Nat, NEW b \in Nat, b > 1, a > b
  PROVE  CeilDiv(a, b) \in 0 .. a - 1
<1> DEFINE q == CeilDiv(a, b)
<1>1. q \in Nat
  BY CeilIs
<1>2. q * b <= a + b - 1
  <2> DEFINE x == a + b - 1
  <2>1. x \in Nat
    OBVIOUS
  <2> HIDE DEF x
  <2>2. x \div b \in Nat /\ x % b \in Nat /\ x = (x \div b) * b + (x % b)
    BY <2>1, DivMod
  <2>3. q = x \div b
    BY DEF x, CeilDiv
  <2>4. q * b <= x
    BY <2>2, <2>3
  <2> QED
    BY <2>4 DEF x
<1> HIDE DEF q
<1>3. ~ (a <= q)
  <2> SUFFICES ASSUME a <= q PROVE FALSE
    OBVIOUS
  <2>1. a * b <= q * b
    BY <1>1, TimesMonotone
  <2>2. 2 * a <= b * a /\ b * a = a * b
    BY TimesMonotone
  <2>3. PICK y \in Nat : y = q * b
    BY <1>1
  <2>4. PICK z \in Nat : z = a * b
    OBVIOUS
  <2> QED
    BY <1>2, <2>1, <2>2, <2>3, <2>4
<1> QED
  BY <1>1, <1>3 DEF q

\* A tree of depth 1 is F slices of M items, one of depth 2 has F in each.
LEMMA DepthIs ==
  ASSUME NEW size \in Nat, NEW F \in Nat, F > 1, NEW M \in Nat, M > 0
  PROVE  /\ Depth(size, F, M) \in Nat /\ Depth(size, F, M) > 0
         /\ Depth(size, F, M) = 1 => size <= M * F
         /\ Depth(size, F, M) = 2 => size <= (M * F) * F
<1> DEFINE c == CeilDiv(size, M)
           Tier(f, n) == f[n] = IF n <= F THEN 1 ELSE 1 + f[CeilDiv(n, F)]
           Tiers0(m, f) == f \in [0 .. m -> Nat] /\ \A n \in 0 .. m : Tier(f, n)
           Good(m) == \E f : Tiers0(m, f)
           step(t) == [n \in 0 .. c |-> IF n <= F THEN 1 ELSE 1 + t[CeilDiv(n, F)]]
<1>1. c \in Nat /\ size <= c * M
  BY CeilIs
<1>2. \A n \in Nat : n > F => CeilDiv(n, F) \in 0 .. n - 1
  BY CeilSmaller
<1>3. Good(0)
  <2> DEFINE f == [n \in 0 .. 0 |-> 1]
  <2>1. Tiers0(0, f)
    OBVIOUS
  <2> QED
    BY <2>1
<1>4. ASSUME NEW m \in 1 .. c, Good(m - 1) PROVE Good(m)
  <2>1. PICK f : Tiers0(m - 1, f)
    BY <1>4
  <2> DEFINE g == [n \in 0 .. m |-> IF n < m THEN f[n] ELSE IF m <= F THEN 1 ELSE 1 + f[CeilDiv(m, F)]]
  <2>2. m \in Nat /\ (m > F => CeilDiv(m, F) \in 0 .. m - 1)
    BY <1>2
  <2>3. \A n \in 0 .. m - 1 : f[n] \in Nat
    BY <2>1
  <2>4. g \in [0 .. m -> Nat]
    <3>1. m > F => f[CeilDiv(m, F)] \in Nat
      BY <2>2, <2>3
    <3>2. \A n \in 0 .. m : n < m => f[n] \in Nat
      BY <2>2, <2>3
    <3> QED
      BY <2>2, <3>1, <3>2
  <2>5. ASSUME NEW n \in 0 .. m PROVE Tier(g, n)
    <3>1. n \in Nat /\ (n > F => CeilDiv(n, F) \in 0 .. n - 1)
      BY <1>2, <2>2
    <3>2. n > F => g[CeilDiv(n, F)] = f[CeilDiv(n, F)]
      <4>1. \A k \in 0 .. n - 1 : k \in 0 .. m /\ k < m
        BY <2>2, <3>1
      <4> QED
        BY <3>1, <4>1
    <3>3. CASE n = m
      BY <2>2, <3>1, <3>2, <3>3
    <3>4. CASE n # m
      <4>1. n \in 0 .. m - 1 /\ n < m
        BY <2>2, <3>4
      <4>2. Tier(f, n)
        BY <2>1, <4>1
      <4> QED
        BY <3>1, <3>2, <4>1, <4>2
    <3> QED
      BY <3>3, <3>4
  <2> HIDE DEF g
  <2>6. Tiers0(m, g)
    BY <2>4, <2>5
  <2> QED
    BY <2>6
<1> HIDE DEF Good
<1>5. Good(c)
  <2> DEFINE S == {m \in 0 .. c : Good(m)}
  <2>1. 0 \in S /\ \A i \in 1 .. c : i - 1 \in S => i \in S
    BY <1>1, <1>3, <1>4
  <2> HIDE DEF S
  <2>2. \A i \in 0 .. c : i \in S
    BY <1>1, <2>1, UpTo
  <2> QED
    BY <1>1, <2>2 DEF S
<1>6. PICK f : Tiers0(c, f)
  BY <1>5 DEF Good
<1>7. f = step(f)
  <2>1. f = [n \in 0 .. c |-> f[n]]
    BY <1>6
  <2>2. \A n \in 0 .. c : f[n] = IF n <= F THEN 1 ELSE 1 + f[CeilDiv(n, F)]
    BY <1>6
  <2> QED
    BY <2>1, <2>2, Zenon
<1> DEFINE t == CHOOSE t : t = step(t)
<1>8. Depth(size, F, M) = t[c]
  BY DEF Depth
<1> HIDE DEF step
<1>9. t = step(t)
  BY <1>7, Zenon
<1> HIDE DEF t
<1>10. \A n \in 0 .. c : Tier(t, n)
  BY <1>9 DEF step
<1> HIDE DEF c
<1>11. \A n \in 0 .. c : t[n] \in Nat /\ t[n] > 0
  <2> DEFINE S == {m \in 0 .. c : \A n \in 0 .. m : t[n] \in Nat /\ t[n] > 0}
  <2>1. 0 \in S
    <3>1. Tier(t, 0)
      BY <1>1, <1>10
    <3> QED
      BY <1>1, <3>1
  <2>2. ASSUME NEW i \in 1 .. c, i - 1 \in S PROVE i \in S
    <3>1. Tier(t, i) /\ i \in Nat
      BY <1>1, <1>10
    <3>2. i > F => t[CeilDiv(i, F)] \in Nat
      BY <1>2, <2>2, <3>1
    <3>3. t[i] \in Nat /\ t[i] > 0
      BY <3>1, <3>2
    <3>4. \A n \in 0 .. i : n = i \/ n \in 0 .. i - 1
      BY <3>1
    <3> QED
      BY <2>2, <3>3, <3>4
  <2> HIDE DEF S
  <2>3. \A i \in 0 .. c : i \in S
    BY <1>1, <2>1, <2>2, UpTo
  <2>4. c \in S
    BY <1>1, <2>3
  <2> QED
    BY <2>4 DEF S
<1>12. \A n \in 0 .. c : t[n] = 1 => n <= F
  <2> SUFFICES ASSUME NEW n \in 0 .. c, t[n] = 1, n > F PROVE FALSE
    BY <1>1
  <2>1. CeilDiv(n, F) \in 0 .. c
    BY <1>1, <1>2
  <2> QED
    BY <1>10, <1>11, <2>1
<1>13. c \in 0 .. c
  BY <1>1
<1>14. t[c] = 1 => size <= M * F
  <2> SUFFICES ASSUME t[c] = 1 PROVE size <= M * F
    OBVIOUS
  <2>1. c <= F
    BY <1>12, <1>13
  <2>2. c * M <= F * M /\ F * M = M * F
    BY <1>1, <2>1, TimesMonotone
  <2>3. PICK x \in Nat : x = c * M
    BY <1>1
  <2>4. PICK y \in Nat : y = M * F
    OBVIOUS
  <2> QED
    BY <1>1, <2>2, <2>3, <2>4
<1>15. t[c] = 2 => size <= (M * F) * F
  <2> SUFFICES ASSUME t[c] = 2 PROVE size <= (M * F) * F
    OBVIOUS
  <2> DEFINE d == CeilDiv(c, F)
  <2>1. c > F /\ t[c] = 1 + t[d]
    BY <1>1, <1>10, <1>13
  <2>2. d \in 0 .. c /\ d \in Nat /\ c <= d * F
    BY <1>1, <1>2, <2>1, CeilIs
  <2> HIDE DEF d
  <2>3. d <= F
    BY <1>11, <1>12, <2>1, <2>2
  <2>4. c * M <= (d * F) * M /\ d * (F * M) <= F * (F * M)
    <3>1. d * F \in Nat /\ F * M \in Nat
      BY <2>2
    <3> QED
      BY <1>1, <2>2, <2>3, <3>1, TimesMonotone
  <2>5. (d * F) * M = d * (F * M) /\ F * (F * M) = (M * F) * F
    BY <2>2
  <2>6. PICK x \in Nat : x = c * M
    BY <1>1
  <2>7. PICK y \in Nat : y = d * (F * M)
    BY <2>2
  <2>8. PICK z \in Nat : z = (M * F) * F
    OBVIOUS
  <2> QED
    BY <1>1, <2>4, <2>5, <2>6, <2>7, <2>8
<1> QED
  BY <1>8, <1>11, <1>13, <1>14, <1>15

LEMMA GrandchildrenFit ==
  ASSUME NEW slice \in Nat, slice > 0, NEW F \in Nat, F > 1, NEW M \in Nat, M > 0,
         NEW K \in Nat, K > 0, K = 1 => slice <= M, K = 2 => slice <= M * F
  PROVE  /\ GrandchildSizes(slice, K, F, M) \in Seq(Nat)
         /\ Total(GrandchildSizes(slice, K, F, M)) = slice
         /\ ChildSize(slice, K, M) = slice
<1>1. ChildSize(slice, K, M) = slice
  BY DEF ChildSize
<1>2. CASE K = 1
  BY <1>1, <1>2, OnesTotal DEF GrandchildSizes
<1>3. CASE K # 1
  <2> DEFINE f == NonZero(BalancedFill(slice, F))
  <2>1. /\ f \in Seq(Nat) /\ Len(f) \in 0 .. F
        /\ \A i \in 1 .. Len(f) : f[i] = BalancedFill(slice, F)[i] /\ f[i] > 0
        /\ Total(f) = slice
    <3>1. F > 0
      OBVIOUS
    <3> QED
      BY <3>1, NonZeroFill, Zenon
  <2>2. GrandchildSizes(slice, K, F, M) = [i \in DOMAIN f |-> ChildSize(f[i], K - 1, M)]
    BY <1>3 DEF GrandchildSizes
  <2> HIDE DEF f
  <2>3. DOMAIN f = 1 .. Len(f) /\ f = [i \in DOMAIN f |-> f[i]] /\ \A i \in 1 .. Len(f) : f[i] \in Nat
    BY <2>1, LenProperties, ElementOfSeq
  <2>4. ASSUME NEW i \in DOMAIN f PROVE ChildSize(f[i], K - 1, M) = f[i]
    <3>1. CASE K = 2
      <4>1. i \in 1 .. F
        BY <2>1, <2>3
      <4>2. BalancedFill(slice, F)[i] <= M
        BY <3>1, <4>1, FillBound
      <4>3. f[i] <= M /\ f[i] \in Nat
        BY <2>1, <2>3, <4>2
      <4> QED
        BY <4>3 DEF ChildSize
    <3>2. CASE K # 2
      <4>1. ~ (K - 1 <= 1)
        BY <1>3, <3>2
      <4> QED
        BY <4>1 DEF ChildSize
    <3> QED
      BY <3>1, <3>2
  <2>5. [i \in DOMAIN f |-> ChildSize(f[i], K - 1, M)] = f
    BY <2>3, <2>4, Zenon
  <2> QED
    BY <1>1, <2>1, <2>2, <2>5
<1> QED
  BY <1>2, <1>3

\* The sizes of a plan: the root's slices are all of the items, and what a slice
\* is cut into is all of the slice.
PlanSound(r, pl) ==
  /\ pl.topology \in {"in-do", "hybrid", "tree"}
  /\ pl.sizes \in Seq(Nat) /\ Total(pl.sizes) = r.size
  /\ r.branchingFactor \in 4 .. 16
  /\ pl.topology # "tree" => pl.below = <<>>
  /\ pl.topology = "tree" =>
       /\ pl.depth \in Nat \ {0}
       /\ pl.below \in Seq(Seq(Nat)) /\ Len(pl.below) = Len(pl.sizes)
       /\ \A i \in 1 .. Len(pl.sizes) : Total(pl.below[i]) = pl.sizes[i]

LEMMA TreePlanSound ==
  ASSUME NEW r, r.size \in Nat, r.size > 0, r.branchingFactor \in 4 .. 16, r.maxFanOut \in 1 .. 256,
         NEW K \in Depths(r.size, r.branchingFactor, r.maxFanOut)
  PROVE  PlanSound(r, TreePlan(r, K))
<1> DEFINE F == r.branchingFactor
           M == r.maxFanOut
           D == Depth(r.size, F, M)
           f == NonZero(BalancedFill(r.size, F))
           pl == TreePlan(r, K)
<1>1. F \in Nat /\ F > 1 /\ M \in Nat /\ M > 0
  OBVIOUS
<1>2. /\ D \in Nat /\ D > 0
      /\ D = 1 => r.size <= M * F
      /\ D = 2 => r.size <= (M * F) * F
  <2> HIDE DEF F, M
  <2> QED
    BY <1>1, DepthIs
<1>3. K = D \/ (K = D + 1 /\ D > 1)
  BY <1>2 DEF Depths
<1>4. /\ K \in Nat /\ K > 0
      /\ K = 1 => r.size <= M * F
      /\ K = 2 => r.size <= (M * F) * F
  <2> HIDE DEF D, M, F
  <2> QED
    BY <1>2, <1>3
<1>5. /\ f \in Seq(Nat) /\ Len(f) \in 0 .. F
      /\ \A i \in 1 .. Len(f) : f[i] = BalancedFill(r.size, F)[i] /\ f[i] > 0
      /\ Total(f) = r.size
  <2> HIDE DEF F
  <2>1. F > 0
    BY <1>1
  <2> QED
    BY <1>1, <2>1, NonZeroFill, Zenon
<1>6. /\ pl.topology = "tree" /\ pl.depth = K
      /\ pl.sizes = [i \in DOMAIN f |-> ChildSize(f[i], K, M)]
      /\ pl.below = [i \in DOMAIN f |-> GrandchildSizes(f[i], K, F, M)]
  BY DEF TreePlan
<1> HIDE DEF F, M, D, f, pl
<1>7. DOMAIN f = 1 .. Len(f) /\ f = [i \in DOMAIN f |-> f[i]] /\ \A i \in 1 .. Len(f) : f[i] \in Nat
  BY <1>5, LenProperties, ElementOfSeq
<1>8. ASSUME NEW i \in 1 .. Len(f)
      PROVE  /\ GrandchildSizes(f[i], K, F, M) \in Seq(Nat)
             /\ Total(GrandchildSizes(f[i], K, F, M)) = f[i]
             /\ ChildSize(f[i], K, M) = f[i]
  <2>1. i \in 1 .. F /\ f[i] \in Nat /\ f[i] > 0 /\ f[i] = BalancedFill(r.size, F)[i]
    BY <1>1, <1>5, <1>7
  <2>2. K = 1 => f[i] <= M
    BY <1>1, <1>4, <2>1, FillBound
  <2>3. K = 2 => f[i] <= M * F
    <3>1. M * F \in Nat
      BY <1>1
    <3> QED
      BY <1>1, <1>4, <2>1, <3>1, FillBound
  <2>4. PICK x \in Nat : x = f[i]
    BY <2>1
  <2>5. x > 0 /\ (K = 1 => x <= M) /\ (K = 2 => x <= M * F)
    BY <2>1, <2>2, <2>3, <2>4
  <2>6. F \in Nat /\ F > 1 /\ M \in Nat /\ M > 0 /\ K \in Nat /\ K > 0
    BY <1>1, <1>4
  <2>7. /\ GrandchildSizes(x, K, F, M) \in Seq(Nat)
        /\ Total(GrandchildSizes(x, K, F, M)) = x
        /\ ChildSize(x, K, M) = x
    BY <2>5, <2>6, GrandchildrenFit
  <2> QED
    BY <2>4, <2>7
<1>9. pl.sizes = f
  BY <1>6, <1>7, <1>8, Zenon
<1>10. pl.below \in Seq(Seq(Nat)) /\ Len(pl.below) = Len(f)
  BY <1>5, <1>6, <1>7, <1>8
<1>11. \A i \in 1 .. Len(f) : Total(pl.below[i]) = pl.sizes[i]
  BY <1>6, <1>7, <1>8, <1>9
<1>12. pl.depth \in Nat \ {0} /\ r.branchingFactor \in 4 .. 16
  BY <1>4, <1>6
<1>13. PlanSound(r, pl)
  BY <1>5, <1>6, <1>9, <1>10, <1>11, <1>12 DEF PlanSound
<1> QED
  BY <1>13 DEF pl

LEMMA PlansSound ==
  ASSUME NEW r, r.size \in Nat, r.size > 0, ~ Refused(r), NEW pl \in Plans(r),
         r.topology \in {"auto", "in-do", "hybrid", "tree"}
  PROVE  PlanSound(r, pl)
<1>1. r.branchingFactor \in 4 .. 16 /\ r.maxFanOut \in 1 .. 256
  BY DEF Refused
<1>2. CASE Chosen(r) = "in-do"
  <2>1. pl = InDoPlan(r)
    BY <1>2 DEF Plans
  <2>2. <<r.size>> \in Seq(Nat) /\ Len(<<r.size>>) = 1 /\ <<r.size>>[1] = r.size
    OBVIOUS
  <2> DEFINE s == <<r.size>>
  <2>3. Total(s) = r.size
    <3>1. s \in Seq(Nat) /\ Len(s) = 1 /\ s[1] = r.size
      BY <2>2
    <3> HIDE DEF s
    <3>2. Ends(s)[1] = Ends(s)[0] + s[1] /\ Ends(s)[0] = 0
      <4>1. 1 \in 1 .. Len(s) /\ 1 - 1 = 0
        BY <3>1
      <4> QED
        BY <3>1, <4>1, EndsAre
    <3> QED
      BY <3>1, <3>2 DEF Total
  <2> QED
    BY <1>1, <2>1, <2>2, <2>3 DEF PlanSound, InDoPlan
<1>3. CASE Chosen(r) = "hybrid"
  <2>1. pl = HybridPlan(r)
    BY <1>3 DEF Plans
  <2> QED
    BY <1>1, <2>1, OnesTotal DEF PlanSound, HybridPlan
<1>4. CASE Chosen(r) = "tree"
  <2>1. PICK K \in Depths(r.size, r.branchingFactor, r.maxFanOut) : pl = TreePlan(r, K)
    BY <1>4 DEF Plans
  <2> QED
    BY <1>1, <2>1, TreePlanSound
<1>5. Chosen(r) \in {"in-do", "hybrid", "tree"}
  BY DEF Chosen
<1> QED
  BY <1>2, <1>3, <1>4, <1>5

-----------------------------------------------------------------------------
(* Children side by side.                                                   *)

\* The n items from slot lo on.
Block(lo, n) == [k \in 1 .. n |-> lo + k]

ItemsOf(children) == [i \in DOMAIN children |-> children[i].items]

\* A child's items are those from its slot on; a sub-coordinator is told sizes
\* that make up its items.
SoundChild(c) ==
  /\ c.kind \in {"leaf", "sub", "here"}
  /\ c.base \in Nat /\ c.items \in Seq(Nat) /\ c.items = Block(c.base, Len(c.items))
  /\ c.kind = "sub" =>
       /\ c.sizes \in Seq(Nat) /\ Total(c.sizes) = Len(c.items)
       /\ c.depth \in Nat

\* The children share out the n items from slot lo on, in order.
Tile(children, lo, n) ==
  /\ ItemsOf(children) \in Seq(Seq(Nat))
  /\ Total(Lengths(ItemsOf(children))) = n
  /\ \A i \in DOMAIN children :
       /\ SoundChild(children[i])
       /\ children[i].base = lo + Ends(Lengths(ItemsOf(children)))[i - 1]

LEMMA BlockIs ==
  ASSUME NEW lo \in Nat, NEW n \in Nat
  PROVE  Block(lo, n) \in Seq(Nat) /\ Len(Block(lo, n)) = n /\ \A k \in 1 .. n : Block(lo, n)[k] = lo + k
BY DEF Block

\* An item of a tile is the item of one child.
LEMMA TilePlaces ==
  ASSUME NEW children, NEW lo \in Nat, NEW n \in Nat, Tile(children, lo, n)
  PROVE  LET e == Ends(Lengths(ItemsOf(children)))
         IN /\ Len(ItemsOf(children)) \in Nat /\ DOMAIN children = 1 .. Len(ItemsOf(children))
            /\ \A i \in DOMAIN children :
                 /\ e[i - 1] \in Nat /\ e[i] \in Nat /\ Len(children[i].items) \in Nat
                 /\ e[i] = e[i - 1] + Len(children[i].items)
                 /\ children[i].base = lo + e[i - 1]
<1> DEFINE ss == ItemsOf(children)
           s == Lengths(ss)
           e == Ends(s)
<1>1. ss \in Seq(Seq(Nat)) /\ DOMAIN ss = DOMAIN children
  BY DEF Tile, ItemsOf
<1>2. \A i \in DOMAIN children : ss[i] = children[i].items /\ children[i].base = lo + e[i - 1]
  BY DEF Tile, ItemsOf
<1> HIDE DEF ss
<1>3. /\ Len(ss) \in Nat /\ DOMAIN ss = 1 .. Len(ss) /\ s \in Seq(Nat) /\ Len(s) = Len(ss)
      /\ \A i \in 1 .. Len(ss) : Len(ss[i]) \in Nat /\ s[i] = Len(ss[i])
  BY <1>1, LengthsTyped
<1> HIDE DEF s
<1>4. e \in [0 .. Len(ss) -> Nat] /\ \A i \in 1 .. Len(ss) : e[i] = e[i - 1] + s[i]
  BY <1>3, EndsAre
<1> HIDE DEF e
<1>5. ASSUME NEW i \in DOMAIN children
      PROVE  /\ e[i - 1] \in Nat /\ e[i] \in Nat /\ Len(children[i].items) \in Nat
             /\ e[i] = e[i - 1] + Len(children[i].items)
  <2>1. i \in 1 .. Len(ss) /\ i - 1 \in 0 .. Len(ss) /\ i \in 0 .. Len(ss)
    BY <1>1, <1>3
  <2> QED
    BY <1>2, <1>3, <1>4, <2>1
<1> QED
  BY <1>1, <1>2, <1>3, <1>5 DEF ss, s, e

\* Put together, the slices of a tile are what was cut.
LEMMA TileCut ==
  ASSUME NEW children, NEW lo \in Nat, NEW n \in Nat, Tile(children, lo, n)
  PROVE  Cut(children) = Block(lo, n)
<1> DEFINE ss == ItemsOf(children)
           e == Ends(Lengths(ss))
<1>1. Cut(children) = Concatenation(ss)
  BY DEF Cut, Map, ItemsOf
<1>2. ss \in Seq(Seq(Nat)) /\ Total(Lengths(ss)) = n /\ DOMAIN ss = DOMAIN children
  BY DEF Tile, ItemsOf
<1>3. \A i \in DOMAIN children : ss[i] = children[i].items /\ SoundChild(children[i])
  BY DEF Tile, ItemsOf
<1>4. \A i \in DOMAIN children : children[i].base = lo + e[i - 1] /\ e[i - 1] \in Nat
  BY TilePlaces
<1>5. DOMAIN ss = 1 .. Len(ss) /\ Len(ss) \in Nat
  BY <1>2, LenProperties
<1> HIDE DEF ss
<1>6. /\ Concatenation(ss) \in Seq(Nat) /\ Len(Concatenation(ss)) = n
      /\ \A k \in 1 .. n : \E i \in 1 .. Len(ss) :
           k - e[i - 1] \in 1 .. Len(ss[i]) /\ Concatenation(ss)[k] = ss[i][k - e[i - 1]]
  BY <1>2, ConcatenationIs
<1> HIDE DEF e
<1>7. ASSUME NEW k \in 1 .. n PROVE Concatenation(ss)[k] = lo + k
  <2>1. PICK i \in 1 .. Len(ss) : k - e[i - 1] \in 1 .. Len(ss[i]) /\ Concatenation(ss)[k] = ss[i][k - e[i - 1]]
    BY <1>6
  <2>2. ss[i] = children[i].items /\ children[i].base = lo + e[i - 1] /\ e[i - 1] \in Nat
    BY <1>2, <1>3, <1>4, <1>5
  <2>3. children[i].items = Block(children[i].base, Len(children[i].items))
    BY <1>2, <1>3, <1>5 DEF SoundChild
  <2>4. ss[i][k - e[i - 1]] = (lo + e[i - 1]) + (k - e[i - 1])
    BY <2>1, <2>2, <2>3 DEF Block
  <2> QED
    BY <2>1, <2>2, <2>4
<1>8. Concatenation(ss) = [k \in 1 .. n |-> Concatenation(ss)[k]]
  BY <1>6
<1> QED
  BY <1>1, <1>7, <1>8 DEF Block

\* Children of given sizes, one after another, are a tile.
LEMMA TileOf ==
  ASSUME NEW children, NEW sizes \in Seq(Nat), NEW lo \in Nat,
         DOMAIN children = 1 .. Len(sizes),
         \A i \in 1 .. Len(sizes) :
           /\ children[i].base = lo + Ends(sizes)[i - 1]
           /\ children[i].items = Block(lo + Ends(sizes)[i - 1], sizes[i])
           /\ SoundChild(children[i])
  PROVE  Tile(children, lo, Total(sizes))
<1>1. Len(sizes) \in Nat /\ DOMAIN sizes = 1 .. Len(sizes)
      /\ \A i \in 1 .. Len(sizes) : sizes[i] \in Nat /\ Ends(sizes)[i - 1] \in Nat
  <2>1. Len(sizes) \in Nat /\ DOMAIN sizes = 1 .. Len(sizes)
    BY LenProperties
  <2>2. \A i \in 1 .. Len(sizes) : sizes[i] \in Nat
    BY ElementOfSeq
  <2>3. \A i \in 1 .. Len(sizes) : i - 1 \in 0 .. Len(sizes)
    BY <2>1
  <2> QED
    BY <2>1, <2>2, <2>3, EndsAre
<1> DEFINE ss == ItemsOf(children)
<1>2. ss = [i \in 1 .. Len(sizes) |-> children[i].items]
  BY DEF ItemsOf
<1>3. ASSUME NEW i \in 1 .. Len(sizes)
      PROVE  children[i].items \in Seq(Nat) /\ Len(children[i].items) = sizes[i]
  <2>1. PICK m \in Nat : m = sizes[i]
    BY <1>1
  <2>a. Ends(sizes)[i - 1] \in Nat
    BY <1>1
  <2>b. \A a \in Nat : lo + a \in Nat
    OBVIOUS
  <2>2. PICK x \in Nat : x = lo + Ends(sizes)[i - 1]
    BY <2>a, <2>b
  <2>3. Block(x, m) \in Seq(Nat) /\ Len(Block(x, m)) = m
    BY BlockIs
  <2> QED
    BY <2>1, <2>2, <2>3
<1> HIDE DEF ss
<1>4. ss \in Seq(Seq(Nat)) /\ DOMAIN ss = 1 .. Len(sizes) /\ \A i \in 1 .. Len(sizes) : Len(ss[i]) = sizes[i]
  BY <1>1, <1>2, <1>3
<1>5. Lengths(ss) = sizes
  <2>1. sizes = [i \in 1 .. Len(sizes) |-> sizes[i]]
    BY <1>1
  <2> QED
    BY <1>4, <2>1 DEF Lengths
<1> QED
  BY <1>4, <1>5 DEF Tile, ss

\* What Array.slice takes from a block, when the sizes make it up.
LEMMA SlicesAre ==
  ASSUME NEW lo \in Nat, NEW sizes \in Seq(Nat)
  PROVE  LET slices == Slices(Block(lo, Total(sizes)), sizes, lo)
         IN /\ slices \in Seq([items : Seq(Nat), base : Nat]) /\ Len(slices) = Len(sizes)
            /\ \A i \in 1 .. Len(sizes) :
                 /\ slices[i].base = lo + Ends(sizes)[i - 1]
                 /\ slices[i].items = Block(lo + Ends(sizes)[i - 1], sizes[i])
<1> DEFINE e == Ends(sizes)
           n == e[Len(sizes)]
           all == Block(lo, n)
           item(i) == SubSeq(all, e[i - 1] + 1, IF e[i] > Len(all) THEN Len(all) ELSE e[i])
<1>1. /\ Len(sizes) \in Nat /\ DOMAIN sizes = 1 .. Len(sizes)
      /\ \A i \in 0 .. Len(sizes) : e[i] \in Nat
      /\ \A i \in 1 .. Len(sizes) : sizes[i] \in Nat /\ e[i] = e[i - 1] + sizes[i]
  BY LenProperties, ElementOfSeq, EndsAre
<1>2. \A i \in 0 .. Len(sizes) : e[i] <= n
  BY <1>1, EndsGrow
<1>3. n \in Nat
  BY <1>1
<1>4. Slices(Block(lo, Total(sizes)), sizes, lo) = [i \in 1 .. Len(sizes) |-> [items |-> item(i), base |-> lo + e[i - 1]]]
  BY <1>1 DEF Slices, Total
<1> HIDE DEF e, n
<1>5. all \in Seq(Nat) /\ Len(all) = n /\ \A k \in 1 .. n : all[k] = lo + k
  BY <1>3, BlockIs
<1> HIDE DEF all
<1>6. ASSUME NEW i \in 1 .. Len(sizes)
      PROVE  item(i) \in Seq(Nat) /\ e[i - 1] \in Nat /\ item(i) = Block(lo + e[i - 1], sizes[i])
  <2>1. PICK x \in Nat : x = e[i - 1]
    <3>1. i - 1 \in 0 .. Len(sizes)
      BY <1>1
    <3> QED
      BY <1>1, <3>1
  <2>2. PICK m \in Nat : m = sizes[i]
    BY <1>1
  <2>3. e[i] = x + m /\ x + m <= n
    <3>1. i \in 0 .. Len(sizes)
      BY <1>1
    <3>2. e[i] = x + m /\ e[i] <= n
      BY <1>1, <1>2, <2>1, <2>2, <3>1
    <3> QED
      BY <3>2
  <2>4. item(i) = SubSeq(all, x + 1, x + m)
    <3>1. (IF e[i] > Len(all) THEN Len(all) ELSE e[i]) = x + m
      <4>1. ~ (x + m > Len(all))
        BY <1>3, <1>5, <2>3
      <4> QED
        BY <2>3, <4>1
    <3>2. e[i - 1] + 1 = x + 1
      BY <2>1
    <3> QED
      BY <3>1, <3>2, Zenon
  <2>5. \A k \in x + 1 .. x + m : all[k] \in Nat /\ all[k] = lo + k
    BY <1>3, <1>5, <2>3
  <2>6. /\ SubSeq(all, x + 1, x + m) \in Seq(Nat)
        /\ Len(SubSeq(all, x + 1, x + m)) = IF x + 1 <= x + m THEN (x + m) - (x + 1) + 1 ELSE 0
        /\ \A k \in 1 .. (x + m) - (x + 1) + 1 : SubSeq(all, x + 1, x + m)[k] = all[(x + 1) + k - 1]
    BY <2>5, SubSeqProperties
  <2>7. Len(SubSeq(all, x + 1, x + m)) = m
    BY <2>6
  <2>8. \A k \in 1 .. m : SubSeq(all, x + 1, x + m)[k] = (lo + x) + k
    <3> TAKE k \in 1 .. m
    <3>1. k \in 1 .. (x + m) - (x + 1) + 1 /\ (x + 1) + k - 1 = x + k /\ x + k \in x + 1 .. x + m
      OBVIOUS
    <3>2. SubSeq(all, x + 1, x + m)[k] = all[x + k]
      BY <2>6, <3>1
    <3> QED
      BY <2>5, <3>1, <3>2
  <2> DEFINE sub == SubSeq(all, x + 1, x + m)
  <2> HIDE DEF sub
  <2>9. sub = [k \in 1 .. m |-> sub[k]]
    BY <2>6, <2>7, LenProperties DEF sub
  <2>10. sub = Block(lo + x, m)
    BY <2>8, <2>9 DEF Block, sub
  <2> QED
    BY <2>1, <2>2, <2>4, <2>6, <2>10 DEF sub
<1> HIDE DEF item
<1>7. \A i \in 1 .. Len(sizes) : lo + e[i - 1] \in Nat
  BY <1>6
<1> DEFINE slices == [i \in 1 .. Len(sizes) |-> [items |-> item(i), base |-> lo + e[i - 1]]]
<1>8. /\ slices \in Seq([items : Seq(Nat), base : Nat]) /\ Len(slices) = Len(sizes)
      /\ \A i \in 1 .. Len(sizes) :
           slices[i].base = lo + e[i - 1] /\ slices[i].items = Block(lo + e[i - 1], sizes[i])
  BY <1>1, <1>6, <1>7
<1> QED
  BY <1>4, <1>8 DEF e

\* The root's children share out all of the items.
LEMMA RootTile ==
  ASSUME req.size \in Nat, PlanSound(req, plan)
  PROVE  /\ Tile(RootChildren, 0, req.size)
         /\ \A i \in DOMAIN RootChildren :
              /\ plan.topology = "in-do" => RootChildren[i].kind = "here"
              /\ plan.topology = "hybrid" => RootChildren[i].kind = "leaf"
              /\ plan.topology = "tree" => RootChildren[i].kind = "sub" /\ RootChildren[i].depth = plan.depth - 1
<1> DEFINE slices == Slices([k \in Items |-> k], plan.sizes, 0)
           sizes == plan.sizes
           e == Ends(sizes)
           ch == RootChildren
<1>1. sizes \in Seq(Nat) /\ Total(sizes) = req.size
  BY DEF PlanSound
<1>2. [k \in Items |-> k] = Block(0, req.size)
  BY DEF Block, Items
<1>3. /\ slices \in Seq([items : Seq(Nat), base : Nat]) /\ Len(slices) = Len(sizes)
      /\ \A i \in 1 .. Len(sizes) : slices[i].base = 0 + e[i - 1] /\ slices[i].items = Block(0 + e[i - 1], sizes[i])
  <2>1. slices = Slices(Block(0, Total(sizes)), sizes, 0)
    BY <1>1, <1>2
  <2> HIDE DEF slices
  <2> QED
    BY <1>1, <2>1, SlicesAre
<1>4. ch = [i \in DOMAIN slices |->
        CASE plan.topology = "in-do"  -> Child("here", slices[i], <<>>, 0)
          [] plan.topology = "hybrid" -> Child("leaf", slices[i], <<>>, 0)
          [] plan.topology = "tree"   -> Child("sub", slices[i], plan.below[i], plan.depth - 1)]
  BY DEF RootChildren
<1> HIDE DEF slices, ch, e
<1>5. /\ DOMAIN slices = 1 .. Len(sizes) /\ Len(sizes) \in Nat
      /\ \A i \in 1 .. Len(sizes) : slices[i] \in [items : Seq(Nat), base : Nat]
  BY <1>1, <1>3, LenProperties, ElementOfSeq
<1>6. \A i \in 1 .. Len(sizes) : sizes[i] \in Nat /\ e[i - 1] \in Nat
  <2>1. \A i \in 1 .. Len(sizes) : i - 1 \in 0 .. Len(sizes)
    BY <1>5
  <2> QED
    BY <1>1, <2>1, ElementOfSeq, EndsAre DEF e
<1>7. ASSUME NEW i \in 1 .. Len(sizes)
      PROVE  /\ ch[i].items = slices[i].items /\ ch[i].base = slices[i].base
             /\ plan.topology = "in-do" => ch[i].kind = "here"
             /\ plan.topology = "hybrid" => ch[i].kind = "leaf"
             /\ plan.topology = "tree" =>
                  ch[i].kind = "sub" /\ ch[i].depth = plan.depth - 1 /\ ch[i].sizes = plan.below[i]
             /\ ch[i].kind \in {"here", "leaf", "sub"} /\ (ch[i].kind = "sub" => plan.topology = "tree")
  <2>1. plan.topology \in {"in-do", "hybrid", "tree"}
    BY DEF PlanSound
  <2> QED
    BY <1>4, <1>5, <2>1 DEF Child
<1>8. ASSUME NEW i \in 1 .. Len(sizes)
      PROVE  /\ ch[i].base = 0 + e[i - 1] /\ ch[i].items = Block(0 + e[i - 1], sizes[i])
             /\ SoundChild(ch[i])
  <2>1. PICK x \in Nat : x = 0 + e[i - 1]
    <3>1. e[i - 1] \in Nat
      BY <1>6
    <3>2. \A a \in Nat : 0 + a \in Nat
      OBVIOUS
    <3> QED
      BY <3>1, <3>2
  <2>2. PICK m \in Nat : m = sizes[i]
    BY <1>6
  <2>3. ch[i].base = x /\ ch[i].items = Block(x, m)
    BY <1>3, <1>7, <2>1, <2>2
  <2>4. ch[i].items \in Seq(Nat) /\ Len(ch[i].items) = m
    <3>1. Block(x, m) \in Seq(Nat) /\ Len(Block(x, m)) = m
      BY BlockIs
    <3> QED
      BY <2>3, <3>1
  <2>5. ch[i].kind = "sub" =>
          /\ ch[i].sizes \in Seq(Nat) /\ Total(ch[i].sizes) = Len(ch[i].items)
          /\ ch[i].depth \in Nat
    <3> SUFFICES ASSUME ch[i].kind = "sub"
                 PROVE  /\ ch[i].sizes \in Seq(Nat) /\ Total(ch[i].sizes) = Len(ch[i].items)
                        /\ ch[i].depth \in Nat
      OBVIOUS
    <3>1. plan.topology = "tree" /\ ch[i].sizes = plan.below[i] /\ ch[i].depth = plan.depth - 1
      BY <1>7
    <3>2. /\ plan.depth \in Nat \ {0}
          /\ plan.below \in Seq(Seq(Nat)) /\ Len(plan.below) = Len(sizes) /\ Total(plan.below[i]) = sizes[i]
      BY <3>1 DEF PlanSound
    <3>3. plan.below[i] \in Seq(Nat)
      BY <3>2, ElementOfSeq
    <3>4. \A d \in Nat \ {0} : d - 1 \in Nat
      OBVIOUS
    <3>5. ch[i].depth \in Nat
      BY <3>1, <3>2, <3>4
    <3> QED
      BY <2>2, <2>4, <3>1, <3>2, <3>3, <3>5
  <2> QED
    BY <1>7, <2>1, <2>2, <2>3, <2>4, <2>5 DEF SoundChild
<1>9. DOMAIN ch = 1 .. Len(sizes)
  BY <1>4, <1>5
<1> HIDE DEF sizes
<1>10. Tile(ch, 0, req.size)
  BY <1>1, <1>8, <1>9, TileOf DEF e
<1> QED
  BY <1>7, <1>9, <1>10 DEF ch

\* The leaf that runs the item at a slot.
LeafAt(slot) == Child("leaf", [items |-> <<slot + 1>>, base |-> slot], <<>>, 0)

LEMMA LeafSound ==
  ASSUME NEW slot \in Nat
  PROVE  /\ SoundChild(LeafAt(slot)) /\ LeafAt(slot).items = Block(slot, 1)
         /\ LeafAt(slot).base = slot /\ LeafAt(slot).kind = "leaf"
<1>1. <<slot + 1>> = Block(slot, 1)
  BY DEF Block
<1>2. Block(slot, 1) \in Seq(Nat) /\ Len(Block(slot, 1)) = 1
  BY BlockIs
<1> QED
  BY <1>1, <1>2 DEF LeafAt, Child, SoundChild

\* A sub-coordinator's children share out what it was sent.
LEMMA SubTile ==
  ASSUME NEW c, SoundChild(c), c.kind = "sub", req.branchingFactor \in 4 .. 16
  PROVE  /\ Tile(SubChildren(c), c.base, Len(c.items))
         /\ \A i \in DOMAIN SubChildren(c) :
              IF c.depth <= 1 THEN SubChildren(c)[i].kind = "leaf"
              ELSE SubChildren(c)[i].kind = "sub" /\ SubChildren(c)[i].depth = c.depth - 1
<1> DEFINE lo == c.base
           sizes == c.sizes
           n == Len(c.items)
           slices == Slices(c.items, sizes, lo)
           leaves(s) == [k \in DOMAIN s.items |->
                           Child("leaf", [items |-> <<s.items[k]>>, base |-> s.base + k - 1], <<>>, 0)]
           sub(s) == Child("sub", s, BalancedFill(Len(s.items), req.branchingFactor), c.depth - 1)
           ch == SubChildren(c)
           e == Ends(sizes)
<1>1. /\ lo \in Nat /\ n \in Nat /\ sizes \in Seq(Nat) /\ Total(sizes) = n /\ c.items = Block(lo, n)
      /\ c.depth \in Nat /\ req.branchingFactor \in 4 .. 16
  BY LenProperties DEF SoundChild
<1>2. /\ slices \in Seq([items : Seq(Nat), base : Nat]) /\ Len(slices) = Len(sizes)
      /\ \A i \in 1 .. Len(sizes) : slices[i].base = lo + e[i - 1] /\ slices[i].items = Block(lo + e[i - 1], sizes[i])
  <2>1. slices = Slices(Block(lo, Total(sizes)), sizes, lo)
    BY <1>1
  <2> HIDE DEF slices, lo, sizes
  <2> QED
    BY <1>1, <2>1, SlicesAre
<1>3. ch = IF c.depth <= 1 THEN Concatenation([i \in DOMAIN slices |-> leaves(slices[i])])
           ELSE [i \in DOMAIN slices |-> sub(slices[i])]
  BY DEF SubChildren, Map
<1> HIDE DEF slices, ch, e, lo, sizes, n
<1>4. DOMAIN slices = 1 .. Len(sizes) /\ Len(sizes) \in Nat
  BY <1>1, <1>2, LenProperties
<1>5. \A i \in 1 .. Len(sizes) : sizes[i] \in Nat /\ e[i - 1] \in Nat
  <2>1. \A i \in 1 .. Len(sizes) : i - 1 \in 0 .. Len(sizes)
    BY <1>4
  <2> QED
    BY <1>1, <2>1, ElementOfSeq, EndsAre DEF e
<1>6. CASE c.depth <= 1
  <2> DEFINE S == {LeafAt(a) : a \in Nat}
             ss == [i \in DOMAIN slices |-> leaves(slices[i])]
  <2>1. ASSUME NEW i \in 1 .. Len(sizes)
        PROVE  /\ ss[i] \in Seq(S) /\ Len(ss[i]) = sizes[i]
               /\ \A k \in 1 .. sizes[i] : ss[i][k] = LeafAt((lo + e[i - 1]) + k - 1)
    <3>1. PICK x \in Nat : x = lo + e[i - 1]
      <4>1. e[i - 1] \in Nat
        BY <1>5
      <4>2. \A a \in Nat : lo + a \in Nat
        BY <1>1
      <4> QED
        BY <4>1, <4>2
    <3>2. PICK m \in Nat : m = sizes[i]
      BY <1>5
    <3>3. slices[i].base = x /\ slices[i].items = Block(x, m)
      BY <1>2, <3>1, <3>2
    <3>4. ss[i] = [k \in 1 .. m |-> Child("leaf", [items |-> <<x + k>>, base |-> x + k - 1], <<>>, 0)]
      <4>1. DOMAIN slices[i].items = 1 .. m /\ \A k \in 1 .. m : slices[i].items[k] = x + k
        BY <3>3 DEF Block
      <4> QED
        BY <1>4, <3>3, <4>1
    <3>5. \A k \in 1 .. m : x + k - 1 \in Nat /\ (x + k - 1) + 1 = x + k
      OBVIOUS
    <3>6. \A k \in 1 .. m : ss[i][k] = LeafAt(x + k - 1)
      BY <3>4, <3>5 DEF LeafAt
    <3> HIDE DEF ss
    <3>7. \A k \in 1 .. m : ss[i][k] \in S
      BY <3>5, <3>6
    <3> HIDE DEF S
    <3>8. ss[i] \in Seq(S) /\ Len(ss[i]) = m
      <4>1. ss[i] = [k \in 1 .. m |-> ss[i][k]]
        BY <3>4
      <4> QED
        BY <3>7, <4>1
    <3> QED
      BY <3>1, <3>2, <3>6, <3>8
  <2>2. ch = Concatenation(ss)
    BY <1>3, <1>6
  <2>3. DOMAIN ss = 1 .. Len(sizes) /\ ss = [i \in 1 .. Len(sizes) |-> ss[i]]
    BY <1>4
  <2> HIDE DEF ss, S
  <2>4. ss \in Seq(Seq(S)) /\ Len(ss) = Len(sizes)
    BY <1>4, <2>1, <2>3
  <2>5. Lengths(ss) = sizes
    <3>1. sizes = [i \in 1 .. Len(sizes) |-> sizes[i]]
      BY <1>1, LenProperties
    <3> QED
      BY <2>1, <2>3, <3>1 DEF Lengths
  <2>6. /\ ch \in Seq(S) /\ Len(ch) = n
        /\ \A k \in 1 .. n : \E i \in 1 .. Len(sizes) :
             k - e[i - 1] \in 1 .. Len(ss[i]) /\ ch[k] = ss[i][k - e[i - 1]]
    BY <1>1, <2>2, <2>4, <2>5, ConcatenationIs DEF e
  <2>7. ASSUME NEW k \in 1 .. n PROVE ch[k] = LeafAt(lo + (k - 1))
    <3>1. PICK i \in 1 .. Len(sizes) : k - e[i - 1] \in 1 .. Len(ss[i]) /\ ch[k] = ss[i][k - e[i - 1]]
      BY <2>6
    <3>2. PICK x \in Nat : x = e[i - 1]
      BY <1>5
    <3>3. k - x \in 1 .. sizes[i] /\ ch[k] = LeafAt((lo + x) + (k - x) - 1)
      BY <2>1, <3>1, <3>2
    <3>4. (lo + x) + (k - x) - 1 = lo + (k - 1)
      BY <1>1
    <3> QED
      BY <3>3, <3>4
  <2>8. DOMAIN ch = 1 .. n
    BY <2>6, LenProperties
  <2>9. Ones(n) \in Seq(Nat) /\ Len(Ones(n)) = n /\ Total(Ones(n)) = n
        /\ \A i \in 1 .. n : Ones(n)[i] = 1 /\ Ends(Ones(n))[i - 1] = i - 1
    <3>1. \A i \in 1 .. n : i - 1 \in 0 .. n
      BY <1>1
    <3> QED
      BY <1>1, <3>1, OnesTotal
  <2>10. \A i \in 1 .. n : /\ ch[i].base = lo + (i - 1)
                           /\ ch[i].items = Block(lo + (i - 1), 1)
                           /\ SoundChild(ch[i]) /\ ch[i].kind = "leaf"
    <3>1. \A i \in 1 .. n : lo + (i - 1) \in Nat
      BY <1>1
    <3> QED
      BY <2>7, <3>1, LeafSound
  <2>11. Tile(ch, lo, n)
    <3> DEFINE o == Ones(n)
    <3>1. o \in Seq(Nat) /\ Len(o) = n /\ Total(o) = n
          /\ \A i \in 1 .. n : o[i] = 1 /\ Ends(o)[i - 1] = i - 1
      BY <2>9
    <3> HIDE DEF o
    <3>2. \A i \in 1 .. Len(o) : /\ ch[i].base = lo + Ends(o)[i - 1]
                                 /\ ch[i].items = Block(lo + Ends(o)[i - 1], o[i])
                                 /\ SoundChild(ch[i])
      BY <2>10, <3>1
    <3> QED
      BY <1>1, <2>8, <3>1, <3>2, TileOf
  <2> QED
    BY <1>6, <2>8, <2>10, <2>11 DEF ch, lo, n
<1>7. CASE ~ (c.depth <= 1)
  <2>1. ch = [i \in 1 .. Len(sizes) |-> sub(slices[i])]
    BY <1>3, <1>4, <1>7
  <2>2. ASSUME NEW i \in 1 .. Len(sizes)
        PROVE  /\ ch[i].base = lo + e[i - 1] /\ ch[i].items = Block(lo + e[i - 1], sizes[i])
               /\ SoundChild(ch[i]) /\ ch[i].kind = "sub" /\ ch[i].depth = c.depth - 1
    <3>1. PICK x \in Nat : x = lo + e[i - 1]
      <4>1. e[i - 1] \in Nat
        BY <1>5
      <4>2. \A a \in Nat : lo + a \in Nat
        BY <1>1
      <4> QED
        BY <4>1, <4>2
    <3>2. PICK m \in Nat : m = sizes[i]
      BY <1>5
    <3>3. slices[i].base = x /\ slices[i].items = Block(x, m)
      BY <1>2, <3>1, <3>2
    <3>4. /\ ch[i].base = x /\ ch[i].items = Block(x, m) /\ ch[i].kind = "sub" /\ ch[i].depth = c.depth - 1
          /\ ch[i].sizes = BalancedFill(Len(Block(x, m)), req.branchingFactor)
      BY <2>1, <3>3 DEF Child
    <3>5. Block(x, m) \in Seq(Nat) /\ Len(Block(x, m)) = m
      BY BlockIs
    <3>6. ch[i].sizes \in Seq(Nat) /\ Total(ch[i].sizes) = m
      <4>0. \A b \in 4 .. 16 : b \in Nat /\ b > 0
        OBVIOUS
      <4>1. PICK F \in Nat : F = req.branchingFactor /\ F > 0
        BY <1>1, <4>0
      <4>2. BalancedFill(m, F) \in Seq(Nat) /\ Total(BalancedFill(m, F)) = m
        BY <4>1, FillIs
      <4> QED
        BY <3>4, <3>5, <4>1, <4>2
    <3>7. c.depth - 1 \in Nat
      BY <1>1, <1>7
    <3> QED
      BY <1>1, <3>1, <3>2, <3>4, <3>5, <3>6, <3>7 DEF SoundChild
  <2>3. DOMAIN ch = 1 .. Len(sizes)
    BY <2>1
  <2>4. Tile(ch, lo, n)
    BY <1>1, <2>2, <2>3, TileOf DEF e
  <2> QED
    BY <1>7, <2>2, <2>3, <2>4 DEF ch, lo, n
<1> QED
  BY <1>6, <1>7

-----------------------------------------------------------------------------
(* The coordinators that run.                                               *)

Results == [of : Nat, slot : Nat, out : Outs]

\* A true result of item k.
Right(res, k, r, f) ==
  /\ res.of = k
  /\ res.out = "ok" => k \notin r.throwing \cup r.lookalike
  /\ res.out = "user" => k \in r.throwing
  /\ f = 0 => (res.out = "transient" <=> k \in r.lookalike) /\ res.out # "fatal"

\* A true result for each of the items, in their order.
Answers(got, items, r, f) ==
  /\ got \in Seq(Results) /\ Len(got) = Len(items)
  /\ \A k \in 1 .. Len(items) : Right(got[k], items[k], r, f)

Cells ==
  {x \in [phase : {"sent", "out", "backoff", "done"}, attempt : 0 .. MaxRetries, got : Seq(Results)] :
     x.phase = "backoff" => x.attempt < MaxRetries}

CellSound(cell, c, r, f) ==
  /\ cell \in Cells
  /\ cell.phase = "sent" => c.kind = "sub"
  /\ cell.phase = "done" => Answers(cell.got, c.items, r, f)

\* A coordinator: its children are side by side, its cells sound.
NodeSound(node, r, f) ==
  /\ node = [children |-> node.children, cells |-> node.cells]
  /\ \E lo \in Nat, n \in Nat : Tile(node.children, lo, n)
  /\ node.cells = [i \in DOMAIN node.children |-> node.cells[i]]
  /\ \A i \in DOMAIN node.children : CellSound(node.cells[i], node.children[i], r, f)

Paths == Seq(Nat \X Nat)

Path(p, i, a) == Append(p, <<i, a>>)

Callee(p, i) == Path(p, i, coord[p].cells[i].attempt)

\* q is below the i-th call of p, in the attempt AttemptOf(q, p).
Under(q, p, i) ==
  Len(p) < Len(q) /\ (\A j \in 1 .. Len(p) : q[j] = p[j]) /\ q[Len(p) + 1][1] = i

AttemptOf(q, p) == q[Len(p) + 1][2]

\* A callee runs on what the call sent it.
LinksSound ==
  \A p \in DOMAIN coord : \A i \in DOMAIN coord[p].children :
    Callee(p, i) \in DOMAIN coord =>
      Tile(coord[Callee(p, i)].children, coord[p].children[i].base, Len(coord[p].children[i].items))

\* Nothing runs yet below a call that is still under way, nor below a later
\* attempt: a coordinator that starts finds no remains of another at its path.
Fresh ==
  \A p \in DOMAIN coord : \A q \in DOMAIN coord : \A i \in DOMAIN coord[p].children :
    Under(q, p, i) => /\ AttemptOf(q, p) <= coord[p].cells[i].attempt
                      /\ coord[p].cells[i].phase = "sent" => AttemptOf(q, p) < coord[p].cells[i].attempt

\* A call under way is answered by a coordinator that runs.
Awaited ==
  \A p \in DOMAIN coord : \A i \in DOMAIN coord[p].children :
    coord[p].children[i].kind = "sub" /\ coord[p].cells[i].phase = "out" => Callee(p, i) \in DOMAIN coord

TreeSound ==
  /\ DOMAIN coord \subseteq Paths
  /\ \A p \in DOMAIN coord : NodeSound(coord[p], req, faults)
  /\ Root \in DOMAIN coord => Tile(coord[Root].children, 0, req.size)
  /\ LinksSound
  /\ Fresh

\* The inductive invariant.
Inv ==
  /\ req \in Requests /\ faults \in Nat
  /\ status \in {"new", "planned", "running", "done", "rejected"}
  /\ status \in {"planned", "running"} => PlanSound(req, plan)
  /\ status = "new" => result = <<>>
  /\ status = "running" => Root \in DOMAIN coord
  /\ DOMAIN coord # {} => req.branchingFactor \in 4 .. 16
  /\ status = "done" => Answers(result, Block(0, req.size), req, faults)
  /\ TreeSound
  /\ Awaited

LEMMA RequestTypes ==
  ASSUME req \in Requests
  PROVE  /\ req.size \in Nat /\ req.topology \in {"auto", "in-do", "hybrid", "tree"}
         /\ req.branchingFactor \in Nat /\ req.maxFaults \in Nat
         /\ req.throwing \cap req.lookalike = {} /\ MaxRetries \in Nat
BY TreeAssumption

LEMMA PathIs ==
  ASSUME NEW p \in Paths, NEW i \in Nat, NEW a \in Nat
  PROVE  /\ Path(p, i, a) \in Paths /\ Len(p) \in Nat /\ Len(Path(p, i, a)) = Len(p) + 1
         /\ \A j \in 1 .. Len(p) : Path(p, i, a)[j] = p[j]
         /\ Path(p, i, a)[Len(p) + 1] = <<i, a>> /\ Path(p, i, a) # p /\ Path(p, i, a) # Root
BY AppendProperties, LenProperties DEF Root, Path, Paths

\* What a node's indices and cells are.
LEMMA NodeTypes ==
  ASSUME NEW node, NEW r, NEW f, NodeSound(node, r, f)
  PROVE  /\ DOMAIN node.children = 1 .. Len(ItemsOf(node.children)) /\ Len(ItemsOf(node.children)) \in Nat
         /\ DOMAIN node.cells = DOMAIN node.children
         /\ \A i \in DOMAIN node.children :
              /\ i \in Nat /\ SoundChild(node.children[i]) /\ CellSound(node.cells[i], node.children[i], r, f)
              /\ node.cells[i].attempt \in Nat /\ node.cells[i].attempt <= MaxRetries
<1>1. PICK lo \in Nat, n \in Nat : Tile(node.children, lo, n)
  BY DEF NodeSound
<1>2. /\ DOMAIN node.children = 1 .. Len(ItemsOf(node.children)) /\ Len(ItemsOf(node.children)) \in Nat
  BY <1>1, TilePlaces
<1>3. \A i \in DOMAIN node.children : SoundChild(node.children[i]) /\ i \in Nat
  BY <1>1, <1>2 DEF Tile
<1>4. DOMAIN node.cells = DOMAIN node.children
      /\ \A i \in DOMAIN node.children : CellSound(node.cells[i], node.children[i], r, f)
  BY DEF NodeSound
<1>5. \A x \in Cells : x.attempt \in Nat /\ x.attempt <= MaxRetries
  BY TreeAssumption DEF Cells
<1> QED
  BY <1>2, <1>3, <1>4, <1>5 DEF CellSound

\* More faults excuse more, and the request stays.
LEMMA NodeKept ==
  ASSUME NEW node, NEW r, NEW f, NodeSound(node, r, f), NEW g, g = 0 => f = 0
  PROVE  NodeSound(node, r, g)
<1>1. \A got, items : Answers(got, items, r, f) => Answers(got, items, r, g)
  BY DEF Answers, Right
<1> QED
  BY <1>1 DEF NodeSound, CellSound

\* An action changes one cell of p and keeps the rest of what it keeps.
SetsCell(p, i, x) ==
  /\ p \in DOMAIN coord'
  /\ coord'[p].children = coord[p].children
  /\ coord'[p] = [children |-> coord[p].children, cells |-> coord'[p].cells]
  /\ coord'[p].cells = [j \in DOMAIN coord[p].children |-> IF j = i THEN x ELSE coord[p].cells[j]]

LEMMA ExceptSetsCell ==
  ASSUME NEW p \in DOMAIN coord, NodeSound(coord[p], req, faults), NEW i \in DOMAIN coord[p].children, NEW x
  PROVE  LET c == [coord EXCEPT ![p].cells[i] = x]
         IN /\ DOMAIN c = DOMAIN coord /\ \A q \in DOMAIN coord : q # p => c[q] = coord[q]
            /\ c[p] = [children |-> coord[p].children,
                       cells |-> [j \in DOMAIN coord[p].children |-> IF j = i THEN x ELSE coord[p].cells[j]]]
<1>1. coord[p] = [children |-> coord[p].children, cells |-> coord[p].cells]
      /\ DOMAIN coord[p].cells = DOMAIN coord[p].children
  BY NodeTypes DEF NodeSound
<1> DEFINE ch == coord[p].children
           ce == coord[p].cells
<1>2. PICK n : n = coord[p]
  OBVIOUS
<1>3. [n EXCEPT !.cells[i] = x] =
        [children |-> ch, cells |-> [j \in DOMAIN ch |-> IF j = i THEN x ELSE ce[j]]]
  <2> HIDE DEF ch, ce
  <2>1. n = [children |-> ch, cells |-> ce] /\ DOMAIN ce = DOMAIN ch
    BY <1>1, <1>2 DEF ch, ce
  <2> QED
    BY <2>1
<1> QED
  BY <1>2, <1>3

\* A coordinator that has just called its children is sound.
LEMMA OpenedSound ==
  ASSUME NEW children, NEW lo \in Nat, NEW n \in Nat, Tile(children, lo, n),
         MaxRetries \in Nat, NEW r, NEW f
  PROVE  NodeSound(Opened(children), r, f) /\ Opened(children).children = children
<1> DEFINE node == Opened(children)
<1>1. node = [children |-> children, cells |-> [i \in DOMAIN children |-> Cell(children[i], 0)]]
  BY DEF Opened, Map
<1>2. ASSUME NEW i \in DOMAIN children PROVE CellSound(Cell(children[i], 0), children[i], r, f)
  <2>1. SoundChild(children[i])
    BY DEF Tile
  <2>2. Len(<<>>) = 0 /\ <<>> \in Seq(Results)
    OBVIOUS
  <2>3. Cell(children[i], 0) \in Cells
    BY <2>2 DEF Cell, Cells
  <2> QED
    BY <2>2, <2>3 DEF CellSound, Cell, Answers
<1> QED
  BY <1>1, <1>2 DEF NodeSound

\* The answers of all children, put together, are the answer of their caller.
LEMMA MergedAnswers ==
  ASSUME NEW node, NEW r, NEW f, NodeSound(node, r, f), NEW lo \in Nat, NEW n \in Nat, Tile(node.children, lo, n),
         \A i \in DOMAIN node.cells : node.cells[i].phase = "done"
  PROVE  Answers(Concatenation(Map(node.cells, LAMBDA cell : cell.got)), Block(lo, n), r, f)
<1> DEFINE ss == ItemsOf(node.children)
           s == Lengths(ss)
           e == Ends(s)
           gots == [i \in DOMAIN node.children |-> node.cells[i].got]
           all == Concatenation(gots)
<1>1. /\ DOMAIN node.children = 1 .. Len(ss) /\ Len(ss) \in Nat
      /\ DOMAIN node.cells = DOMAIN node.children
      /\ \A i \in DOMAIN node.children :
           /\ SoundChild(node.children[i]) /\ Answers(node.cells[i].got, node.children[i].items, r, f)
           /\ e[i - 1] \in Nat /\ Len(node.children[i].items) \in Nat
           /\ node.children[i].base = lo + e[i - 1]
  BY NodeTypes, TilePlaces DEF CellSound
<1>2. Map(node.cells, LAMBDA cell : cell.got) = gots
  BY <1>1 DEF Map
<1>3. gots \in Seq(Seq(Results)) /\ Len(gots) = Len(ss) /\ DOMAIN gots = 1 .. Len(ss)
  BY <1>1 DEF Answers
<1>4. Lengths(gots) = s
  <2>1. DOMAIN ss = 1 .. Len(ss) /\ \A i \in 1 .. Len(ss) : Len(ss[i]) = Len(gots[i])
    BY <1>1 DEF ItemsOf, Answers
  <2> HIDE DEF gots, ss
  <2> QED
    BY <1>3, <2>1 DEF Lengths
<1>5. \A i \in DOMAIN node.children : gots[i] = node.cells[i].got
  OBVIOUS
<1>6. Total(s) = n
  BY DEF Tile
<1> HIDE DEF gots, ss, s
<1>7. /\ all \in Seq(Results) /\ Len(all) = n
      /\ \A k \in 1 .. n : \E i \in 1 .. Len(ss) :
           k - e[i - 1] \in 1 .. Len(gots[i]) /\ all[k] = gots[i][k - e[i - 1]]
  <2>1. /\ all \in Seq(Results) /\ Len(all) = Total(Lengths(gots))
        /\ \A k \in 1 .. Total(Lengths(gots)) : \E i \in 1 .. Len(gots) :
             /\ k - Ends(Lengths(gots))[i - 1] \in 1 .. Len(gots[i])
             /\ all[k] = gots[i][k - Ends(Lengths(gots))[i - 1]]
    BY <1>3, ConcatenationIs, Zenon
  <2> HIDE DEF all
  <2> QED
    BY <1>3, <1>4, <1>6, <2>1
<1> HIDE DEF e, all
<1>8. Block(lo, n) \in Seq(Nat) /\ Len(Block(lo, n)) = n /\ \A k \in 1 .. n : Block(lo, n)[k] = lo + k
  BY BlockIs
<1>9. ASSUME NEW k \in 1 .. n PROVE Right(all[k], lo + k, r, f)
  <2>1. PICK i \in 1 .. Len(ss) : k - e[i - 1] \in 1 .. Len(gots[i]) /\ all[k] = gots[i][k - e[i - 1]]
    BY <1>7
  <2>2. PICK x \in Nat : x = e[i - 1]
    BY <1>1
  <2>3. PICK y \in Nat : y = lo + x
    OBVIOUS
  <2>4. PICK m \in Nat : m = Len(node.children[i].items)
    BY <1>1
  <2>5. node.children[i].items = Block(y, m)
    BY <1>1, <2>2, <2>3, <2>4 DEF SoundChild
  <2>6. Len(gots[i]) = m /\ \A j \in 1 .. m : Right(gots[i][j], node.children[i].items[j], r, f)
    BY <1>1, <1>5, <2>4 DEF Answers
  <2>7. k - x \in 1 .. m /\ all[k] = gots[i][k - x]
    BY <2>1, <2>2, <2>6
  <2>8. node.children[i].items[k - x] = lo + k
    BY <2>3, <2>5, <2>7 DEF Block
  <2> QED
    BY <2>6, <2>7, <2>8
<1> QED
  BY <1>2, <1>7, <1>8, <1>9 DEF Answers, all

\* The i-th call of p moves on: its cell becomes x, and at most its callee, which
\* was under way, is new.
CallMoves(p, i, x) ==
  /\ SetsCell(p, i, x)
  /\ \A q \in DOMAIN coord' : q \in DOMAIN coord /\ q # p => coord'[q] = coord[q]
  /\ \/ x.attempt = coord[p].cells[i].attempt /\ x.phase # "sent"
     \/ x.attempt = coord[p].cells[i].attempt + 1
  /\ \A q \in DOMAIN coord' : q \notin DOMAIN coord =>
       /\ q = Callee(p, i) /\ coord[p].cells[i].phase = "sent"
       /\ x.attempt = coord[p].cells[i].attempt /\ x.phase # "sent"

LEMMA PathsBelow ==
  ASSUME NEW p \in Paths, NEW i \in Nat, NEW a \in Nat,
         NEW q \in Paths, NEW o \in Paths, NEW j \in Nat
  PROVE  LET callee == Path(p, i, a)
         IN /\ Under(callee, p, i) /\ AttemptOf(callee, p) = a
            /\ Under(callee, o, j) /\ o # p => Under(p, o, j) /\ AttemptOf(callee, o) = AttemptOf(p, o)
            /\ Under(callee, p, j) => j = i
            /\ Under(q, callee, j) => Under(q, p, i) /\ AttemptOf(q, p) = a
            /\ ~ Under(callee, callee, j)
<1> DEFINE callee == Path(p, i, a)
<1>1. /\ callee \in Paths /\ Len(p) \in Nat /\ Len(callee) = Len(p) + 1
      /\ \A k \in 1 .. Len(p) : callee[k] = p[k]
      /\ callee[Len(p) + 1] = <<i, a>>
  <2>1. callee \in Paths /\ Len(p) \in Nat
    BY PathIs
  <2>2. Len(callee) = Len(p) + 1
    BY PathIs
  <2>3. \A k \in 1 .. Len(p) : callee[k] = p[k]
    BY PathIs
  <2>4. callee[Len(p) + 1] = <<i, a>>
    BY PathIs
  <2> QED
    BY <2>1, <2>2, <2>3, <2>4
<1> HIDE DEF callee
<1>2. Len(q) \in Nat /\ Len(o) \in Nat
  BY LenProperties DEF Paths
<1>3. Under(callee, p, i) /\ AttemptOf(callee, p) = a
  BY <1>1 DEF Under, AttemptOf
<1>4. ASSUME Under(callee, o, j), o # p
      PROVE  Under(p, o, j) /\ AttemptOf(callee, o) = AttemptOf(p, o)
  <2>1. PICK l \in Nat, m \in Nat : l = Len(p) /\ m = Len(o)
    BY <1>1, <1>2
  <2>2. m < l + 1 /\ (\A k \in 1 .. m : callee[k] = o[k]) /\ callee[m + 1][1] = j
    BY <1>1, <1>4, <2>1 DEF Under
  <2>3. \A k \in 1 .. m : k \in 1 .. l
    BY <2>2
  <2>4. \A k \in 1 .. m : p[k] = o[k]
    BY <1>1, <2>1, <2>2, <2>3
  <2>5. l # m
    BY <1>4, <2>1, <2>4, SeqEqual DEF Paths
  <2>6. m < l /\ m + 1 \in 1 .. l
    BY <2>2, <2>5
  <2>7. callee[m + 1] = p[m + 1]
    BY <1>1, <2>1, <2>6
  <2> QED
    BY <2>1, <2>2, <2>4, <2>6, <2>7 DEF Under, AttemptOf
<1>5. Under(callee, p, j) => j = i
  BY <1>1 DEF Under
<1>6. ASSUME Under(q, callee, j) PROVE Under(q, p, i) /\ AttemptOf(q, p) = a
  <2>1. PICK l \in Nat, m \in Nat : l = Len(p) /\ m = Len(q)
    BY <1>1, <1>2
  <2>2. l + 1 < m /\ \A k \in 1 .. l + 1 : q[k] = callee[k]
    BY <1>1, <1>6, <2>1 DEF Under
  <2>3. l < m /\ l + 1 \in 1 .. l + 1 /\ \A k \in 1 .. l : k \in 1 .. l + 1
    BY <2>2
  <2>4. (\A k \in 1 .. l : q[k] = p[k]) /\ q[l + 1] = <<i, a>>
    BY <1>1, <2>1, <2>2, <2>3
  <2> QED
    BY <2>1, <2>3, <2>4 DEF Under, AttemptOf
<1>7. ~ Under(callee, callee, j)
  BY <1>1 DEF Under
<1> QED
  BY <1>3, <1>4, <1>5, <1>6, <1>7 DEF callee

\* A callee is called from one place.
LEMMA SameCallee ==
  ASSUME NEW p \in Paths, NEW i \in Nat, NEW a \in Nat,
         NEW q \in Paths, NEW j \in Nat, NEW b \in Nat, Path(p, i, a) = Path(q, j, b)
  PROVE  q = p /\ j = i /\ b = a
<1>1. PICK e \in Nat \X Nat, f \in Nat \X Nat : e = <<i, a>> /\ f = <<j, b>>
  OBVIOUS
<1>2. Append(p, e) = Append(q, f)
  BY <1>1 DEF Path
<1> DEFINE S == Nat \X Nat
<1> HIDE DEF S
<1>3. p \in Seq(S) /\ q \in Seq(S) /\ e \in S /\ f \in S
  BY DEF Paths, S
<1>4. p = q /\ e = f
  BY <1>2, <1>3, AppendInjective
<1> QED
  BY <1>1, <1>4

\* A call that moves on keeps the tree of coordinators sound.
LEMMA MovesKeep ==
  ASSUME TreeSound, NEW p \in DOMAIN coord, NEW i \in DOMAIN coord[p].children, NEW x,
         CallMoves(p, i, x), req' = req, faults' = 0 => faults = 0,
         NEW c, c = coord[p].children[i], CellSound(x, c, req, faults'),
         \A q \in DOMAIN coord' : q \notin DOMAIN coord =>
            NodeSound(coord'[q], req, faults') /\ Tile(coord'[q].children, c.base, Len(c.items))
  PROVE  TreeSound'
<1> DEFINE a == coord[p].cells[i].attempt
           callee == Path(p, i, a)
           Sent == coord[p].cells[i].phase = "sent"
<1>1. /\ p \in Paths /\ i \in Nat /\ a \in Nat /\ NodeSound(coord[p], req, faults)
      /\ Sent => callee \notin DOMAIN coord
      /\ Callee(p, i) = callee
  <2>1. p \in Paths /\ NodeSound(coord[p], req, faults)
    BY DEF TreeSound
  <2>2. i \in Nat /\ a \in Nat
    BY <2>1, NodeTypes
  <2>3. Under(callee, p, i) /\ AttemptOf(callee, p) = a
    BY <2>1, <2>2, PathsBelow
  <2>4. ASSUME Sent, callee \in DOMAIN coord PROVE FALSE
    <3>1. AttemptOf(callee, p) < a
      BY <2>3, <2>4 DEF TreeSound, Fresh
    <3> QED
      BY <2>2, <2>3, <3>1
  <2> QED
    BY <2>1, <2>2, <2>4 DEF Callee
<1>0. /\ callee \in Paths /\ callee # Root
      /\ Under(callee, p, i) /\ AttemptOf(callee, p) = a
      /\ \A q \in Paths, o \in Paths, j \in Nat :
           /\ Under(callee, o, j) /\ o # p => Under(p, o, j) /\ AttemptOf(callee, o) = AttemptOf(p, o)
           /\ Under(callee, p, j) => j = i
           /\ Under(q, callee, j) => Under(q, p, i) /\ AttemptOf(q, p) = a
           /\ ~ Under(callee, callee, j)
      /\ \A q \in Paths, j \in Nat, b \in Nat :
           callee = Path(q, j, b) => q = p /\ j = i /\ b = a
  <2> HIDE DEF a
  <2>1. callee = Path(p, i, a) /\ p \in Paths /\ i \in Nat /\ a \in Nat
    BY <1>1
  <2> HIDE DEF callee
  <2>2. callee \in Paths /\ callee # Root
    BY <2>1, PathIs
  <2>3. Under(callee, p, i) /\ AttemptOf(callee, p) = a
    BY <2>1, PathsBelow
  <2>4. ASSUME NEW q \in Paths, NEW o \in Paths, NEW j \in Nat
        PROVE  /\ Under(callee, o, j) /\ o # p => Under(p, o, j) /\ AttemptOf(callee, o) = AttemptOf(p, o)
               /\ Under(callee, p, j) => j = i
               /\ Under(q, callee, j) => Under(q, p, i) /\ AttemptOf(q, p) = a
               /\ ~ Under(callee, callee, j)
    <3>1. Under(callee, o, j) /\ o # p => Under(p, o, j) /\ AttemptOf(callee, o) = AttemptOf(p, o)
      BY <2>1, PathsBelow
    <3>2. Under(callee, p, j) => j = i
      BY <2>1, PathsBelow
    <3>3. Under(q, callee, j) => Under(q, p, i) /\ AttemptOf(q, p) = a
      BY <2>1, PathsBelow
    <3>4. ~ Under(callee, callee, j)
      BY <2>1, PathsBelow
    <3> QED
      BY <3>1, <3>2, <3>3, <3>4
  <2>5. ASSUME NEW q \in Paths, NEW j \in Nat, NEW b \in Nat, callee = Path(q, j, b)
        PROVE  q = p /\ j = i /\ b = a
    <3>1. Path(p, i, a) = Path(q, j, b)
      BY <2>1, <2>5
    <3> QED
      BY <2>1, <3>1, SameCallee
  <2> QED
    BY <2>2, <2>3, <2>4, <2>5
<1>2. \A q \in DOMAIN coord' : q \notin DOMAIN coord =>
        q = callee /\ Sent /\ x.attempt = a /\ x.phase # "sent"
  BY <1>1 DEF CallMoves
<1> HIDE DEF callee
<1>3. /\ x.attempt \in Nat /\ x.attempt >= a /\ (x.phase = "sent" => x.attempt > a)
      /\ x.attempt = a \/ x.attempt = a + 1
  <2>1. (x.attempt = a /\ x.phase # "sent") \/ x.attempt = a + 1
    BY DEF CallMoves
  <2> HIDE DEF a
  <2> QED
    BY <1>1, <2>1
<1>4. ASSUME NEW q \in DOMAIN coord', q \in DOMAIN coord
      PROVE  /\ coord'[q].children = coord[q].children
             /\ \A j \in DOMAIN coord[q].children :
                  /\ <<q, j>> # <<p, i>> => coord'[q].cells[j] = coord[q].cells[j]
                  /\ <<q, j>> = <<p, i>> => coord'[q].cells[j] = x
  BY <1>4 DEF CallMoves, SetsCell
<1>5. \A q \in DOMAIN coord' : q \in Paths
  BY <1>0, <1>2 DEF TreeSound
<1>6. ASSUME NEW q \in DOMAIN coord' PROVE NodeSound(coord'[q], req, faults')
  <2>1. CASE q \notin DOMAIN coord
    BY <2>1
  <2>2. CASE q \in DOMAIN coord /\ q # p
    <3>1. NodeSound(coord[q], req, faults')
      BY <2>2, NodeKept DEF TreeSound
    <3> QED
      BY <2>2, <3>1 DEF CallMoves
  <2>3. CASE q = p
    <3>1. NodeSound(coord[p], req, faults')
      BY <1>1, NodeKept
    <3>2. PICK n, m : n = coord[p] /\ m = coord'[p]
      OBVIOUS
    <3>3. /\ m = [children |-> m.children, cells |-> m.cells] /\ m.children = n.children
          /\ m.cells = [j \in DOMAIN n.children |-> IF j = i THEN x ELSE n.cells[j]]
      BY <3>2 DEF CallMoves, SetsCell
    <3>4. NodeSound(m, req, faults')
      BY <3>1, <3>2, <3>3 DEF NodeSound
    <3> QED
      BY <2>3, <3>2, <3>4
  <2> QED
    BY <2>1, <2>2, <2>3
<1>7. Root \in DOMAIN coord' => Tile(coord'[Root].children, 0, req'.size)
  BY <1>0, <1>2, <1>4 DEF TreeSound
<1>8. ASSUME NEW q \in DOMAIN coord', NEW j \in DOMAIN coord'[q].children
      PROVE  q \in Paths /\ j \in Nat /\ coord'[q].cells[j].attempt \in Nat
  BY <1>5, <1>6, NodeTypes
<1>9. LinksSound'
  <2> SUFFICES ASSUME NEW q \in DOMAIN coord', NEW j \in DOMAIN coord'[q].children, NEW o \in DOMAIN coord',
                      o = Path(q, j, coord'[q].cells[j].attempt)
               PROVE  Tile(coord'[o].children, coord'[q].children[j].base, Len(coord'[q].children[j].items))
    BY DEF LinksSound, Callee
  <2>1. q \in Paths /\ o \in Paths /\ j \in Nat
        /\ Under(o, q, j) /\ AttemptOf(o, q) = coord'[q].cells[j].attempt
    BY <1>5, <1>8, PathsBelow
  <2>2. CASE q \notin DOMAIN coord
    <3>1. q = callee /\ Sent
      BY <1>2, <2>2
    <3>2. Under(o, p, i) /\ AttemptOf(o, p) = a /\ o # callee
      BY <1>0, <2>1, <3>1
    <3>3. o \in DOMAIN coord
      BY <1>2, <3>2
    <3>4. AttemptOf(o, p) < a
      BY <1>1, <3>1, <3>2, <3>3 DEF TreeSound, Fresh
    <3> QED
      BY <1>1, <3>2, <3>4
  <2>3. CASE q \in DOMAIN coord /\ o \in DOMAIN coord
    <3>1. CASE <<q, j>> # <<p, i>>
      <4>1. coord'[q].cells[j] = coord[q].cells[j] /\ coord'[q].children = coord[q].children
            /\ coord'[o].children = coord[o].children
        BY <1>4, <2>3, <3>1
      <4> QED
        BY <2>3, <4>1 DEF TreeSound, LinksSound, Callee
    <3>2. CASE q = p /\ j = i
      <4>1. coord'[q].cells[j] = x /\ coord'[q].children = coord[q].children
            /\ coord'[o].children = coord[o].children
        BY <1>4, <2>3, <3>2
      <4>2. x.attempt <= a
        BY <2>1, <2>3, <3>2, <4>1 DEF TreeSound, Fresh
      <4>3. x.attempt = a
        <5> HIDE DEF a
        <5> QED
          BY <1>1, <1>3, <4>2
      <4> QED
        BY <2>3, <3>2, <4>1, <4>3 DEF TreeSound, LinksSound, Callee
    <3> QED
      BY <3>1, <3>2
  <2>4. CASE q \in DOMAIN coord /\ o \notin DOMAIN coord
    <3>1. o = callee
      BY <1>2, <2>4
    <3>2. q = p /\ j = i
      BY <1>0, <1>8, <2>1, <3>1
    <3>3. coord'[q].children[j] = c
      BY <1>4, <2>4, <3>2
    <3> QED
      BY <2>4, <3>3
  <2> QED
    BY <2>2, <2>3, <2>4
<1>10. Fresh'
  <2> SUFFICES ASSUME NEW o \in DOMAIN coord', NEW q \in DOMAIN coord', NEW j \in DOMAIN coord'[o].children,
                      Under(q, o, j)
               PROVE  /\ AttemptOf(q, o) <= coord'[o].cells[j].attempt
                      /\ coord'[o].cells[j].phase = "sent" => AttemptOf(q, o) < coord'[o].cells[j].attempt
    BY DEF Fresh
  <2>1. o \in Paths /\ q \in Paths /\ j \in Nat
    BY <1>5, <1>8
  <2>2. CASE o \notin DOMAIN coord
    <3>1. o = callee /\ Sent
      BY <1>2, <2>2
    <3>2. Under(q, p, i) /\ AttemptOf(q, p) = a /\ q # callee
      BY <1>0, <2>1, <3>1
    <3>3. q \in DOMAIN coord
      BY <1>2, <3>2
    <3>4. AttemptOf(q, p) < a
      BY <3>1, <3>2, <3>3 DEF TreeSound, Fresh
    <3> QED
      BY <1>1, <3>2, <3>4
  <2>3. CASE o \in DOMAIN coord /\ q \in DOMAIN coord
    <3>1. coord'[o].children = coord[o].children
      BY <1>4, <2>3
    <3>2. /\ AttemptOf(q, o) <= coord[o].cells[j].attempt
          /\ coord[o].cells[j].phase = "sent" => AttemptOf(q, o) < coord[o].cells[j].attempt
      BY <2>3, <3>1 DEF TreeSound, Fresh
    <3>3. CASE <<o, j>> # <<p, i>>
      BY <1>4, <2>3, <3>1, <3>2, <3>3
    <3>4. CASE o = p /\ j = i
      <4>1. coord'[o].cells[j] = x
        BY <1>4, <2>3, <3>1, <3>4
      <4>2. PICK b : b = AttemptOf(q, p)
        OBVIOUS
      <4>3. b \in Nat
        <5>1. Len(p) + 1 \in 1 .. Len(q)
          BY <2>1, <3>4, LenProperties DEF Under, Paths
        <5>2. q[Len(p) + 1] \in Nat \X Nat
          BY <2>1, <5>1, ElementOfSeq DEF Paths
        <5> QED
          BY <4>2, <5>2 DEF AttemptOf
      <4>4. b <= a
        BY <3>2, <3>4, <4>2
      <4>5. b <= x.attempt /\ (x.phase = "sent" => b < x.attempt)
        <5> HIDE DEF a
        <5> QED
          BY <1>1, <1>3, <4>3, <4>4
      <4> QED
        BY <3>4, <4>1, <4>2, <4>5
    <3> QED
      BY <3>3, <3>4
  <2>4. CASE o \in DOMAIN coord /\ q \notin DOMAIN coord
    <3>1. q = callee /\ Sent /\ x.attempt = a /\ x.phase # "sent"
      BY <1>2, <2>4
    <3>2. CASE o = p
      <4>1. j = i /\ AttemptOf(q, o) = a
        BY <1>0, <2>1, <3>1, <3>2
      <4>2. coord'[o].cells[j] = x
        BY <1>4, <2>4, <3>2, <4>1
      <4>3. a <= x.attempt
        <5> HIDE DEF a
        <5> QED
          BY <1>1, <3>1
      <4> QED
        BY <3>1, <4>1, <4>2, <4>3
    <3>3. CASE o # p
      <4>1. Under(p, o, j) /\ AttemptOf(q, o) = AttemptOf(p, o)
        BY <1>0, <2>1, <3>1, <3>3
      <4>2. coord'[o].children = coord[o].children /\ coord'[o].cells[j] = coord[o].cells[j]
        BY <1>4, <2>4, <3>3
      <4> QED
        BY <2>4, <4>1, <4>2 DEF TreeSound, Fresh
    <3> QED
      BY <3>2, <3>3
  <2> QED
    BY <2>2, <2>3, <2>4
<1> QED
  BY <1>5, <1>6, <1>7, <1>9, <1>10 DEF TreeSound

\* More faults excuse more.
LEMMA AnswersKept ==
  ASSUME NEW got, NEW items, NEW r, NEW f, Answers(got, items, r, f), NEW g, g = 0 => f = 0
  PROVE  Answers(got, items, r, g)
BY DEF Answers, Right

\* What the caller makes of the answer to a call.
LEMMA DecidedSound ==
  ASSUME NEW c, NEW cell \in Cells, NEW results, NEW r, NEW f, Answers(results, c.items, r, f)
  PROVE  /\ CellSound(Decided(c, cell, results), c, r, f)
         /\ Decided(c, cell, results).attempt = cell.attempt
         /\ Decided(c, cell, results).phase \in {"backoff", "done"}
<1>1. results \in Seq(Results)
  BY DEF Answers
<1>2. CASE c.kind # "here" /\ HasTransient(results) /\ cell.attempt < MaxRetries
  <2>1. Decided(c, cell, results) = [cell EXCEPT !.phase = "backoff"]
    BY <1>2 DEF Decided
  <2>2. PICK x : x = Decided(c, cell, results)
    OBVIOUS
  <2>3. x \in Cells /\ x.attempt = cell.attempt /\ x.phase = "backoff"
    BY <1>2, <2>1, <2>2 DEF Cells
  <2> QED
    BY <2>2, <2>3 DEF CellSound
<1>3. CASE ~ (c.kind # "here" /\ HasTransient(results) /\ cell.attempt < MaxRetries)
  <2>1. Decided(c, cell, results) = [cell EXCEPT !.phase = "done", !.got = results]
    BY <1>3 DEF Decided
  <2>2. PICK x : x = Decided(c, cell, results)
    OBVIOUS
  <2>3. x \in Cells /\ x.attempt = cell.attempt /\ x.phase = "done" /\ x.got = results
    BY <1>1, <2>1, <2>2 DEF Cells
  <2> QED
    BY <2>2, <2>3 DEF CellSound
<1> QED
  BY <1>2, <1>3

\* A call that failed as a whole answers for every item of its slice.
LEMMA FailureAnswers ==
  ASSUME NEW c, SoundChild(c), NEW out \in {"transient", "fatal"}, NEW r, NEW f, f # 0
  PROVE  Answers(AllFailed(c, out), c.items, r, f)
<1>1. PICK n \in Nat : n = Len(c.items) /\ DOMAIN c.items = 1 .. n /\ \A k \in 1 .. n : c.items[k] \in Nat
  BY LenProperties, ElementOfSeq DEF SoundChild
<1>2. c.base \in Nat
  BY DEF SoundChild
<1>3. AllFailed(c, out) = [k \in 1 .. n |-> [of |-> c.items[k], slot |-> c.base + k - 1, out |-> out]]
  BY <1>1 DEF AllFailed, Res
<1>4. \A k \in 1 .. n : [of |-> c.items[k], slot |-> c.base + k - 1, out |-> out] \in Results
  BY <1>1, <1>2 DEF Results, Outs
<1>5. AllFailed(c, out) \in Seq(Results) /\ Len(AllFailed(c, out)) = n
  BY <1>3, <1>4
<1> QED
  BY <1>1, <1>3, <1>5 DEF Answers, Right

\* Every reset is counted.
LEMMA ResetsCounted ==
  ASSUME NEW c, SoundChild(c), NEW outs, DOMAIN outs = DOMAIN c.items
  PROVE  /\ Resets(c, outs) \in Nat
         /\ Resets(c, outs) = 0 =>
              \A k \in DOMAIN outs : outs[k] = "transient" => c.items[k] \in req.lookalike
<1> DEFINE S == {k \in DOMAIN outs : outs[k] = "transient" /\ c.items[k] \notin req.lookalike}
<1>1. PICK n \in Nat : DOMAIN outs = 1 .. n
  BY LenProperties DEF SoundChild
<1>2. IsFiniteSet(1 .. n)
  BY FS_Interval
<1>3. IsFiniteSet(S)
  BY <1>1, <1>2, FS_Subset
<1>4. Resets(c, outs) = Cardinality(S)
  BY DEF Resets
<1> QED
  BY <1>3, <1>4, FS_EmptySet, FS_CardinalityType

\* A leaf's batch answers for its slice.
LEMMA BatchAnswers ==
  ASSUME NEW c, SoundChild(c), NEW outs \in [DOMAIN c.items -> {"ok", "user", "transient"}],
         \A k \in DOMAIN outs : outs[k] \in Outcomes(c.items[k]),
         req.throwing \cap req.lookalike = {},
         NEW f, f = 0 => \A k \in DOMAIN outs : outs[k] = "transient" => c.items[k] \in req.lookalike
  PROVE  Answers([k \in DOMAIN outs |-> Res(c.items[k], c.base + k - 1, outs[k])], c.items, req, f)
<1> DEFINE got == [k \in DOMAIN outs |-> Res(c.items[k], c.base + k - 1, outs[k])]
<1>1. PICK n \in Nat : n = Len(c.items) /\ DOMAIN c.items = 1 .. n /\ \A k \in 1 .. n : c.items[k] \in Nat
  BY LenProperties, ElementOfSeq DEF SoundChild
<1>2. c.base \in Nat
  BY DEF SoundChild
<1>3. got = [k \in 1 .. n |-> [of |-> c.items[k], slot |-> c.base + k - 1, out |-> outs[k]]]
  BY <1>1 DEF Res
<1>4. \A k \in 1 .. n : [of |-> c.items[k], slot |-> c.base + k - 1, out |-> outs[k]] \in Results
  BY <1>1, <1>2 DEF Results, Outs
<1> HIDE DEF got
<1>5. got \in Seq(Results) /\ Len(got) = n
  BY <1>3, <1>4
<1>6. ASSUME NEW k \in 1 .. n PROVE Right(got[k], c.items[k], req, f)
  <2>1. got[k].of = c.items[k] /\ got[k].out = outs[k]
    BY <1>3
  <2>2. outs[k] \in Outcomes(c.items[k])
    BY <1>1
  <2>3. c.items[k] \in req.lookalike => outs[k] = "transient"
    BY <2>2 DEF Outcomes
  <2>4. outs[k] = "user" => c.items[k] \in req.throwing
    BY <2>2 DEF Outcomes
  <2>5. outs[k] = "ok" => c.items[k] \notin req.throwing \cup req.lookalike
    BY <2>2 DEF Outcomes
  <2>6. outs[k] # "fatal"
    BY <1>1
  <2>7. f = 0 => (outs[k] = "transient" => c.items[k] \in req.lookalike)
    BY <1>1
  <2> QED
    BY <2>1, <2>3, <2>4, <2>5, <2>6, <2>7 DEF Right
<1>7. Len(c.items) = n
  BY <1>1
<1> QED
  BY <1>5, <1>6, <1>7 DEF Answers, got

\* What a step of the i-th call of p finds.
LEMMA CallFacts ==
  ASSUME Inv, NEW p \in DOMAIN coord, NEW i \in DOMAIN coord[p].cells
  PROVE  /\ p \in Paths /\ i \in Nat /\ i \in DOMAIN coord[p].children /\ NodeSound(coord[p], req, faults)
         /\ SoundChild(coord[p].children[i]) /\ coord[p].cells[i] \in Cells
         /\ CellSound(coord[p].cells[i], coord[p].children[i], req, faults)
         /\ coord[p].cells[i].attempt \in Nat
         /\ faults \in Nat /\ req.throwing \cap req.lookalike = {} /\ MaxRetries \in Nat
         /\ req.branchingFactor \in 4 .. 16
<1>1. p \in Paths /\ NodeSound(coord[p], req, faults)
  BY DEF Inv, TreeSound
<1>2. /\ i \in DOMAIN coord[p].children /\ i \in Nat
      /\ SoundChild(coord[p].children[i]) /\ CellSound(coord[p].cells[i], coord[p].children[i], req, faults)
      /\ coord[p].cells[i].attempt \in Nat
  BY <1>1, NodeTypes
<1>3. faults \in Nat /\ req \in Requests /\ req.branchingFactor \in 4 .. 16
  BY DEF Inv
<1>4. req.throwing \cap req.lookalike = {} /\ MaxRetries \in Nat
  BY <1>3, RequestTypes
<1> QED
  BY <1>1, <1>2, <1>3, <1>4 DEF CellSound

\* No call loses the coordinator it waits for.
LEMMA AwaitedKept ==
  ASSUME TreeSound, TreeSound', Awaited, NEW p \in DOMAIN coord, NEW i \in DOMAIN coord[p].children, NEW x,
         CallMoves(p, i, x),
         coord[p].children[i].kind = "sub" /\ x.phase = "out" =>
            x.attempt = coord[p].cells[i].attempt /\ Callee(p, i) \in DOMAIN coord',
         \A q \in DOMAIN coord : q \notin DOMAIN coord' => q = Callee(p, i) /\ x.phase # "out",
         \A q \in DOMAIN coord' : q \notin DOMAIN coord =>
            \A j \in DOMAIN coord'[q].children :
              coord'[q].children[j].kind = "sub" => coord'[q].cells[j].phase # "out"
  PROVE  Awaited'
<1> SUFFICES ASSUME NEW q \in DOMAIN coord', NEW j \in DOMAIN coord'[q].children,
                    coord'[q].children[j].kind = "sub", coord'[q].cells[j].phase = "out"
             PROVE  Path(q, j, coord'[q].cells[j].attempt) \in DOMAIN coord'
  BY DEF Awaited, Callee
<1>1. q \in DOMAIN coord
  OBVIOUS
<1>2. coord'[q].children = coord[q].children
  BY <1>1 DEF CallMoves, SetsCell
<1>3. CASE q = p /\ j = i
  <2>1. coord'[q].cells[j] = x
    BY <1>2, <1>3 DEF CallMoves, SetsCell
  <2> QED
    BY <1>2, <1>3, <2>1 DEF Callee
<1>4. CASE <<q, j>> # <<p, i>>
  <2>1. coord'[q].cells[j] = coord[q].cells[j]
    BY <1>1, <1>2, <1>4 DEF CallMoves, SetsCell
  <2>2. Callee(q, j) \in DOMAIN coord
    BY <1>1, <1>2, <2>1 DEF Awaited
  <2>3. /\ q \in Paths /\ p \in Paths /\ i \in Nat /\ j \in Nat
        /\ coord[p].cells[i].attempt \in Nat /\ coord[q].cells[j].attempt \in Nat
    BY <1>1, <1>2, NodeTypes DEF TreeSound
  <2>4. Callee(q, j) # Callee(p, i)
    BY <1>4, <2>3, SameCallee DEF Callee
  <2> QED
    BY <2>1, <2>2, <2>4 DEF Callee
<1> QED
  BY <1>3, <1>4

\* A step of a call keeps the invariant.
LEMMA StepKeeps ==
  ASSUME Inv, NEW p \in DOMAIN coord, NEW i \in DOMAIN coord[p].children, NEW x, CallMoves(p, i, x),
         UNCHANGED <<req, plan, status, result>>, faults' \in Nat, faults' = 0 => faults = 0,
         CellSound(x, coord[p].children[i], req, faults'),
         coord[p].children[i].kind = "sub" /\ x.phase = "out" =>
            x.attempt = coord[p].cells[i].attempt /\ Callee(p, i) \in DOMAIN coord',
         \A q \in DOMAIN coord : q \notin DOMAIN coord' => q = Callee(p, i) /\ x.phase # "out",
         \A q \in DOMAIN coord' : q \notin DOMAIN coord =>
            /\ NodeSound(coord'[q], req, faults')
            /\ Tile(coord'[q].children, coord[p].children[i].base, Len(coord[p].children[i].items))
            /\ \A j \in DOMAIN coord'[q].children :
                 coord'[q].children[j].kind = "sub" => coord'[q].cells[j].phase # "out"
  PROVE  Inv'
<1>1. TreeSound /\ Awaited /\ req' = req
  BY DEF Inv
<1>2. TreeSound'
  <2>1. PICK c : c = coord[p].children[i]
    OBVIOUS
  <2>2. /\ CellSound(x, c, req, faults')
        /\ \A q \in DOMAIN coord' : q \notin DOMAIN coord =>
             NodeSound(coord'[q], req, faults') /\ Tile(coord'[q].children, c.base, Len(c.items))
    BY <2>1
  <2> QED
    BY <1>1, <2>1, <2>2, MovesKeep
<1>3. status' = "done" => Answers(result', Block(0, req'.size), req', faults')
  BY AnswersKept DEF Inv
<1>4. DOMAIN coord' # {} => req'.branchingFactor \in 4 .. 16
  BY DEF Inv
<1>5. Awaited'
  BY <1>1, <1>2, AwaitedKept
<1>6. Root \in DOMAIN coord => Root \in DOMAIN coord'
  <2>1. p \in Paths /\ i \in Nat /\ coord[p].cells[i].attempt \in Nat
    BY <1>1, NodeTypes DEF TreeSound
  <2>2. Callee(p, i) # Root
    <3>1. PICK a \in Nat : a = coord[p].cells[i].attempt
      BY <2>1
    <3>2. Path(p, i, a) # Root
      BY <2>1, PathIs
    <3> QED
      BY <3>1, <3>2 DEF Callee
  <2> QED
    BY <2>2
<1> QED
  BY <1>2, <1>3, <1>4, <1>5, <1>6 DEF Inv

\* A step that changes one cell and no other coordinator.
LEMMA StaysMoves ==
  ASSUME NEW p \in DOMAIN coord, NodeSound(coord[p], req, faults), NEW i \in DOMAIN coord[p].children, NEW x,
         coord' = [coord EXCEPT ![p].cells[i] = x],
         \/ x.attempt = coord[p].cells[i].attempt /\ x.phase # "sent"
         \/ x.attempt = coord[p].cells[i].attempt + 1
  PROVE  CallMoves(p, i, x) /\ DOMAIN coord' = DOMAIN coord
<1>1. /\ DOMAIN coord' = DOMAIN coord /\ \A q \in DOMAIN coord : q # p => coord'[q] = coord[q]
      /\ coord'[p] = [children |-> coord[p].children,
                      cells |-> [j \in DOMAIN coord[p].children |-> IF j = i THEN x ELSE coord[p].cells[j]]]
  BY ExceptSetsCell
<1>2. SetsCell(p, i, x)
  BY <1>1 DEF SetsCell
<1> QED
  BY <1>1, <1>2 DEF CallMoves

\* The i-th call of p was answered by `results`.
Answered(p, i, results) ==
  /\ coord' = [coord EXCEPT ![p].cells[i] = Decided(coord[p].children[i], coord[p].cells[i], results)]
  /\ Answers(results, coord[p].children[i].items, req, faults')
  /\ UNCHANGED <<req, plan, status, starts, result>>
  /\ faults' \in 0 .. req.maxFaults /\ (faults' = 0 => faults = 0)

LEMMA LeafReturnsAnswers ==
  ASSUME Inv, NEW p \in DOMAIN coord, NEW i \in DOMAIN coord[p].cells, LeafReturns(p, i)
  PROVE  \E results : Answered(p, i, results)
<1> DEFINE c == coord[p].children[i]
<1>1. /\ SoundChild(c) /\ faults \in Nat /\ req.throwing \cap req.lookalike = {}
  BY CallFacts
<1>2. PICK outs \in [DOMAIN c.items -> {"ok", "user", "transient"}] :
        /\ \A k \in DOMAIN outs : outs[k] \in Outcomes(c.items[k])
        /\ faults' = faults + Resets(c, outs) /\ faults' <= req.maxFaults
        /\ coord' = [coord EXCEPT ![p].cells[i] = Decided(c, coord[p].cells[i],
                       [k \in DOMAIN outs |-> Res(c.items[k], c.base + k - 1, outs[k])])]
  BY DEF LeafReturns
<1>3. UNCHANGED <<req, plan, status, starts, result>> /\ req.maxFaults \in Nat
  BY RequestTypes DEF LeafReturns, Inv
<1>4. /\ Resets(c, outs) \in Nat
      /\ Resets(c, outs) = 0 => \A k \in DOMAIN outs : outs[k] = "transient" => c.items[k] \in req.lookalike
  <2> HIDE DEF c
  <2>1. DOMAIN outs = DOMAIN c.items
    OBVIOUS
  <2> QED
    BY <1>1, <2>1, ResetsCounted
<1>5. faults' \in 0 .. req.maxFaults /\ (faults' = 0 => faults = 0 /\ Resets(c, outs) = 0)
  BY <1>1, <1>2, <1>3, <1>4
<1>6. Answers([k \in DOMAIN outs |-> Res(c.items[k], c.base + k - 1, outs[k])], c.items, req, faults')
  <2> HIDE DEF c
  <2>1. faults' = 0 => \A k \in DOMAIN outs : outs[k] = "transient" => c.items[k] \in req.lookalike
    BY <1>4, <1>5
  <2> QED
    BY <1>1, <1>2, <2>1, BatchAnswers
<1>7. PICK results : results = [k \in DOMAIN outs |-> Res(c.items[k], c.base + k - 1, outs[k])]
  OBVIOUS
<1>8. coord' = [coord EXCEPT ![p].cells[i] = Decided(c, coord[p].cells[i], results)]
  BY <1>2, <1>7
<1>9. Answers(results, c.items, req, faults')
  BY <1>6, <1>7
<1> QED
  BY <1>3, <1>5, <1>8, <1>9 DEF Answered

LEMMA CallFailsAnswers ==
  ASSUME Inv, NEW p \in DOMAIN coord, NEW i \in DOMAIN coord[p].cells,
         NEW out \in {"transient", "fatal"}, CallFails(p, i, out)
  PROVE  Answered(p, i, AllFailed(coord[p].children[i], out)) /\ faults' # 0
<1>1. SoundChild(coord[p].children[i]) /\ faults \in Nat /\ req.maxFaults \in Nat
  BY CallFacts, RequestTypes DEF Inv
<1>2. /\ faults' = faults + 1 /\ faults < req.maxFaults /\ UNCHANGED <<req, plan, status, starts, result>>
      /\ coord' = [coord EXCEPT ![p].cells[i] =
                     Decided(coord[p].children[i], coord[p].cells[i], AllFailed(coord[p].children[i], out))]
  BY DEF CallFails
<1>3. faults' \in 0 .. req.maxFaults /\ faults' # 0
  BY <1>1, <1>2
<1>4. Answers(AllFailed(coord[p].children[i], out), coord[p].children[i].items, req, faults')
  BY <1>1, <1>3, FailureAnswers
<1> QED
  BY <1>2, <1>3, <1>4 DEF Answered

\* A call that is over.
LEMMA AnsweredKeeps ==
  ASSUME Inv, NEW p \in DOMAIN coord, NEW i \in DOMAIN coord[p].cells, NEW results, Answered(p, i, results)
  PROVE  Inv'
<1>0. /\ coord' = [coord EXCEPT ![p].cells[i] = Decided(coord[p].children[i], coord[p].cells[i], results)]
      /\ Answers(results, coord[p].children[i].items, req, faults')
      /\ UNCHANGED <<req, plan, status, result>>
      /\ faults' \in Nat /\ (faults' = 0 => faults = 0)
  BY DEF Answered
<1>1. /\ i \in DOMAIN coord[p].children /\ NodeSound(coord[p], req, faults) /\ coord[p].cells[i] \in Cells
  BY CallFacts
<1>2. PICK x : x = Decided(coord[p].children[i], coord[p].cells[i], results)
  OBVIOUS
<1>3. CellSound(x, coord[p].children[i], req, faults') /\ x.attempt = coord[p].cells[i].attempt /\ x.phase \in {"backoff", "done"}
  BY <1>0, <1>1, <1>2, DecidedSound
<1>4. coord' = [coord EXCEPT ![p].cells[i] = x]
  BY <1>0, <1>2
<1>5. CallMoves(p, i, x) /\ DOMAIN coord' = DOMAIN coord
  BY <1>1, <1>3, <1>4, StaysMoves
<1> QED
  BY <1>0, <1>1, <1>3, <1>5, StepKeeps

\* The slice is run again.
LEMMA AgainMoves ==
  ASSUME Inv, NEW p \in DOMAIN coord, NEW i \in DOMAIN coord[p].cells, Again(p, i),
         NEW x, x = Cell(coord[p].children[i], coord[p].cells[i].attempt + 1)
  PROVE  /\ CallMoves(p, i, x) /\ DOMAIN coord' = DOMAIN coord /\ UNCHANGED <<req, plan, status, faults, result>>
         /\ x.attempt = coord[p].cells[i].attempt + 1 /\ x.attempt <= MaxRetries
         /\ CellSound(x, coord[p].children[i], req, faults')
<1>1. /\ i \in DOMAIN coord[p].children /\ NodeSound(coord[p], req, faults) /\ coord[p].cells[i] \in Cells
      /\ SoundChild(coord[p].children[i]) /\ coord[p].cells[i].attempt \in Nat /\ faults \in Nat /\ MaxRetries \in Nat
  BY CallFacts
<1>3. coord' = [coord EXCEPT ![p].cells[i] = x] /\ UNCHANGED <<req, plan, status, faults, result>>
  BY DEF Again
<1>4. coord[p].cells[i].attempt < MaxRetries
  BY <1>1 DEF Again, Cells
<1>5. /\ x.attempt = coord[p].cells[i].attempt + 1 /\ x.attempt <= MaxRetries
      /\ CellSound(x, coord[p].children[i], req, faults')
  <2>1. <<>> \in Seq(Results) /\ Len(<<>>) = 0
    OBVIOUS
  <2>2. PICK a \in Nat : a = coord[p].cells[i].attempt /\ a < MaxRetries
    BY <1>1, <1>4
  <2>3. a + 1 \in 0 .. MaxRetries
    BY <1>1, <2>2
  <2>4. x \in Cells
    BY <2>1, <2>2, <2>3 DEF Cell, Cells
  <2>5. x.attempt = a + 1 /\ a + 1 <= MaxRetries
    BY <1>1, <2>2 DEF Cell
  <2> QED
    BY <2>1, <2>2, <2>4, <2>5 DEF Cell, CellSound, Answers
<1>6. CallMoves(p, i, x) /\ DOMAIN coord' = DOMAIN coord
  BY <1>1, <1>3, <1>5, StaysMoves
<1> QED
  BY <1>3, <1>5, <1>6

LEMMA AgainKeeps ==
  ASSUME Inv, NEW p \in DOMAIN coord, NEW i \in DOMAIN coord[p].cells, Again(p, i)
  PROVE  Inv'
<1>1. i \in DOMAIN coord[p].children /\ faults \in Nat
  BY CallFacts
<1>2. PICK x : x = Cell(coord[p].children[i], coord[p].cells[i].attempt + 1)
  OBVIOUS
<1>3. /\ CallMoves(p, i, x) /\ DOMAIN coord' = DOMAIN coord /\ UNCHANGED <<req, plan, status, faults, result>>
      /\ CellSound(x, coord[p].children[i], req, faults')
  BY <1>2, AgainMoves
<1>4. faults' \in Nat /\ (faults' = 0 => faults = 0) /\ UNCHANGED <<req, plan, status, result>>
  BY <1>1, <1>3
<1>5. coord[p].children[i].kind = "sub" => x.phase # "out"
  BY <1>2 DEF Cell
<1> QED
  BY <1>1, <1>3, <1>4, <1>5, StepKeeps

\* The handler of a sub-coordinator starts.
LEMMA ArriveMoves ==
  ASSUME Inv, NEW p \in DOMAIN coord, NEW i \in DOMAIN coord[p].cells, Arrive(p, i),
         NEW x, x = [coord[p].cells[i] EXCEPT !.phase = "out"],
         NEW c, c = coord[p].children[i]
  PROVE  /\ c.kind = "sub" /\ coord[p].cells[i].phase = "sent"
         /\ x.phase = "out" /\ x.attempt = coord[p].cells[i].attempt
         /\ CellSound(x, c, req, faults') /\ CallMoves(p, i, x)
         /\ Callee(p, i) \notin DOMAIN coord /\ DOMAIN coord' = DOMAIN coord \cup {Callee(p, i)}
         /\ coord'[Callee(p, i)] = Opened(SubChildren(c))
         /\ UNCHANGED <<req, plan, status, faults, result>>
<1>1. /\ p \in Paths /\ i \in Nat /\ i \in DOMAIN coord[p].children /\ NodeSound(coord[p], req, faults)
      /\ SoundChild(coord[p].children[i]) /\ coord[p].cells[i] \in Cells
      /\ CellSound(coord[p].cells[i], coord[p].children[i], req, faults)
      /\ coord[p].cells[i].attempt \in Nat /\ faults \in Nat /\ MaxRetries \in Nat /\ req.branchingFactor \in 4 .. 16
  BY CallFacts
<1>3. PICK a \in Nat : a = coord[p].cells[i].attempt
  BY <1>1
<1>4. PICK callee : callee = Append(p, <<i, a>>) /\ callee = Path(p, i, a) /\ callee = Callee(p, i)
  BY <1>3 DEF Callee, Path
<1>6. /\ coord' = [q \in DOMAIN coord \cup {callee} |->
                     IF q = callee THEN Opened(SubChildren(c))
                     ELSE IF q = p THEN [coord[p] EXCEPT !.cells[i].phase = "out"] ELSE coord[q]]
      /\ coord[p].cells[i].phase = "sent"
      /\ UNCHANGED <<req, plan, status, faults, result>>
  BY <1>3, <1>4 DEF Arrive
<1>7. c.kind = "sub" /\ SoundChild(c)
  BY <1>1, <1>6 DEF CellSound
<1>8. x \in Cells /\ x.phase = "out" /\ x.attempt = a
  <2>1. PICK y \in Cells : y = coord[p].cells[i]
    BY <1>1
  <2>2. x = [y EXCEPT !.phase = "out"]
    BY <2>1
  <2> QED
    BY <1>3, <2>1, <2>2 DEF Cells
<1>9. CellSound(x, c, req, faults')
  BY <1>8 DEF CellSound
<1>10. callee \notin DOMAIN coord
  <2>1. Under(callee, p, i) /\ AttemptOf(callee, p) = a
    <3>1. Under(Path(p, i, a), p, i) /\ AttemptOf(Path(p, i, a), p) = a
      BY <1>1, PathsBelow
    <3> QED
      BY <1>4, <3>1
  <2>2. callee \in DOMAIN coord => AttemptOf(callee, p) < a
    BY <1>1, <1>3, <1>6, <2>1 DEF Inv, TreeSound, Fresh
  <2> QED
    BY <2>1, <2>2
<1>11. callee # p
  BY <1>10
<1>12. coord'[p] = [children |-> coord[p].children,
                    cells |-> [j \in DOMAIN coord[p].children |-> IF j = i THEN x ELSE coord[p].cells[j]]]
  <2>1. coord'[p] = [coord[p] EXCEPT !.cells[i].phase = "out"]
    BY <1>6, <1>11
  <2>2. [coord[p] EXCEPT !.cells[i].phase = "out"] = [coord[p] EXCEPT !.cells[i] = x]
    OBVIOUS
  <2>3. coord[p] = [children |-> coord[p].children, cells |-> coord[p].cells]
        /\ DOMAIN coord[p].cells = DOMAIN coord[p].children
    BY <1>1, NodeTypes DEF NodeSound
  <2>4. PICK n, ch, ce : n = coord[p] /\ ch = coord[p].children /\ ce = coord[p].cells
    OBVIOUS
  <2>5. n = [children |-> ch, cells |-> ce] /\ DOMAIN ce = DOMAIN ch
    BY <2>3, <2>4
  <2>6. [n EXCEPT !.cells[i] = x] = [children |-> ch, cells |-> [j \in DOMAIN ch |-> IF j = i THEN x ELSE ce[j]]]
    BY <2>5
  <2> QED
    BY <2>1, <2>2, <2>4, <2>6
<1>13. DOMAIN coord' = DOMAIN coord \cup {callee} /\ coord'[callee] = Opened(SubChildren(c))
       /\ \A q \in DOMAIN coord : q # p => coord'[q] = coord[q]
  BY <1>6, <1>10
<1>14. SetsCell(p, i, x)
  BY <1>12, <1>13 DEF SetsCell
<1>15. CallMoves(p, i, x)
  BY <1>3, <1>4, <1>6, <1>8, <1>13, <1>14 DEF CallMoves
<1> QED
  BY <1>3, <1>4, <1>6, <1>7, <1>8, <1>9, <1>10, <1>13, <1>15

LEMMA ArriveKeeps ==
  ASSUME Inv, NEW p \in DOMAIN coord, NEW i \in DOMAIN coord[p].cells, Arrive(p, i)
  PROVE  Inv'
<1>1. /\ i \in DOMAIN coord[p].children /\ SoundChild(coord[p].children[i])
      /\ faults \in Nat /\ MaxRetries \in Nat /\ req.branchingFactor \in 4 .. 16
  BY CallFacts
<1>2. PICK c, x : c = coord[p].children[i] /\ x = [coord[p].cells[i] EXCEPT !.phase = "out"]
  OBVIOUS
<1>3. /\ c.kind = "sub" /\ x.phase = "out" /\ x.attempt = coord[p].cells[i].attempt
      /\ CellSound(x, c, req, faults') /\ CallMoves(p, i, x)
      /\ DOMAIN coord' = DOMAIN coord \cup {Callee(p, i)}
      /\ coord'[Callee(p, i)] = Opened(SubChildren(c))
      /\ UNCHANGED <<req, plan, status, faults, result>>
  BY <1>2, ArriveMoves
<1>4. Tile(SubChildren(c), c.base, Len(c.items))
  BY <1>1, <1>2, <1>3, SubTile
<1>5. NodeSound(Opened(SubChildren(c)), req, faults') /\ Opened(SubChildren(c)).children = SubChildren(c)
  <2>1. c.base \in Nat /\ Len(c.items) \in Nat
    BY <1>1, <1>2, LenProperties DEF SoundChild
  <2>2. PICK lo \in Nat, n \in Nat : Tile(SubChildren(c), lo, n)
    BY <1>4, <2>1
  <2> QED
    BY <1>1, <2>2, OpenedSound
<1>6. \A j \in DOMAIN Opened(SubChildren(c)).children :
         Opened(SubChildren(c)).children[j].kind = "sub" => Opened(SubChildren(c)).cells[j].phase # "out"
  BY <1>5 DEF Opened, Map, Cell
<1>7. \A q \in DOMAIN coord' : q \notin DOMAIN coord =>
         /\ NodeSound(coord'[q], req, faults')
         /\ Tile(coord'[q].children, coord[p].children[i].base, Len(coord[p].children[i].items))
         /\ \A j \in DOMAIN coord'[q].children :
              coord'[q].children[j].kind = "sub" => coord'[q].cells[j].phase # "out"
  BY <1>2, <1>3, <1>4, <1>5, <1>6
<1>8. /\ x.attempt = coord[p].cells[i].attempt /\ Callee(p, i) \in DOMAIN coord'
       /\ \A q \in DOMAIN coord : q \in DOMAIN coord'
  BY <1>3
<1>9. UNCHANGED <<req, plan, status, result>> /\ faults' \in Nat /\ (faults' = 0 => faults = 0)
  BY <1>1, <1>3
<1>10. CellSound(x, coord[p].children[i], req, faults')
  BY <1>2, <1>3
<1> QED
  BY <1>1, <1>3, <1>7, <1>8, <1>9, <1>10, StepKeeps

\* A sub-coordinator returns.
LEMMA SubReturnsMoves ==
  ASSUME Inv, NEW p \in DOMAIN coord, NEW i \in DOMAIN coord[p].cells, SubReturns(p, i),
         NEW c, c = coord[p].children[i], NEW results, results = Merged(Callee(p, i)),
         NEW x, x = Decided(c, coord[p].cells[i], results)
  PROVE  /\ c.kind = "sub" /\ Callee(p, i) \in DOMAIN coord /\ DOMAIN coord' = DOMAIN coord \ {Callee(p, i)}
         /\ AllDone(Callee(p, i)) /\ Tile(coord[Callee(p, i)].children, c.base, Len(c.items))
         /\ Answers(results, c.items, req, faults') /\ CellSound(x, c, req, faults')
         /\ x.attempt = coord[p].cells[i].attempt /\ x.phase \in {"backoff", "done"} /\ CallMoves(p, i, x)
         /\ UNCHANGED <<req, plan, status, starts, faults, result>>
<1>1. /\ p \in Paths /\ i \in Nat /\ i \in DOMAIN coord[p].children /\ NodeSound(coord[p], req, faults)
      /\ SoundChild(coord[p].children[i]) /\ coord[p].cells[i] \in Cells
      /\ coord[p].cells[i].attempt \in Nat /\ faults \in Nat
  BY CallFacts
<1>3. PICK a \in Nat : a = coord[p].cells[i].attempt
  BY <1>1
<1>4. PICK callee : callee = Append(p, <<i, a>>) /\ callee = Path(p, i, a) /\ callee = Callee(p, i)
  BY <1>3 DEF Callee, Path
<1>7. /\ coord' = Restrict([coord EXCEPT ![p].cells[i] = x], DOMAIN coord \ {callee})
      /\ c.kind = "sub" /\ coord[p].cells[i].phase = "out" /\ AllDone(callee)
      /\ UNCHANGED <<req, plan, status, starts, faults, result>>
  BY <1>3, <1>4 DEF SubReturns
<1>8. callee \in DOMAIN coord
  BY <1>1, <1>4, <1>7 DEF Inv, Awaited
<1>9. Tile(coord[callee].children, c.base, Len(c.items))
  BY <1>1, <1>4, <1>8 DEF Inv, TreeSound, LinksSound
<1>10. Answers(results, c.items, req, faults')
  <2>1. PICK lo \in Nat, n \in Nat : lo = c.base /\ n = Len(c.items)
    BY <1>1, LenProperties DEF SoundChild
  <2>2. NodeSound(coord[callee], req, faults)
    BY <1>8 DEF Inv, TreeSound
  <2>3. \A j \in DOMAIN coord[callee].cells : coord[callee].cells[j].phase = "done"
    BY <1>7 DEF AllDone
  <2>4. PICK node : node = coord[callee]
    OBVIOUS
  <2>5. Answers(Concatenation(Map(node.cells, LAMBDA cell : cell.got)), Block(lo, n), req, faults)
    BY <1>9, <2>1, <2>2, <2>3, <2>4, MergedAnswers
  <2>6. c.items = Block(lo, n)
    BY <1>1, <2>1 DEF SoundChild
  <2> QED
    BY <1>4, <1>7, <2>4, <2>5, <2>6 DEF Merged
<1>11. CellSound(x, c, req, faults') /\ x.attempt = a /\ x.phase \in {"backoff", "done"}
  BY <1>1, <1>3, <1>10, DecidedSound
<1>12. callee # p
  BY <1>1, <1>4, PathIs
<1>13. /\ DOMAIN coord' = DOMAIN coord \ {callee}
       /\ \A q \in DOMAIN coord' : q # p => coord'[q] = coord[q]
       /\ coord'[p] = [children |-> coord[p].children,
                       cells |-> [j \in DOMAIN coord[p].children |-> IF j = i THEN x ELSE coord[p].cells[j]]]
  <2>1. PICK d : d = [coord EXCEPT ![p].cells[i] = x]
    OBVIOUS
  <2>2. /\ DOMAIN d = DOMAIN coord /\ \A q \in DOMAIN coord : q # p => d[q] = coord[q]
        /\ d[p] = [children |-> coord[p].children,
                   cells |-> [j \in DOMAIN coord[p].children |-> IF j = i THEN x ELSE coord[p].cells[j]]]
    BY <1>1, <2>1, ExceptSetsCell
  <2>3. coord' = [q \in DOMAIN coord \ {callee} |-> d[q]]
    BY <1>7, <2>1 DEF Restrict
  <2> QED
    BY <1>12, <2>2, <2>3
<1>14. SetsCell(p, i, x)
  BY <1>12, <1>13 DEF SetsCell
<1>15. CallMoves(p, i, x)
  BY <1>3, <1>11, <1>13, <1>14 DEF CallMoves
<1> QED
  BY <1>3, <1>4, <1>7, <1>8, <1>9, <1>10, <1>11, <1>13, <1>15

LEMMA SubReturnsKeeps ==
  ASSUME Inv, NEW p \in DOMAIN coord, NEW i \in DOMAIN coord[p].cells, SubReturns(p, i)
  PROVE  Inv'
<1>1. i \in DOMAIN coord[p].children /\ faults \in Nat
  BY CallFacts
<1>2. PICK c, results, x : /\ c = coord[p].children[i] /\ results = Merged(Callee(p, i))
                           /\ x = Decided(c, coord[p].cells[i], results)
  OBVIOUS
<1>3. /\ DOMAIN coord' = DOMAIN coord \ {Callee(p, i)} /\ CellSound(x, c, req, faults')
      /\ x.phase \in {"backoff", "done"} /\ CallMoves(p, i, x)
      /\ UNCHANGED <<req, plan, status, starts, faults, result>>
  BY <1>2, SubReturnsMoves
<1>4. UNCHANGED <<req, plan, status, result>> /\ faults' \in Nat /\ (faults' = 0 => faults = 0)
  BY <1>1, <1>3
<1>5. \A q \in DOMAIN coord : q \notin DOMAIN coord' => q = Callee(p, i) /\ x.phase # "out"
  BY <1>3
<1>6. \A q \in DOMAIN coord' : q \in DOMAIN coord
  BY <1>3
<1>7. CellSound(x, coord[p].children[i], req, faults') /\ x.phase # "out"
  BY <1>2, <1>3
<1> QED
  BY <1>1, <1>3, <1>4, <1>5, <1>6, <1>7, StepKeeps

\* The root coordinator cuts the items and calls its children.
LEMMA DispatchKeeps == Inv /\ Dispatch => Inv'
<1> SUFFICES ASSUME Inv, Dispatch PROVE Inv'
  OBVIOUS
<1>1. req \in Requests /\ faults \in Nat /\ PlanSound(req, plan)
  BY DEF Inv, Dispatch
<1>2. req.size \in Nat /\ MaxRetries \in Nat
  BY <1>1, RequestTypes
<1>3. Tile(RootChildren, 0, req.size)
  BY <1>1, <1>2, RootTile
<1>4. /\ coord' = [p \in {Root} |-> Opened(RootChildren)] /\ status' = "running"
      /\ UNCHANGED <<req, plan, faults, result>>
  BY DEF Dispatch
<1>5. NodeSound(Opened(RootChildren), req, faults) /\ Opened(RootChildren).children = RootChildren
  <2>1. PICK lo \in Nat, n \in Nat : Tile(RootChildren, lo, n)
    BY <1>2, <1>3
  <2> QED
    BY <1>2, <2>1, OpenedSound
<1>6. PICK node : node = Opened(RootChildren)
  OBVIOUS
<1>7. DOMAIN coord' = {Root} /\ coord'[Root] = node
  BY <1>4, <1>6
<1>8. \A j \in DOMAIN node.children : node.children[j].kind = "sub" => node.cells[j].phase # "out"
  BY <1>5, <1>6 DEF Opened, Map, Cell
<1>9. Root \in Paths /\ Len(Root) = 0
  BY DEF Root, Paths
<1>10. LinksSound' /\ Awaited'
  <2>1. ASSUME NEW j \in DOMAIN node.children PROVE Path(Root, j, node.cells[j].attempt) # Root
    <3>1. j \in Nat /\ node.cells[j].attempt \in Nat
      BY <1>5, <1>6, NodeTypes
    <3>2. PICK a \in Nat : a = node.cells[j].attempt
      BY <3>1
    <3>3. Path(Root, j, a) # Root
      BY <1>9, <3>1, PathIs
    <3> QED
      BY <3>2, <3>3
  <2> QED
    BY <1>7, <1>8, <2>1 DEF LinksSound, Awaited, Callee
<1>11. Fresh'
  <2>1. \A j : ~ Under(Root, Root, j)
    BY <1>9 DEF Under
  <2> QED
    BY <1>7, <2>1 DEF Fresh
<1>12. TreeSound'
  BY <1>3, <1>4, <1>5, <1>6, <1>7, <1>9, <1>10, <1>11 DEF TreeSound
<1>13. req'.branchingFactor \in 4 .. 16
  BY <1>1, <1>4 DEF PlanSound
<1> QED
  BY <1>1, <1>4, <1>7, <1>10, <1>12, <1>13 DEF Inv

\* The root has its answers; what was given up runs on without it.
LEMMA FinishKeeps == Inv /\ Finish => Inv'
<1> SUFFICES ASSUME Inv, Finish PROVE Inv'
  OBVIOUS
<1>1. /\ status = "running" /\ Root \in DOMAIN coord /\ AllDone(Root) /\ faults \in Nat /\ req \in Requests
      /\ status' = "done" /\ result' = Merged(Root) /\ coord' = [p \in DOMAIN coord \ {Root} |-> coord[p]]
      /\ UNCHANGED <<req, plan, faults>>
  BY DEF Inv, Finish
<1>2. req.size \in Nat
  BY <1>1, RequestTypes
<1>3. Answers(Merged(Root), Block(0, req.size), req, faults)
  <2>0. PICK n \in Nat : n = req.size
    BY <1>2
  <2>1. PICK node : node = coord[Root]
    OBVIOUS
  <2>2. NodeSound(node, req, faults) /\ Tile(node.children, 0, n)
    BY <1>1, <2>0, <2>1 DEF Inv, TreeSound
  <2>3. \A j \in DOMAIN node.cells : node.cells[j].phase = "done"
    BY <1>1, <2>1 DEF AllDone
  <2>4. PICK lo \in Nat : lo = 0
    OBVIOUS
  <2>5. Answers(Concatenation(Map(node.cells, LAMBDA cell : cell.got)), Block(lo, n), req, faults)
    BY <2>2, <2>3, <2>4, MergedAnswers
  <2> QED
    BY <2>0, <2>1, <2>4, <2>5 DEF Merged
<1>4. DOMAIN coord' = DOMAIN coord \ {Root} /\ \A q \in DOMAIN coord' : coord'[q] = coord[q]
  BY <1>1
<1>5. \A q \in DOMAIN coord' : q \in DOMAIN coord /\ q # Root
  BY <1>4
<1>6. LinksSound'
  BY <1>4, <1>5 DEF Inv, TreeSound, LinksSound, Callee
<1>7. Fresh'
  BY <1>4, <1>5 DEF Inv, TreeSound, Fresh
<1>8. Awaited'
  <2> SUFFICES ASSUME NEW q \in DOMAIN coord, NEW j \in DOMAIN coord[q].children, q \in DOMAIN coord',
                      coord[q].children[j].kind = "sub", coord[q].cells[j].phase = "out"
               PROVE  Callee(q, j) \in DOMAIN coord'
    BY <1>4, <1>5 DEF Awaited, Callee
  <2>1. Callee(q, j) \in DOMAIN coord
    BY DEF Inv, Awaited
  <2>2. q \in Paths /\ j \in Nat /\ coord[q].cells[j].attempt \in Nat
    BY NodeTypes DEF Inv, TreeSound
  <2>3. PICK a \in Nat : a = coord[q].cells[j].attempt
    BY <2>2
  <2>4. Path(q, j, a) # Root
    BY <2>2, PathIs
  <2> QED
    BY <1>4, <2>1, <2>3, <2>4 DEF Callee
<1>9. TreeSound'
  BY <1>1, <1>4, <1>5, <1>6, <1>7 DEF Inv, TreeSound
<1> QED
  BY <1>1, <1>3, <1>4, <1>8, <1>9 DEF Inv

\* The steps before anything is dispatched.
LEMMA EarlyStepsKeep == Inv /\ (RunManyEmpty \/ RunManyRefused \/ SelectPlan) => Inv'
<1> USE DEF Inv, TreeSound, LinksSound, Fresh, Awaited, Callee
<1>1. Inv /\ RunManyEmpty => Inv'
  <2> SUFFICES ASSUME Inv, RunManyEmpty PROVE Inv'
    OBVIOUS
  <2>1. result = <<>> /\ req.size = 0 /\ UNCHANGED <<req, plan, coord, faults, result>> /\ status' = "done"
    BY DEF RunManyEmpty
  <2>2. Answers(result, Block(0, req.size), req, faults)
    BY <2>1 DEF Answers, Block
  <2> QED
    BY <2>1, <2>2
<1>2. Inv /\ RunManyRefused => Inv'
  BY DEF RunManyRefused
<1>3. Inv /\ SelectPlan => Inv'
  <2> SUFFICES ASSUME Inv, SelectPlan PROVE Inv'
    OBVIOUS
  <2>1. /\ req.size > 0 /\ ~ Refused(req) /\ plan' \in Plans(req) /\ status' = "planned"
        /\ UNCHANGED <<req, coord, faults, result>>
    BY DEF SelectPlan
  <2>2. req.size \in Nat /\ req.topology \in {"auto", "in-do", "hybrid", "tree"}
    BY RequestTypes
  <2>3. PlanSound(req, plan')
    BY <2>1, <2>2, PlansSound
  <2> QED
    BY <2>1, <2>3
<1> QED
  BY <1>1, <1>2, <1>3

\* Nothing runs at first.
LEMMA InvInit == Init => Inv
<1> SUFFICES ASSUME Init PROVE Inv
  OBVIOUS
<1>1. DOMAIN coord = {}
  BY DEF Init
<1> QED
  BY <1>1 DEF Init, Inv, TreeSound, LinksSound, Fresh, Awaited

\* Every step keeps the invariant.
LEMMA InvNext == Inv /\ [Next]_vars => Inv'
<1> SUFFICES ASSUME Inv, [Next]_vars PROVE Inv'
  OBVIOUS
<1>1. CASE \E p \in DOMAIN coord : \E i \in DOMAIN coord[p].cells : Step(p, i)
  <2>1. PICK p \in DOMAIN coord : \E i \in DOMAIN coord[p].cells : Step(p, i)
    BY <1>1
  <2>2. PICK i \in DOMAIN coord[p].cells : Step(p, i)
    BY <2>1
  <2> QED
    BY <2>2, ArriveKeeps, LeafReturnsAnswers, SubReturnsKeeps, AgainKeeps, CallFailsAnswers, AnsweredKeeps DEF Step
<1>2. CASE UNCHANGED vars
  BY <1>2 DEF vars, Inv, TreeSound, LinksSound, Fresh, Awaited, Callee
<1> QED
  BY <1>1, <1>2, EarlyStepsKeep, DispatchKeeps, FinishKeeps DEF Next

-----------------------------------------------------------------------------

\* The invariant holds in every behaviour of a runMany.
THEOREM Invariant == Spec => []Inv
BY InvInit, InvNext, PTL DEF Spec

LEMMA InvCuts == Inv => NoItemDropped
<1> SUFFICES ASSUME Inv PROVE NoItemDropped
  OBVIOUS
<1>1. req.size \in Nat
  BY RequestTypes DEF Inv
<1>2. ASSUME status = "planned" PROVE Cut(RootChildren) = All
  <2>1. Tile(RootChildren, 0, req.size)
    BY <1>1, <1>2, RootTile DEF Inv
  <2>2. PICK lo \in Nat, n \in Nat : lo = 0 /\ n = req.size
    BY <1>1
  <2>3. Cut(RootChildren) = Block(lo, n)
    BY <2>1, <2>2, TileCut
  <2> QED
    BY <2>2, <2>3 DEF Block, All, Items
<1>3. ASSUME status = "planned", NEW i \in DOMAIN plan.below PROVE Total(plan.below[i]) = plan.sizes[i]
  <2>1. PlanSound(req, plan)
    BY <1>3 DEF Inv
  <2>2. plan.topology = "tree"
    BY <2>1 DEF PlanSound
  <2>3. PICK below : below = plan.below
    OBVIOUS
  <2>4. below \in Seq(Seq(Nat)) /\ Len(below) = Len(plan.sizes)
        /\ \A k \in 1 .. Len(plan.sizes) : Total(below[k]) = plan.sizes[k]
    BY <2>1, <2>2, <2>3 DEF PlanSound
  <2>5. DOMAIN below = 1 .. Len(below)
    BY <2>4, LenProperties
  <2> QED
    BY <1>3, <2>3, <2>4, <2>5
<1>4. ASSUME NEW p \in DOMAIN coord, NEW i \in DOMAIN coord[p].cells
      PROVE  i \in DOMAIN coord[p].children /\ SoundChild(coord[p].children[i])
  BY CallFacts
<1>5. ASSUME NEW p \in DOMAIN coord, NEW i \in DOMAIN coord[p].cells,
             NEW callee \in DOMAIN coord, callee = Append(p, <<i, coord[p].cells[i].attempt>>)
      PROVE  Cut(coord[callee].children) = coord[p].children[i].items
  <2>1. PICK c : c = coord[p].children[i]
    OBVIOUS
  <2>2. Tile(coord[callee].children, c.base, Len(c.items))
    BY <1>4, <1>5, <2>1 DEF Inv, TreeSound, LinksSound, Callee, Path
  <2>3. PICK lo \in Nat, n \in Nat : lo = c.base /\ n = Len(c.items)
    BY <1>4, <2>1, LenProperties DEF SoundChild
  <2>4. Cut(coord[callee].children) = Block(lo, n)
    BY <2>2, <2>3, TileCut
  <2> QED
    BY <1>4, <2>1, <2>3, <2>4 DEF SoundChild
<1>6. ASSUME NEW p \in DOMAIN coord, NEW i \in DOMAIN coord[p].children, coord[p].children[i].items # <<>>
      PROVE  coord[p].children[i].base = coord[p].children[i].items[1] - 1
  <2>1. PICK c : c = coord[p].children[i]
    OBVIOUS
  <2>2. SoundChild(c)
    BY <2>1, NodeTypes DEF Inv, TreeSound
  <2>3. PICK lo \in Nat, n \in Nat : lo = c.base /\ n = Len(c.items) /\ c.items = Block(lo, n)
    BY <2>2, LenProperties DEF SoundChild
  <2>4. n # 0
    BY <1>6, <2>1, <2>2, <2>3, EmptySeq DEF SoundChild
  <2>5. 1 \in 1 .. n
    BY <2>4
  <2>6. c.items[1] = lo + 1
    BY <2>3, <2>5 DEF Block
  <2> QED
    BY <2>1, <2>3, <2>6
<1> QED
  BY <1>2, <1>3, <1>5, <1>6 DEF NoItemDropped

\* For every request and every bound, no item is lost or doubled where work is
\* cut up: by the root from the plan of buildTreePlan, and by each
\* sub-coordinator from what it was sent; and every item keeps its slot.
THEOREM NothingIsDropped == Spec => []NoItemDropped
BY Invariant, InvCuts, PTL

LEMMA InvAnswers == Inv => ResultsBelongToItems
<1> SUFFICES ASSUME Inv, status = "done" PROVE ResultsBelongToItems
  BY DEF ResultsBelongToItems
<1>1. PICK n \in Nat : n = req.size
  BY RequestTypes DEF Inv
<1>2. PICK lo \in Nat : lo = 0
  OBVIOUS
<1>3. Answers(result, Block(lo, n), req, faults)
  BY <1>1, <1>2 DEF Inv
<1>4. Block(lo, n) \in Seq(Nat) /\ Len(Block(lo, n)) = n /\ \A k \in 1 .. n : Block(lo, n)[k] = lo + k
  BY BlockIs
<1>5. Len(result) = n /\ DOMAIN result = 1 .. n
  BY <1>3, <1>4, LenProperties DEF Answers
<1>6. ASSUME NEW k \in 1 .. n PROVE Right(result[k], k, req, faults)
  <2>1. Right(result[k], lo + k, req, faults)
    BY <1>3, <1>4 DEF Answers
  <2>2. lo + k = k
    BY <1>2
  <2> QED
    BY <2>1, <2>2
<1> QED
  BY <1>1, <1>5, <1>6 DEF ResultsBelongToItems, Right

\* For every request and every bound, runMany answers each item with that item's
\* own result, whatever was reset, retried or given up on the way.
THEOREM ResultsAreTheItemsOwn == Spec => []ResultsBelongToItems
BY Invariant, InvAnswers, PTL

-----------------------------------------------------------------------------
(* How often an item is started.                                            *)

\* There are finitely many functions from 1 .. n to a finite set.
LEMMA FunctionsFinite ==
  ASSUME NEW n \in Nat, NEW S, IsFiniteSet(S)
  PROVE  IsFiniteSet([1 .. n -> S])
<1> DEFINE Good == {m \in 0 .. n : IsFiniteSet([1 .. m -> S])}
<1>1. 0 \in Good
  <2>1. 1 .. 0 = {}
    OBVIOUS
  <2>2. PICK e : e = [m \in {} |-> m]
    OBVIOUS
  <2>3. \A g \in [{} -> S] : g = e
    BY <2>2
  <2>4. [1 .. 0 -> S] \subseteq {e}
    BY <2>1, <2>3
  <2>5. IsFiniteSet({e})
    BY FS_Singleton
  <2>6. IsFiniteSet([1 .. 0 -> S])
    <3> DEFINE U == {e}
               V == [1 .. 0 -> S]
    <3>1. IsFiniteSet(U) /\ V \in SUBSET U
      BY <2>4, <2>5
    <3> HIDE DEF U, V
    <3>2. IsFiniteSet(V)
      BY <3>1, FS_Subset
    <3> QED
      BY <3>2 DEF V
  <2> QED
    BY <2>6
<1>2. ASSUME NEW i \in 1 .. n, i - 1 \in Good PROVE i \in Good
  <2> DEFINE A == [1 .. (i - 1) -> S]
             B == [1 .. i -> S]
             f == [x \in A \X S |-> [m \in 1 .. i |-> IF m = i THEN x[2] ELSE x[1][m]]]
  <2>1. IsFiniteSet(A \X S)
    BY <1>2, FS_Product
  <2>2. f \in [A \X S -> B]
    <3>1. ASSUME NEW g \in A, NEW s \in S PROVE [m \in 1 .. i |-> IF m = i THEN s ELSE g[m]] \in B
      OBVIOUS
    <3> QED
      BY <3>1
  <2>3. ASSUME NEW h \in B PROVE \E x \in A \X S : f[x] = h
    <3>0. \A m \in 1 .. (i - 1) : h[m] \in S
      OBVIOUS
    <3>1. PICK g \in A : g = [m \in 1 .. (i - 1) |-> h[m]]
      BY <3>0
    <3>2. h[i] \in S
      OBVIOUS
    <3>3. [m \in 1 .. i |-> IF m = i THEN h[i] ELSE g[m]] = h
      BY <3>1
    <3>4. f[<<g, h[i]>>] = h /\ <<g, h[i]>> \in A \X S
      BY <3>2, <3>3
    <3> QED
      BY <3>4
  <2>4. f \in Surjection(A \X S, B)
    <3> HIDE DEF f, A, B
    <3> QED
      BY <2>2, <2>3 DEF Surjection
  <2>5. IsFiniteSet(B)
    <3> HIDE DEF f, A, B
    <3> QED
      BY <2>1, <2>4, FS_Surjection
  <2> QED
    BY <2>5
<1> HIDE DEF Good
<1>3. n \in 0 .. n
  OBVIOUS
<1>4. n \in Good
  BY <1>1, <1>2, <1>3, UpTo
<1> QED
  BY <1>4 DEF Good

\* The child c is given item k.
Has(c, k) == k \in c.base + 1 .. c.base + Len(c.items)

LEMMA HasIs ==
  ASSUME NEW c, SoundChild(c)
  PROVE  \A k : Has(c, k) <=> k \in Range(c.items)
<1>1. PICK lo \in Nat, n \in Nat : lo = c.base /\ n = Len(c.items) /\ c.items = [k \in 1 .. n |-> lo + k]
  BY LenProperties DEF SoundChild, Block
<1>2. Range(c.items) = {c.items[k] : k \in 1 .. n}
  BY <1>1 DEF Range
<1>3. Range(c.items) = {lo + k : k \in 1 .. n}
  BY <1>1, <1>2
<1>4. ASSUME NEW k \in lo + 1 .. lo + n PROVE k \in {lo + j : j \in 1 .. n}
  <2>1. k - lo \in 1 .. n /\ k = lo + (k - lo)
    OBVIOUS
  <2> QED
    BY <2>1
<1> QED
  BY <1>1, <1>3, <1>4 DEF Has

\* Every item of a tile is given to one child and to one only.
LEMMA TileGives ==
  ASSUME NEW children, NEW lo \in Nat, NEW n \in Nat, Tile(children, lo, n)
  PROVE  /\ \A k \in lo + 1 .. lo + n : \E i \in DOMAIN children : Has(children[i], k)
         /\ \A i \in DOMAIN children : \A k : Has(children[i], k) => k \in lo + 1 .. lo + n
         /\ \A i \in DOMAIN children, j \in DOMAIN children :
              \A k : Has(children[i], k) /\ Has(children[j], k) => i = j
         /\ \A i \in DOMAIN children : children[i].base + Len(children[i].items) <= lo + n
<1> DEFINE ss == ItemsOf(children)
           e == Ends(Lengths(ss))
<1>1. /\ Len(ss) \in Nat /\ DOMAIN children = 1 .. Len(ss)
      /\ \A i \in DOMAIN children :
           /\ e[i - 1] \in Nat /\ e[i] \in Nat /\ Len(children[i].items) \in Nat
           /\ e[i] = e[i - 1] + Len(children[i].items)
           /\ children[i].base = lo + e[i - 1]
  BY TilePlaces
<1>2. ss \in Seq(Seq(Nat)) /\ Total(Lengths(ss)) = n
  BY DEF Tile
<1>3. Lengths(ss) \in Seq(Nat) /\ Len(Lengths(ss)) = Len(ss)
  BY <1>2, LengthsTyped
<1>4. e[Len(ss)] = n
  BY <1>2, <1>3 DEF Total
<1>5. \A i \in DOMAIN children : ss[i] = children[i].items
  BY DEF ItemsOf
<1>6. \A k \in 1 .. n : \E i \in 1 .. Len(ss) : k - e[i - 1] \in 1 .. Len(ss[i])
  BY <1>2, ConcatenationIs
<1>7. \A i \in 0 .. Len(ss), j \in 0 .. Len(ss) : i <= j => e[i] <= e[j]
  BY <1>3, EndsGrow
<1> HIDE DEF ss, e
<1>8. ASSUME NEW k \in lo + 1 .. lo + n PROVE \E i \in DOMAIN children : Has(children[i], k)
  <2>1. k - lo \in 1 .. n
    OBVIOUS
  <2>2. PICK i \in 1 .. Len(ss) : (k - lo) - e[i - 1] \in 1 .. Len(ss[i])
    BY <1>6, <2>1
  <2>3. PICK x \in Nat, m \in Nat : x = e[i - 1] /\ m = Len(children[i].items) /\ children[i].base = lo + x
    BY <1>1
  <2>4. (k - lo) - x \in 1 .. m
    BY <1>1, <1>5, <2>2, <2>3
  <2>5. k \in (lo + x) + 1 .. (lo + x) + m
    BY <2>4
  <2> QED
    BY <1>1, <2>3, <2>5 DEF Has
<1>9. ASSUME NEW i \in DOMAIN children, NEW k, Has(children[i], k)
      PROVE  k \in lo + e[i - 1] + 1 .. lo + e[i]
  <2>1. PICK x \in Nat, m \in Nat : x = e[i - 1] /\ m = Len(children[i].items) /\ children[i].base = lo + x /\ e[i] = x + m
    BY <1>1
  <2>2. k \in (lo + x) + 1 .. (lo + x) + m
    BY <1>9, <2>1 DEF Has
  <2>3. k \in lo + x + 1 .. lo + (x + m)
    BY <2>2
  <2> QED
    BY <2>1, <2>3
<1>10. ASSUME NEW i \in DOMAIN children, NEW k, Has(children[i], k) PROVE k \in lo + 1 .. lo + n
  <2>1. i \in 0 .. Len(ss) /\ Len(ss) \in 0 .. Len(ss) /\ i <= Len(ss)
    BY <1>1
  <2>2. PICK x \in Nat, y \in Nat : x = e[i - 1] /\ y = e[i] /\ y <= n
    BY <1>1, <1>4, <1>7, <2>1
  <2>3. k \in lo + x + 1 .. lo + y
    BY <1>9, <1>10, <2>2
  <2> QED
    BY <2>2, <2>3
<1>11. ASSUME NEW i \in DOMAIN children, NEW j \in DOMAIN children, NEW k,
              Has(children[i], k), Has(children[j], k), i < j
       PROVE  FALSE
  <2>1. i \in 0 .. Len(ss) /\ j - 1 \in 0 .. Len(ss) /\ i <= j - 1
    BY <1>1, <1>11
  <2>2. PICK x \in Nat, y \in Nat, z \in Nat, w \in Nat : x = e[i - 1] /\ y = e[i] /\ z = e[j - 1] /\ w = e[j] /\ y <= z
    BY <1>1, <1>7, <2>1
  <2>3. k \in lo + x + 1 .. lo + y /\ k \in lo + z + 1 .. lo + w
    BY <1>9, <1>11, <2>2
  <2> QED
    BY <2>2, <2>3
<1>13. ASSUME NEW i \in DOMAIN children PROVE children[i].base + Len(children[i].items) <= lo + n
  <2>1. i \in 0 .. Len(ss) /\ Len(ss) \in 0 .. Len(ss) /\ i <= Len(ss)
    BY <1>1
  <2>2. PICK x \in Nat, y \in Nat, m \in Nat :
          x = e[i - 1] /\ y = e[i] /\ m = Len(children[i].items) /\ y = x + m /\ y <= n /\ children[i].base = lo + x
    BY <1>1, <1>4, <1>7, <2>1
  <2> HIDE DEF ss, e
  <2>3. x + m <= n
    BY <2>2
  <2>4. \A b \in Nat, c \in Nat : b + c <= n => (lo + b) + c <= lo + n
    OBVIOUS
  <2> QED
    BY <2>2, <2>3, <2>4
<1>12. \A i \in DOMAIN children, j \in DOMAIN children : i < j \/ j < i \/ i = j
  BY <1>1
<1> QED
  BY <1>8, <1>10, <1>11, <1>12, <1>13

\* What the tier of a child says about the tiers of retries.
Stage(c, n) ==
  /\ c.kind = "here" => n = 1 /\ Tiers = 0
  /\ c.kind = "leaf" => Tiers = n
  /\ c.kind = "sub" => Tiers = n + (IF c.depth <= 1 THEN 1 ELSE c.depth)

\* The children of the coordinators on the path p, the last of which are `kids`.
\* They follow from the plan and the path alone, also when the coordinators
\* above are gone.
Chain(chain, p, kids) ==
  /\ chain[1] = RootChildren /\ kids = chain[Len(p) + 1]
  /\ \A n \in 1 .. Len(p) + 1 :
       \E lo \in Nat, m \in Nat : Tile(chain[n], lo, m) /\ lo + m <= req.size
  /\ \A n \in 1 .. Len(p) :
       /\ p[n][1] \in DOMAIN chain[n] /\ p[n][2] <= MaxRetries
       /\ chain[n + 1] = SubChildren(chain[n][p[n][1]])
       /\ \A i \in DOMAIN kids : \A k : Has(kids[i], k) => Has(chain[n][p[n][1]], k)
  /\ \A i \in DOMAIN kids : Stage(kids[i], Len(p) + 1)

Lineage == \A p \in DOMAIN coord : \E chain : Chain(chain, p, coord[p].children)

\* Paths to the same item differ in the attempts only.
LEMMA PathsAgree ==
  ASSUME NEW p \in Paths, NEW q \in Paths, NEW a, NEW b, NEW P, NEW Q,
         Chain(a, p, P), Chain(b, q, Q), NEW i \in DOMAIN P, NEW j \in DOMAIN Q,
         NEW k, Has(P[i], k), Has(Q[j], k), Len(q) <= Len(p)
  PROVE  /\ \A n \in 1 .. Len(q) : p[n][1] = q[n][1]
         /\ Len(q) < Len(p) => p[Len(q) + 1][1] = j
         /\ Len(q) = Len(p) => i = j
<1>1. PICK l \in Nat, m \in Nat : l = Len(q) /\ m = Len(p) /\ l <= m
  BY LenProperties DEF Paths
<1>2. /\ a[1] = RootChildren /\ P = a[m + 1]
      /\ \A n \in 1 .. m : /\ p[n][1] \in DOMAIN a[n] /\ a[n + 1] = SubChildren(a[n][p[n][1]])
                           /\ Has(a[n][p[n][1]], k)
  BY <1>1 DEF Chain
<1>3. /\ b[1] = RootChildren /\ Q = b[l + 1]
      /\ \A n \in 1 .. l : /\ q[n][1] \in DOMAIN b[n] /\ b[n + 1] = SubChildren(b[n][q[n][1]])
                           /\ Has(b[n][q[n][1]], k)
  BY <1>1 DEF Chain
<1>4. \A n \in 1 .. m + 1 : \A x \in DOMAIN a[n], y \in DOMAIN a[n] :
        Has(a[n][x], k) /\ Has(a[n][y], k) => x = y
  <2> SUFFICES ASSUME NEW n \in 1 .. m + 1, NEW x \in DOMAIN a[n], NEW y \in DOMAIN a[n],
                      Has(a[n][x], k), Has(a[n][y], k)
               PROVE  x = y
    OBVIOUS
  <2>1. PICK c : c = a[n]
    OBVIOUS
  <2>2. PICK lo \in Nat, s \in Nat : Tile(c, lo, s)
    BY <1>1, <2>1 DEF Chain
  <2>3. Has(c[x], k) /\ Has(c[y], k) /\ x \in DOMAIN c /\ y \in DOMAIN c
    BY <2>1
  <2> QED
    BY <2>2, <2>3, TileGives
<1> DEFINE S == {n \in 0 .. l : a[n + 1] = b[n + 1]}
<1>5. 0 \in S
  BY <1>2, <1>3
<1>6. ASSUME NEW n \in 1 .. l, a[n] = b[n] PROVE p[n][1] = q[n][1]
  <2>1. n \in 1 .. m /\ n \in 1 .. m + 1
    BY <1>1
  <2> QED
    BY <1>2, <1>3, <1>4, <1>6, <2>1
<1>7. ASSUME NEW n \in 1 .. l, n - 1 \in S PROVE n \in S
  <2>1. a[n] = b[n] /\ n \in 1 .. m /\ n \in 0 .. l
    BY <1>1, <1>7
  <2>2. p[n][1] = q[n][1]
    BY <1>6, <2>1
  <2>3. a[n + 1] = b[n + 1]
    BY <1>2, <1>3, <2>1, <2>2
  <2> QED
    BY <2>1, <2>3
<1> HIDE DEF S
<1>8. \A n \in 0 .. l : n \in S
  BY <1>5, <1>7, UpTo
<1>9. \A n \in 0 .. l : a[n + 1] = b[n + 1]
  BY <1>8 DEF S
<1>10. \A n \in 1 .. l : a[n] = b[n]
  <2>1. \A n \in 1 .. l : n - 1 \in 0 .. l /\ (n - 1) + 1 = n
    OBVIOUS
  <2> QED
    BY <1>9, <2>1
<1>11. \A n \in 1 .. l : p[n][1] = q[n][1]
  BY <1>6, <1>10
<1>12. a[l + 1] = Q
  BY <1>3, <1>9
<1>13. l < m => p[l + 1][1] = j
  <2> SUFFICES ASSUME l < m PROVE p[l + 1][1] = j
    OBVIOUS
  <2>1. l + 1 \in 1 .. m /\ l + 1 \in 1 .. m + 1
    OBVIOUS
  <2>2. p[l + 1][1] \in DOMAIN a[l + 1] /\ Has(a[l + 1][p[l + 1][1]], k)
    BY <1>2, <2>1
  <2> QED
    BY <1>4, <1>12, <2>1, <2>2
<1>14. l = m => i = j
  <2>1. m + 1 \in 1 .. m + 1
    OBVIOUS
  <2> QED
    BY <1>2, <1>4, <1>12, <2>1
<1> QED
  BY <1>1, <1>11, <1>13, <1>14

\* h is a combination of attempts that goes on from those of p.
Above(h, p) == \A n \in 1 .. Len(p) : h[n] = p[n][2]

\* The combination h is within what the call at cell has reached.
Reached(h, q, cell) ==
  h[Len(q) + 1] <= cell.attempt /\ (cell.phase = "sent" => h[Len(q) + 1] < cell.attempt)

\* h is the combination in which a leaf of o runs item k.
RunsAt(h, k, o, i) ==
  /\ Has(coord[o].children[i], k) /\ coord[o].children[i].kind = "leaf"
  /\ Above(h, o) /\ h[Len(o) + 1] = coord[o].cells[i].attempt

\* It is within what every call on the way has reached.
Bounded ==
  \A o \in DOMAIN coord : \A i \in DOMAIN coord[o].children : \A k, h : RunsAt(h, k, o, i) =>
    \A q \in DOMAIN coord : \A j \in DOMAIN coord[q].children :
      Has(coord[q].children[j], k) /\ coord[q].children[j].kind # "here" /\ Above(h, q) =>
        Reached(h, q, coord[q].cells[j])

LEMMA StartsBounded == Inv /\ Lineage => Bounded
<1> SUFFICES ASSUME Inv, Lineage, NEW o \in DOMAIN coord, NEW i \in DOMAIN coord[o].children, NEW k, NEW h,
                    RunsAt(h, k, o, i),
                    NEW q \in DOMAIN coord, NEW j \in DOMAIN coord[q].children,
                    Has(coord[q].children[j], k), coord[q].children[j].kind # "here", Above(h, q)
             PROVE  Reached(h, q, coord[q].cells[j])
  BY Zenon DEF Bounded
<1>0. /\ Has(coord[o].children[i], k) /\ coord[o].children[i].kind = "leaf"
      /\ Above(h, o) /\ h[Len(o) + 1] = coord[o].cells[i].attempt
  BY DEF RunsAt
<1>1. /\ o \in Paths /\ q \in Paths /\ NodeSound(coord[o], req, faults) /\ NodeSound(coord[q], req, faults)
  BY DEF Inv, TreeSound
<1>2. PICK l \in Nat, m \in Nat : l = Len(q) /\ m = Len(o)
  BY <1>1, LenProperties DEF Paths
<1>3. PICK a : Chain(a, o, coord[o].children)
  BY DEF Lineage
<1>4. PICK b : Chain(b, q, coord[q].children)
  BY DEF Lineage
<1>5. SoundChild(coord[q].children[j]) /\ CellSound(coord[o].cells[i], coord[o].children[i], req, faults)
      /\ coord[o].cells[i].attempt \in Nat
  BY <1>1, NodeTypes
<1>6. l <= m
  <2>1. Stage(coord[o].children[i], m + 1) /\ Stage(coord[q].children[j], l + 1)
    BY <1>2, <1>3, <1>4 DEF Chain
  <2>2. Tiers = m + 1
    BY <1>0, <2>1 DEF Stage
  <2>3. coord[q].children[j].kind = "leaf" \/ (coord[q].children[j].kind = "sub" /\ coord[q].children[j].depth \in Nat)
    BY <1>5 DEF SoundChild
  <2>4. CASE coord[q].children[j].kind = "leaf"
    BY <2>1, <2>2, <2>4 DEF Stage
  <2>5. CASE coord[q].children[j].kind = "sub" /\ coord[q].children[j].depth \in Nat
    <3>1. PICK d \in Nat : d = coord[q].children[j].depth
      BY <2>5
    <3>2. m + 1 = (l + 1) + (IF d <= 1 THEN 1 ELSE d)
      BY <2>1, <2>2, <2>5, <3>1 DEF Stage
    <3> QED
      BY <3>2
  <2> QED
    BY <2>3, <2>4, <2>5
<1>7. /\ \A n \in 1 .. Len(q) : o[n][1] = q[n][1]
      /\ Len(q) < Len(o) => o[Len(q) + 1][1] = j
      /\ Len(q) = Len(o) => i = j
  <2>1. PICK P, Q : P = coord[o].children /\ Q = coord[q].children
    OBVIOUS
  <2>2. Chain(a, o, P) /\ Chain(b, q, Q) /\ i \in DOMAIN P /\ j \in DOMAIN Q /\ Has(P[i], k) /\ Has(Q[j], k)
    BY <1>0, <1>3, <1>4, <2>1
  <2>3. Len(q) <= Len(o)
    BY <1>2, <1>6
  <2> QED
    BY <1>1, <2>2, <2>3, PathsAgree
<1>8. \A n \in 1 .. l : o[n] = q[n]
  <2> SUFFICES ASSUME NEW n \in 1 .. l PROVE o[n] = q[n]
    OBVIOUS
  <2>1. n \in 1 .. m /\ o[n] \in Nat \X Nat /\ q[n] \in Nat \X Nat
    BY <1>1, <1>2, <1>6, ElementOfSeq DEF Paths
  <2>2. o[n][2] = h[n] /\ q[n][2] = h[n]
    BY <1>0, <1>2, <2>1 DEF Above
  <2>3. o[n][1] = q[n][1]
    BY <1>2, <1>7
  <2> QED
    BY <2>1, <2>2, <2>3
<1>9. CASE l < m
  <2>1. Under(o, q, j)
    BY <1>2, <1>7, <1>8, <1>9 DEF Under
  <2>2. /\ AttemptOf(o, q) <= coord[q].cells[j].attempt
        /\ coord[q].cells[j].phase = "sent" => AttemptOf(o, q) < coord[q].cells[j].attempt
    BY <2>1 DEF Inv, TreeSound, Fresh
  <2>3. l + 1 \in 1 .. m
    BY <1>9
  <2>4. h[l + 1] = AttemptOf(o, q)
    BY <1>0, <1>2, <2>3 DEF Above, AttemptOf
  <2> QED
    BY <1>2, <2>2, <2>4 DEF Reached
<1>10. CASE l = m
  <2>1. q = o
    BY <1>1, <1>2, <1>8, <1>10, SeqEqual DEF Paths
  <2>2. i = j
    BY <1>2, <1>7, <1>10
  <2>3. coord[o].cells[i].phase # "sent"
    BY <1>0, <1>5 DEF CellSound
  <2> QED
    BY <1>0, <1>5, <2>1, <2>2, <2>3 DEF Reached
<1> QED
  BY <1>6, <1>9, <1>10

\* The children of the root have no coordinator above.
LEMMA RootChain ==
  ASSUME req.size \in Nat, PlanSound(req, plan)
  PROVE  \E chain : Chain(chain, Root, RootChildren)
<1>1. PICK chain : chain = [n \in 1 .. 1 |-> RootChildren]
  OBVIOUS
<1>2. Len(Root) = 0 /\ 1 .. Len(Root) = {} /\ 1 .. Len(Root) + 1 = {1}
  BY DEF Root
<1>3. chain[1] = RootChildren
  BY <1>1
<1>4. /\ Tile(RootChildren, 0, req.size)
      /\ \A i \in DOMAIN RootChildren :
           /\ plan.topology = "in-do" => RootChildren[i].kind = "here"
           /\ plan.topology = "hybrid" => RootChildren[i].kind = "leaf"
           /\ plan.topology = "tree" => RootChildren[i].kind = "sub" /\ RootChildren[i].depth = plan.depth - 1
  BY RootTile
<1>5. \E lo \in Nat, m \in Nat : Tile(RootChildren, lo, m) /\ lo + m <= req.size
  <2>1. 0 + req.size <= req.size /\ 0 \in Nat
    OBVIOUS
  <2> QED
    BY <1>4, <2>1
<1>6. ASSUME NEW i \in DOMAIN RootChildren PROVE Stage(RootChildren[i], 1)
  <2>1. CASE plan.topology = "in-do"
    BY <1>4, <2>1 DEF Stage, Tiers
  <2>2. CASE plan.topology = "hybrid"
    BY <1>4, <2>2 DEF Stage, Tiers
  <2>3. CASE plan.topology = "tree"
    <3>1. PICK d \in Nat : d = plan.depth /\ d > 0
      BY <2>3 DEF PlanSound
    <3>2. Tiers = IF d < 2 THEN 2 ELSE d
      BY <2>3, <3>1 DEF Tiers
    <3>3. RootChildren[i].kind = "sub" /\ RootChildren[i].depth = d - 1
      BY <1>4, <2>3, <3>1
    <3>4. Tiers = 1 + (IF d - 1 <= 1 THEN 1 ELSE d - 1)
      BY <3>1, <3>2
    <3> QED
      BY <3>3, <3>4 DEF Stage
  <2> QED
    BY <2>1, <2>2, <2>3 DEF PlanSound
<1>7. Chain(chain, Root, RootChildren)
  BY <1>2, <1>3, <1>5, <1>6 DEF Chain
<1> QED
  BY <1>7

\* A call adds its children to the chain.
LEMMA ChainGrows ==
  ASSUME NEW chain, NEW p \in Paths, NEW kids, Chain(chain, p, kids), req.size \in Nat,
         NEW i \in DOMAIN kids, i \in Nat, SoundChild(kids[i]), kids[i].kind = "sub",
         NEW a \in Nat, a <= MaxRetries, req.branchingFactor \in 4 .. 16
  PROVE  \E longer : Chain(longer, Path(p, i, a), SubChildren(kids[i]))
<1>1. PICK m \in Nat : m = Len(p)
  BY LenProperties DEF Paths
<1>2. PICK o : o = Path(p, i, a)
  OBVIOUS
<1>3. Len(o) = m + 1 /\ (\A n \in 1 .. m : o[n] = p[n]) /\ o[m + 1] = <<i, a>>
  <2>1. Len(Path(p, i, a)) = Len(p) + 1
    BY PathIs
  <2>2. \A n \in 1 .. Len(p) : Path(p, i, a)[n] = p[n]
    BY PathIs
  <2>3. Path(p, i, a)[Len(p) + 1] = <<i, a>>
    BY PathIs
  <2> QED
    BY <1>1, <1>2, <2>1, <2>2, <2>3
<1>4. PICK c, ch : c = kids[i] /\ ch = SubChildren(c)
  OBVIOUS
<1>5. /\ Tile(ch, c.base, Len(c.items))
      /\ \A j \in DOMAIN ch : IF c.depth <= 1 THEN ch[j].kind = "leaf"
                              ELSE ch[j].kind = "sub" /\ ch[j].depth = c.depth - 1
  BY <1>4, SubTile
<1>6. PICK b \in Nat, s \in Nat : b = c.base /\ s = Len(c.items)
  BY <1>4, LenProperties DEF SoundChild
<1>7. b + s <= req.size
  <2>1. kids = chain[m + 1] /\ m + 1 \in 1 .. m + 1
    BY <1>1 DEF Chain
  <2>2. PICK lo \in Nat, x \in Nat : Tile(kids, lo, x) /\ lo + x <= req.size
    BY <1>1, <2>1 DEF Chain
  <2>3. c.base + Len(c.items) <= lo + x
    BY <1>4, <2>2, TileGives
  <2>4. PICK r \in Nat : r = req.size
    OBVIOUS
  <2>5. b + s <= lo + x /\ lo + x <= r
    BY <1>6, <2>2, <2>3, <2>4
  <2> QED
    BY <2>4, <2>5
<1>8. \A j \in DOMAIN ch : \A k : Has(ch[j], k) => Has(c, k)
  <2>1. Tile(ch, b, s)
    BY <1>5, <1>6
  <2>2. \A j \in DOMAIN ch : \A k : Has(ch[j], k) => k \in b + 1 .. b + s
    BY <2>1, TileGives
  <2> QED
    BY <1>6, <2>2 DEF Has
<1>9. PICK longer : longer = [n \in 1 .. m + 2 |-> IF n <= m + 1 THEN chain[n] ELSE ch]
  OBVIOUS
<1>10. (\A n \in 1 .. m + 1 : longer[n] = chain[n]) /\ longer[m + 2] = ch /\ (m + 1) + 1 = m + 2
  BY <1>9
<1>11. /\ chain[1] = RootChildren /\ kids = chain[m + 1]
       /\ \A n \in 1 .. m + 1 : \E lo \in Nat, x \in Nat : Tile(chain[n], lo, x) /\ lo + x <= req.size
       /\ \A n \in 1 .. m :
            /\ p[n][1] \in DOMAIN chain[n] /\ p[n][2] <= MaxRetries
            /\ chain[n + 1] = SubChildren(chain[n][p[n][1]])
            /\ \A j \in DOMAIN kids : \A k : Has(kids[j], k) => Has(chain[n][p[n][1]], k)
       /\ Stage(c, m + 1)
  BY <1>1, <1>4 DEF Chain
<1>12. longer[1] = RootChildren
  BY <1>10, <1>11
<1>13. \A n \in 1 .. m + 2 : \E lo \in Nat, x \in Nat : Tile(longer[n], lo, x) /\ lo + x <= req.size
  <2>1. \A n \in 1 .. m + 2 : n \in 1 .. m + 1 \/ n = m + 2
    OBVIOUS
  <2>2. Tile(longer[m + 2], b, s) /\ b + s <= req.size
    BY <1>5, <1>6, <1>7, <1>10
  <2> QED
    BY <1>10, <1>11, <2>1, <2>2
<1>14. ASSUME NEW n \in 1 .. m + 1
       PROVE  /\ o[n][1] \in DOMAIN longer[n] /\ o[n][2] <= MaxRetries
              /\ longer[n + 1] = SubChildren(longer[n][o[n][1]])
              /\ \A j \in DOMAIN ch : \A k : Has(ch[j], k) => Has(longer[n][o[n][1]], k)
  <2>1. CASE n = m + 1
    <3>1. o[n][1] = i /\ o[n][2] = a /\ longer[n] = kids /\ longer[n + 1] = ch
      BY <1>3, <1>10, <1>11, <2>1
    <3> QED
      BY <1>4, <1>8, <3>1
  <2>2. CASE n \in 1 .. m
    <3>1. o[n] = p[n] /\ longer[n] = chain[n]
      BY <1>3, <1>10, <2>2
    <3>2. n + 1 \in 1 .. m + 1
      BY <2>2
    <3>3. longer[n + 1] = chain[n + 1]
      BY <1>10, <3>2
    <3> QED
      BY <1>4, <1>8, <1>11, <2>2, <3>1, <3>3
  <2> QED
    BY <2>1, <2>2
<1>15. ASSUME NEW j \in DOMAIN ch PROVE Stage(ch[j], m + 2)
  <2>1. PICK d \in Nat : d = c.depth
    BY <1>4 DEF SoundChild
  <2>2. Tiers = (m + 1) + (IF d <= 1 THEN 1 ELSE d)
    BY <1>4, <1>11, <2>1 DEF Stage
  <2>3. CASE d <= 1
    BY <1>5, <2>1, <2>2, <2>3 DEF Stage
  <2>4. CASE d > 1
    <3>1. ch[j].kind = "sub" /\ ch[j].depth = d - 1
      BY <1>5, <2>1, <2>4
    <3>2. Tiers = (m + 2) + (IF d - 1 <= 1 THEN 1 ELSE d - 1)
      BY <2>2, <2>4
    <3> QED
      BY <3>1, <3>2 DEF Stage
  <2> QED
    BY <2>1, <2>3, <2>4
<1>16. Chain(longer, o, ch)
  BY <1>3, <1>10, <1>12, <1>13, <1>14, <1>15 DEF Chain
<1> QED
  BY <1>2, <1>4, <1>16

\* SubChildren, of the width it reads from the request.
SubChildrenOf(c, width) ==
  LET slices == Slices(c.items, c.sizes, c.base)
      leaves(s) == [k \in DOMAIN s.items |->
                      Child("leaf", [items |-> <<s.items[k]>>, base |-> s.base + k - 1], <<>>, 0)]
      sub(s) == Child("sub", s, BalancedFill(Len(s.items), width), c.depth - 1)
  IN IF c.depth <= 1 THEN Concatenation(Map(slices, leaves)) ELSE Map(slices, sub)

\* The plan of a request stays.
LEMMA ChainKept ==
  ASSUME UNCHANGED <<req, plan>>, NEW chain, NEW p, NEW kids, Chain(chain, p, kids)
  PROVE  Chain(chain, p, kids)'
<1>1. RootChildren' = RootChildren
  BY DEF RootChildren, Items
<1>2. ASSUME NEW c PROVE SubChildren(c)' = SubChildren(c)
  <2>1. SubChildren(c) = SubChildrenOf(c, req.branchingFactor)
    BY DEF SubChildren, SubChildrenOf, Map
  <2>2. SubChildren(c)' = SubChildrenOf(c, req'.branchingFactor)
    BY DEF SubChildren, SubChildrenOf, Map
  <2> QED
    BY <2>1, <2>2
<1>3. \A c, n : Stage(c, n)' <=> Stage(c, n)
  BY DEF Stage, Tiers
<1> QED
  BY <1>1, <1>2, <1>3 DEF Chain

-----------------------------------------------------------------------------
(* The combinations of attempts in which an item has been started.          *)

\* The combinations of attempts over T tiers.
Full(T) == [1 .. T -> 0 .. MaxRetries]

\* The items whose attempts are foreseen as long as nothing is reset: those that
\* look like a reset are retried to the end, and without any of these nothing is.
Foreseen(r) == IF r.lookalike \cap (1 .. r.size) = {} THEN 1 .. r.size ELSE r.lookalike

LastAttempt(r) == IF r.lookalike \cap (1 .. r.size) = {} THEN 0 ELSE MaxRetries

Least(T, r) == [1 .. T -> 0 .. LastAttempt(r)]

\* What has been called for h at cell is over: a leaf was started, the slice of a
\* sub-coordinator answered for.
Ended(h, p, c, cell) ==
  /\ h[Len(p) + 1] <= cell.attempt
  /\ c.kind = "sub" /\ h[Len(p) + 1] = cell.attempt => cell.phase \in {"backoff", "done"}

\* What one call of p knows of the combinations H in which item k was started.
Tally(H, k, p, c, cell, T, r, f) ==
  /\ c.kind = "here" => H = Full(T) /\ cell.phase # "backoff"
  /\ c.kind # "here" => \A h \in H : Above(h, p) => Reached(h, p, cell)
  /\ f = 0 /\ k \in Foreseen(r) =>
       /\ \A h \in Least(T, r) : Above(h, p) /\ (c.kind # "here" => Ended(h, p, c, cell)) => h \in H
       /\ c.kind # "here" /\ cell.phase = "done" => cell.attempt = LastAttempt(r)

\* The combinations in which item k was started are H.
Counted(H, k) ==
  /\ H \subseteq Full(Tiers) /\ starts[k] = Cardinality(H)
  /\ \A p \in DOMAIN coord : \A i \in DOMAIN coord[p].children :
       Has(coord[p].children[i], k) =>
         Tally(H, k, p, coord[p].children[i], coord[p].cells[i], Tiers, req, faults)
  /\ faults = 0 /\ k \in Foreseen(req) =>
       H \subseteq Least(Tiers, req) /\ (status = "done" => Least(Tiers, req) \subseteq H)

\* Nothing is run again when no result looks like a reset and none happened.
Calm ==
  faults = 0 /\ req.lookalike \cap Items = {} =>
    \A p \in DOMAIN coord :
      /\ \A n \in 1 .. Len(p) : p[n][2] = 0
      /\ \A i \in DOMAIN coord[p].children :
           coord[p].cells[i].attempt = 0 /\ coord[p].cells[i].phase # "backoff"

\* The inductive invariant about starts, on top of Inv.
Count ==
  /\ plan.topology \in {"none", "in-do", "hybrid", "tree"} /\ Tiers \in Nat
  /\ faults \in 0 .. req.maxFaults /\ starts \in [Items -> Nat]
  /\ IF status \in {"running", "done"} THEN \A k \in Items : \E H : Counted(H, k)
     ELSE DOMAIN coord = {} /\ starts = [k \in Items |-> 0]
  /\ Lineage
  /\ Calm

LEMMA FullIs ==
  ASSUME NEW T \in Nat, MaxRetries \in Nat
  PROVE  /\ IsFiniteSet(Full(T))
         /\ \A H \in SUBSET Full(T) :
              /\ Cardinality(H) \in Nat /\ Cardinality(H) <= Cardinality(Full(T))
              /\ \A h : h \notin H => Cardinality(H \cup {h}) = Cardinality(H) + 1
<1>1. IsFiniteSet(0 .. MaxRetries)
  BY FS_Interval
<1>2. IsFiniteSet(Full(T))
  BY <1>1, FunctionsFinite DEF Full
<1>3. ASSUME NEW H \in SUBSET Full(T)
      PROVE  /\ Cardinality(H) \in Nat /\ Cardinality(H) <= Cardinality(Full(T))
             /\ \A h : h \notin H => Cardinality(H \cup {h}) = Cardinality(H) + 1
  <2>1. IsFiniteSet(H) /\ Cardinality(H) <= Cardinality(Full(T))
    BY <1>2, FS_Subset
  <2>2. Cardinality(H) \in Nat
    BY <2>1, FS_CardinalityType
  <2>3. \A h : h \notin H => Cardinality(H \cup {h}) = Cardinality(H) + 1
    BY <2>1, FS_AddElement
  <2> QED
    BY <2>1, <2>2, <2>3
<1> QED
  BY <1>2, <1>3

\* Another start tells a call nothing new, when it is within what was reached.
LEMMA TallyGrows ==
  ASSUME NEW H, NEW J, NEW k, NEW p, NEW c, NEW cell, NEW T, NEW r, NEW f, NEW g,
         Tally(H, k, p, c, cell, T, r, f), g = 0 => f = 0, H \subseteq J, J \subseteq Full(T),
         \A h \in J : h \notin H /\ Above(h, p) /\ c.kind # "here" => Reached(h, p, cell)
  PROVE  Tally(J, k, p, c, cell, T, r, g)
<1>1. c.kind = "here" => J = Full(T) /\ cell.phase # "backoff"
  BY DEF Tally
<1>2. ASSUME c.kind # "here", NEW h \in J, Above(h, p) PROVE Reached(h, p, cell)
  BY <1>2 DEF Tally
<1>3. ASSUME g = 0, k \in Foreseen(r)
      PROVE  /\ \A h \in Least(T, r) : Above(h, p) /\ (c.kind # "here" => Ended(h, p, c, cell)) => h \in J
             /\ c.kind # "here" /\ cell.phase = "done" => cell.attempt = LastAttempt(r)
  BY <1>3 DEF Tally
<1> QED
  BY <1>1, <1>2, <1>3 DEF Tally

\* The starts of item k go on from H to J: at most one leaf is called.
Grows(H, J, k) ==
  \/ J = H /\ starts'[k] = starts[k]
  \/ \E h \in Full(Tiers) :
       /\ h \notin H /\ J = H \cup {h} /\ starts'[k] = starts[k] + 1
       /\ \E o \in DOMAIN coord' : \E i \in DOMAIN coord'[o].children : RunsAt(h, k, o, i)'
       /\ faults' = 0 /\ k \in Foreseen(req) => h \in Least(Tiers, req)

LEMMA GrowsIs ==
  ASSUME NEW H, NEW J, NEW k, H \subseteq Full(Tiers), Grows(H, J, k), starts[k] = Cardinality(H),
         Tiers \in Nat, MaxRetries \in Nat, Bounded', req' = req, plan' = plan
  PROVE  /\ H \subseteq J /\ J \subseteq Full(Tiers) /\ starts'[k] = Cardinality(J)
         /\ faults' = 0 /\ k \in Foreseen(req) /\ H \subseteq Least(Tiers, req) => J \subseteq Least(Tiers, req)
         /\ \A h \in J : h \notin H =>
              \A q \in DOMAIN coord' : \A j \in DOMAIN coord'[q].children :
                Has(coord'[q].children[j], k) /\ coord'[q].children[j].kind # "here" /\ Above(h, q) =>
                  Reached(h, q, coord'[q].cells[j])
<1>1. CASE J = H /\ starts'[k] = starts[k]
  BY <1>1
<1>2. CASE \E h \in Full(Tiers) :
             /\ h \notin H /\ J = H \cup {h} /\ starts'[k] = starts[k] + 1
             /\ \E o \in DOMAIN coord' : \E i \in DOMAIN coord'[o].children : RunsAt(h, k, o, i)'
             /\ faults' = 0 /\ k \in Foreseen(req) => h \in Least(Tiers, req)
  <2>1. PICK h \in Full(Tiers) :
             /\ h \notin H /\ J = H \cup {h} /\ starts'[k] = starts[k] + 1
             /\ \E o \in DOMAIN coord' : \E i \in DOMAIN coord'[o].children : RunsAt(h, k, o, i)'
             /\ faults' = 0 /\ k \in Foreseen(req) => h \in Least(Tiers, req)
    BY <1>2
  <2>2. PICK o \in DOMAIN coord' : \E i \in DOMAIN coord'[o].children : RunsAt(h, k, o, i)'
    BY <2>1
  <2>3. PICK i \in DOMAIN coord'[o].children : RunsAt(h, k, o, i)'
    BY <2>2
  <2>4. starts'[k] = Cardinality(J)
    BY <2>1, FullIs
  <2>5. \A q \in DOMAIN coord' : \A j \in DOMAIN coord'[q].children :
          Has(coord'[q].children[j], k) /\ coord'[q].children[j].kind # "here" /\ Above(h, q) =>
            Reached(h, q, coord'[q].cells[j])
    BY <2>3 DEF Bounded
  <2> QED
    BY <2>1, <2>4, <2>5
<1> QED
  BY <1>1, <1>2 DEF Grows

\* What is known of item k when the i-th call of p becomes x.
Follows(H, k, p, i, x) ==
  \E J : /\ Grows(H, J, k)
         /\ Has(coord[p].children[i], k) =>
              Tally(J, k, p, coord[p].children[i], x, Tiers, req, faults')
         /\ \A q \in DOMAIN coord' : q \notin DOMAIN coord =>
              \A j \in DOMAIN coord'[q].children :
                Has(coord'[q].children[j], k) =>
                  Tally(J, k, q, coord'[q].children[j], coord'[q].cells[j], Tiers, req, faults')

LEMMA FollowsCounted ==
  ASSUME NEW p \in DOMAIN coord, NEW i \in DOMAIN coord[p].children, NEW x, CallMoves(p, i, x),
         UNCHANGED <<req, plan, status>>, faults' = 0 => faults = 0, Tiers \in Nat, MaxRetries \in Nat, Bounded',
         NEW k, NEW H, Counted(H, k), Follows(H, k, p, i, x)
  PROVE  \E J : Counted(J, k)'
<1>0. Tiers' = Tiers
  BY DEF Tiers
<1>1. PICK J : /\ Grows(H, J, k)
               /\ Has(coord[p].children[i], k) =>
                    Tally(J, k, p, coord[p].children[i], x, Tiers, req, faults')
               /\ \A q \in DOMAIN coord' : q \notin DOMAIN coord =>
                    \A j \in DOMAIN coord'[q].children :
                      Has(coord'[q].children[j], k) =>
                        Tally(J, k, q, coord'[q].children[j], coord'[q].cells[j], Tiers, req, faults')
  BY DEF Follows
<1>2. /\ H \subseteq Full(Tiers) /\ starts[k] = Cardinality(H)
      /\ faults = 0 /\ k \in Foreseen(req) =>
           H \subseteq Least(Tiers, req) /\ (status = "done" => Least(Tiers, req) \subseteq H)
  BY DEF Counted
<1>3. /\ H \subseteq J /\ J \subseteq Full(Tiers) /\ starts'[k] = Cardinality(J)
      /\ faults' = 0 /\ k \in Foreseen(req) /\ H \subseteq Least(Tiers, req) => J \subseteq Least(Tiers, req)
  BY <1>1, <1>2, GrowsIs
<1>4. \A h \in J : h \notin H =>
        \A q \in DOMAIN coord' : \A j \in DOMAIN coord'[q].children :
          Has(coord'[q].children[j], k) /\ coord'[q].children[j].kind # "here" /\ Above(h, q) =>
            Reached(h, q, coord'[q].cells[j])
  BY <1>1, <1>2, GrowsIs
<1>5. ASSUME NEW q \in DOMAIN coord', NEW j \in DOMAIN coord'[q].children, Has(coord'[q].children[j], k)
      PROVE  Tally(J, k, q, coord'[q].children[j], coord'[q].cells[j], Tiers, req, faults')
  <2>1. CASE q \notin DOMAIN coord
    BY <1>1, <1>5, <2>1
  <2>2. CASE q = p /\ j = i
    <3>1. coord'[q].children[j] = coord[p].children[i] /\ coord'[q].cells[j] = x
      BY <2>2 DEF CallMoves, SetsCell
    <3> QED
      BY <1>1, <1>5, <2>2, <3>1
  <2>3. CASE q \in DOMAIN coord /\ (q # p \/ j # i)
    <3>1. coord'[q].children = coord[q].children /\ coord'[q].cells[j] = coord[q].cells[j]
      BY <2>3 DEF CallMoves, SetsCell
    <3>2. PICK c, cell : c = coord[q].children[j] /\ cell = coord[q].cells[j]
      OBVIOUS
    <3>3. c = coord'[q].children[j] /\ cell = coord'[q].cells[j] /\ Has(c, k)
      BY <1>5, <3>1, <3>2
    <3>4. Tally(H, k, q, c, cell, Tiers, req, faults)
      BY <2>3, <1>5, <3>1, <3>2 DEF Counted
    <3>5. \A h \in J : h \notin H /\ Above(h, q) /\ c.kind # "here" => Reached(h, q, cell)
      BY <1>4, <1>5, <3>3
    <3>6. Tally(J, k, q, c, cell, Tiers, req, faults')
      BY <1>3, <3>4, <3>5, TallyGrows
    <3> QED
      BY <3>3, <3>6
  <2> QED
    BY <2>1, <2>2, <2>3
<1>6. faults' = 0 /\ k \in Foreseen(req) =>
        J \subseteq Least(Tiers, req) /\ (status = "done" => Least(Tiers, req) \subseteq J)
  BY <1>2, <1>3
<1>7. Counted(J, k)'
  BY <1>0, <1>3, <1>5, <1>6 DEF Counted
<1> QED
  BY <1>7

LEMMA StepCounts ==
  ASSUME Inv, Count, Inv', NEW p \in DOMAIN coord, NEW i \in DOMAIN coord[p].children, NEW x, CallMoves(p, i, x),
         UNCHANGED <<req, plan, status>>, faults' \in 0 .. req.maxFaults, faults' = 0 => faults = 0,
         starts' \in [Items -> Nat], Lineage', Calm',
         \A k \in Items : \A H : Counted(H, k) => Follows(H, k, p, i, x)
  PROVE  Count'
<1>1. MaxRetries \in Nat
  BY TreeAssumption
<1>2. Bounded'
  <2>1. (Inv /\ Lineage)'
    OBVIOUS
  <2>2. (Inv /\ Lineage => Bounded)'
    BY StartsBounded, PTL
  <2> QED
    BY <2>1, <2>2
<1>3. Tiers \in Nat /\ status \in {"running", "done"}
  BY DEF Count
<1>4. ASSUME NEW k \in Items PROVE \E J : Counted(J, k)'
  <2>1. PICK H : Counted(H, k)
    BY <1>3 DEF Count
  <2> QED
    BY <1>1, <1>2, <1>3, <2>1, FollowsCounted
<1>5. /\ Tiers' = Tiers /\ Items' = Items
  BY DEF Tiers, Items
<1>6. IF status' \in {"running", "done"} THEN \A k \in Items' : \E H : Counted(H, k)'
      ELSE DOMAIN coord' = {} /\ starts' = [k \in Items' |-> 0]
  BY <1>3, <1>4, <1>5
<1>7. /\ plan'.topology \in {"none", "in-do", "hybrid", "tree"} /\ Tiers' \in Nat
      /\ faults' \in 0 .. req'.maxFaults /\ starts' \in [Items' -> Nat]
  BY <1>5 DEF Count
<1> QED
  BY <1>6, <1>7 DEF Count

\* Nobody above a coordinator changes the children it has.
LEMMA LineageKept ==
  ASSUME Lineage, UNCHANGED <<req, plan>>, NEW p \in DOMAIN coord, NEW i \in DOMAIN coord[p].children, NEW x,
         CallMoves(p, i, x),
         \A q \in DOMAIN coord' : q \notin DOMAIN coord => \E chain : Chain(chain, q, coord'[q].children)
  PROVE  Lineage'
<1>1. ASSUME NEW q \in DOMAIN coord' PROVE \E chain : Chain(chain, q, coord'[q].children)
  <2>1. CASE q \notin DOMAIN coord
    BY <2>1
  <2>2. CASE q \in DOMAIN coord
    <3>1. coord'[q].children = coord[q].children
      BY <2>2 DEF CallMoves, SetsCell
    <3> QED
      BY <2>2, <3>1 DEF Lineage
  <2> QED
    BY <2>1, <2>2
<1>2. ASSUME NEW q \in DOMAIN coord' PROVE (\E chain : Chain(chain, q, coord[q].children))'
  <2>1. PICK kids : kids = coord'[q].children
    OBVIOUS
  <2>2. PICK chain : Chain(chain, q, kids)
    BY <1>1, <2>1
  <2>3. Chain(chain, q, kids)'
    BY <2>2, ChainKept
  <2> QED
    BY <2>1, <2>3
<1> QED
  BY <1>2 DEF Lineage

LEMMA CalmKept ==
  ASSUME Calm, req' = req, faults' = 0 => faults = 0,
         NEW p \in DOMAIN coord, NEW i \in DOMAIN coord[p].children, NEW x, CallMoves(p, i, x),
         faults' = 0 /\ req.lookalike \cap Items = {} =>
           /\ x.attempt = 0 /\ x.phase # "backoff"
           /\ \A q \in DOMAIN coord' : q \notin DOMAIN coord =>
                /\ \A n \in 1 .. Len(q) : q[n][2] = 0
                /\ \A j \in DOMAIN coord'[q].children :
                     coord'[q].cells[j].attempt = 0 /\ coord'[q].cells[j].phase # "backoff"
  PROVE  Calm'
<1>1. SUFFICES ASSUME faults' = 0, req.lookalike \cap Items = {}, NEW q \in DOMAIN coord'
               PROVE  /\ \A n \in 1 .. Len(q) : q[n][2] = 0
                      /\ \A j \in DOMAIN coord'[q].children :
                           coord'[q].cells[j].attempt = 0 /\ coord'[q].cells[j].phase # "backoff"
  BY DEF Calm, Items
<1>2. CASE q \notin DOMAIN coord
  BY <1>1, <1>2
<1>3. CASE q \in DOMAIN coord
  <2>1. /\ \A n \in 1 .. Len(q) : q[n][2] = 0
        /\ \A j \in DOMAIN coord[q].children :
             coord[q].cells[j].attempt = 0 /\ coord[q].cells[j].phase # "backoff"
    BY <1>1, <1>3 DEF Calm
  <2>2. ASSUME NEW j \in DOMAIN coord'[q].children
        PROVE  coord'[q].cells[j].attempt = 0 /\ coord'[q].cells[j].phase # "backoff"
    <3>1. CASE q = p /\ j = i
      <4>1. coord'[q].cells[j] = x
        BY <3>1 DEF CallMoves, SetsCell
      <4> QED
        BY <1>1, <4>1
    <3>2. CASE q # p \/ j # i
      <4>1. coord'[q].children = coord[q].children /\ coord'[q].cells[j] = coord[q].cells[j]
        BY <1>3, <2>2, <3>2 DEF CallMoves, SetsCell
      <4> QED
        BY <2>1, <2>2, <4>1
    <3> QED
      BY <3>1, <3>2
  <2> QED
    BY <2>1, <2>2
<1> QED
  BY <1>2, <1>3

\* The items a call is sent are items of the request.
LEMMA ChildItems ==
  ASSUME Inv, Lineage, NEW p \in DOMAIN coord, NEW i \in DOMAIN coord[p].children
  PROVE  \A k : Has(coord[p].children[i], k) => k \in 1 .. req.size
<1>0. PICK m \in Nat : m = Len(p)
  BY LenProperties DEF Inv, TreeSound, Paths
<1>1. PICK chain : Chain(chain, p, coord[p].children)
  BY DEF Lineage
<1>2. coord[p].children = chain[m + 1] /\ m + 1 \in 1 .. m + 1
  BY <1>0, <1>1 DEF Chain
<1>3. PICK lo \in Nat, x \in Nat : Tile(coord[p].children, lo, x) /\ lo + x <= req.size
  BY <1>0, <1>1, <1>2 DEF Chain
<1>4. \A k : Has(coord[p].children[i], k) => k \in lo + 1 .. lo + x
  BY <1>3, TileGives
<1>5. PICK r \in Nat : r = req.size
  BY RequestTypes DEF Inv
<1>6. \A k \in lo + 1 .. lo + x : k \in 1 .. r
  BY <1>3, <1>5
<1> QED
  BY <1>4, <1>5, <1>6

\* As long as nothing is reset, a slice with an item whose result looks like a
\* reset is run again to the last, and no other slice is.
LEMMA ForeseenDecides ==
  ASSUME NEW c, SoundChild(c), NEW cell \in Cells, NEW r, NEW results, Answers(results, c.items, r, 0),
         \A k : Has(c, k) => k \in 1 .. r.size, MaxRetries \in Nat,
         r.lookalike \cap (1 .. r.size) = {} => cell.attempt = 0
  PROVE  /\ \A k \in Foreseen(r) : Has(c, k) /\ c.kind # "here" /\ Decided(c, cell, results).phase = "done" =>
              cell.attempt = LastAttempt(r)
         /\ r.lookalike \cap (1 .. r.size) = {} => Decided(c, cell, results).phase # "backoff"
<1>1. PICK n \in Nat : n = Len(c.items) /\ DOMAIN c.items = 1 .. n
  BY LenProperties DEF SoundChild
<1>2. DOMAIN results = 1 .. n
  BY <1>1, LenProperties DEF Answers
<1>3. \A m \in 1 .. n : results[m].out = "transient" <=> c.items[m] \in r.lookalike
  BY <1>1 DEF Answers, Right
<1>4. \A m \in 1 .. n : Has(c, c.items[m])
  BY <1>1, HasIs DEF Range
<1>5. \A k : Has(c, k) => \E m \in 1 .. n : c.items[m] = k
  BY <1>1, HasIs DEF Range
<1>6. HasTransient(results) <=> \E m \in 1 .. n : c.items[m] \in r.lookalike
  BY <1>2, <1>3 DEF HasTransient
<1>7. cell.attempt \in Nat /\ cell.attempt <= MaxRetries
  BY DEF Cells
<1>8. CASE r.lookalike \cap (1 .. r.size) = {}
  <2>1. ~ HasTransient(results)
    BY <1>4, <1>6, <1>8
  <2>2. Decided(c, cell, results) = [cell EXCEPT !.phase = "done", !.got = results]
    BY <2>1 DEF Decided
  <2>3. PICK x \in Cells : x = cell
    OBVIOUS
  <2>4. [x EXCEPT !.phase = "done", !.got = results].phase = "done"
    BY DEF Cells
  <2>5. cell.attempt = LastAttempt(r)
    BY <1>8 DEF LastAttempt
  <2> QED
    BY <2>2, <2>3, <2>4, <2>5
<1>9. CASE r.lookalike \cap (1 .. r.size) # {}
  <2>1. ASSUME NEW k \in Foreseen(r), Has(c, k), c.kind # "here", Decided(c, cell, results).phase = "done"
        PROVE  cell.attempt = LastAttempt(r)
    <3>1. k \in r.lookalike /\ LastAttempt(r) = MaxRetries
      BY <1>9, <2>1 DEF Foreseen, LastAttempt
    <3>2. HasTransient(results)
      BY <1>5, <1>6, <2>1, <3>1
    <3>3. cell.attempt < MaxRetries => Decided(c, cell, results) = [cell EXCEPT !.phase = "backoff"]
      BY <2>1, <3>2 DEF Decided
    <3>4. PICK x \in Cells : x = cell
      OBVIOUS
    <3>5. [x EXCEPT !.phase = "backoff"].phase = "backoff"
      BY DEF Cells
    <3>6. ~ (cell.attempt < MaxRetries)
      BY <2>1, <3>3, <3>4, <3>5
    <3> QED
      BY <1>7, <3>1, <3>6
  <2> QED
    BY <1>9, <2>1
<1> QED
  BY <1>8, <1>9

\* A call that is answered starts nothing.
LEMMA AnsweredCounts ==
  ASSUME Inv, Count, Inv', NEW p \in DOMAIN coord, NEW i \in DOMAIN coord[p].cells, NEW results, NEW x,
         x = Decided(coord[p].children[i], coord[p].cells[i], results),
         Answers(results, coord[p].children[i].items, req, faults'),
         UNCHANGED <<req, plan, status, starts>>, faults' \in 0 .. req.maxFaults, faults' = 0 => faults = 0,
         CallMoves(p, i, x), DOMAIN coord' \subseteq DOMAIN coord,
         faults' = 0 /\ coord[p].children[i].kind = "sub" =>
           \A H : \A k \in Foreseen(req) : Counted(H, k) /\ Has(coord[p].children[i], k) =>
             \A h \in Least(Tiers, req) :
               Above(h, p) /\ h[Len(p) + 1] = coord[p].cells[i].attempt => h \in H
  PROVE  Count'
<1>1. /\ p \in Paths /\ i \in DOMAIN coord[p].children /\ SoundChild(coord[p].children[i])
      /\ coord[p].cells[i] \in Cells /\ MaxRetries \in Nat
  BY CallFacts
<1>2. PICK c, cell : c = coord[p].children[i] /\ cell = coord[p].cells[i]
  OBVIOUS
<1>3. x.attempt = cell.attempt /\ x.phase \in {"backoff", "done"}
  <2>1. PICK f, r : f = faults' /\ r = req
    OBVIOUS
  <2>2. Answers(results, c.items, r, f) /\ cell \in Cells
    BY <1>1, <1>2, <2>1
  <2>3. /\ Decided(c, cell, results).attempt = cell.attempt
        /\ Decided(c, cell, results).phase \in {"backoff", "done"}
    BY <2>2, DecidedSound
  <2> QED
    BY <1>2, <2>3
<1>4. \A k : Has(c, k) => k \in 1 .. req.size
  BY <1>1, <1>2, ChildItems DEF Count
<1>5. faults' = 0 /\ req.lookalike \cap (1 .. req.size) = {} => cell.attempt = 0
  BY <1>1, <1>2 DEF Count, Calm, Items
<1>6. ASSUME faults' = 0
      PROVE  /\ \A k \in Foreseen(req) : Has(c, k) /\ c.kind # "here" /\ x.phase = "done" =>
                  cell.attempt = LastAttempt(req)
             /\ req.lookalike \cap (1 .. req.size) = {} => x.phase # "backoff"
  <2>1. Answers(results, c.items, req, 0)
    BY <1>2, <1>6
  <2>2. x = Decided(c, cell, results)
    BY <1>2
  <2> QED
    BY <1>1, <1>2, <1>4, <1>5, <1>6, <2>1, <2>2, ForeseenDecides
<1>7. Lineage'
  BY <1>1, LineageKept DEF Count
<1>8. Calm'
  <2>1. faults' = 0 /\ req.lookalike \cap Items = {} => x.attempt = 0 /\ x.phase # "backoff"
    BY <1>3, <1>5, <1>6 DEF Items
  <2>2. Calm /\ req' = req /\ \A q \in DOMAIN coord' : q \in DOMAIN coord
    BY DEF Count
  <2> QED
    BY <1>1, <2>1, <2>2, CalmKept
<1>9. c.kind = "here" => x.phase = "done"
  <2>1. c.kind = "here" => Decided(c, cell, results) = [cell EXCEPT !.phase = "done", !.got = results]
    BY DEF Decided
  <2>2. PICK y \in Cells : y = cell
    BY <1>1, <1>2
  <2>3. [y EXCEPT !.phase = "done", !.got = results].phase = "done"
    BY DEF Cells
  <2> QED
    BY <1>2, <2>1, <2>2, <2>3
<1>10. ASSUME NEW k \in Items, NEW H, Counted(H, k) PROVE Follows(H, k, p, i, x)
  <2>1. Grows(H, H, k)
    BY DEF Grows
  <2>2. ASSUME Has(c, k) PROVE Tally(H, k, p, c, x, Tiers, req, faults')
    <3>1. Tally(H, k, p, c, cell, Tiers, req, faults)
      BY <1>1, <1>2, <1>10, <2>2 DEF Counted
    <3>2. c.kind = "here" => H = Full(Tiers) /\ x.phase # "backoff"
      BY <1>9, <3>1 DEF Tally
    <3>3. c.kind # "here" => \A h \in H : Above(h, p) => Reached(h, p, x)
      BY <1>3, <3>1 DEF Tally, Reached
    <3>4. ASSUME faults' = 0, k \in Foreseen(req)
          PROVE  /\ \A h \in Least(Tiers, req) : Above(h, p) /\ (c.kind # "here" => Ended(h, p, c, x)) => h \in H
                 /\ c.kind # "here" /\ x.phase = "done" => x.attempt = LastAttempt(req)
      <4>1. ASSUME NEW h \in Least(Tiers, req), Above(h, p), c.kind # "here" => Ended(h, p, c, x) PROVE h \in H
        <5>1. CASE c.kind = "sub" /\ h[Len(p) + 1] = cell.attempt
          BY <1>2, <1>10, <2>2, <3>4, <4>1, <5>1
        <5>2. CASE c.kind # "sub" \/ h[Len(p) + 1] # cell.attempt
          <6>1. c.kind # "here" => Ended(h, p, c, cell)
            BY <1>3, <4>1, <5>2 DEF Ended
          <6> QED
            BY <3>1, <3>4, <4>1, <6>1 DEF Tally
        <5> QED
          BY <5>1, <5>2
      <4> QED
        BY <1>3, <1>6, <2>2, <3>4, <4>1
    <3> QED
      BY <3>2, <3>3, <3>4 DEF Tally
  <2>3. \A q \in DOMAIN coord' : q \in DOMAIN coord
    OBVIOUS
  <2> QED
    BY <1>2, <2>1, <2>2, <2>3 DEF Follows
<1>11. UNCHANGED <<req, plan, status>> /\ starts' \in [Items -> Nat]
  BY DEF Count
<1> QED
  BY <1>1, <1>7, <1>8, <1>10, <1>11, StepCounts

LEMMA BatchCounts ==
  ASSUME Inv, Count, Inv', NEW p \in DOMAIN coord, NEW i \in DOMAIN coord[p].cells, NEW results,
         Answered(p, i, results), coord[p].children[i].kind = "sub" => faults' # 0
  PROVE  Count'
<1>1. /\ i \in DOMAIN coord[p].children /\ NodeSound(coord[p], req, faults) /\ coord[p].cells[i] \in Cells
  BY CallFacts
<1>2. /\ coord' = [coord EXCEPT ![p].cells[i] = Decided(coord[p].children[i], coord[p].cells[i], results)]
      /\ Answers(results, coord[p].children[i].items, req, faults')
      /\ UNCHANGED <<req, plan, status, starts>> /\ faults' \in 0 .. req.maxFaults /\ (faults' = 0 => faults = 0)
  BY DEF Answered
<1>3. PICK x : x = Decided(coord[p].children[i], coord[p].cells[i], results)
  OBVIOUS
<1>4. CellSound(x, coord[p].children[i], req, faults') /\ x.attempt = coord[p].cells[i].attempt /\ x.phase \in {"backoff", "done"}
  BY <1>1, <1>2, <1>3, DecidedSound
<1>5. coord' = [coord EXCEPT ![p].cells[i] = x]
  BY <1>2, <1>3
<1>6. CallMoves(p, i, x) /\ DOMAIN coord' = DOMAIN coord
  BY <1>1, <1>4, <1>5, StaysMoves
<1> QED
  BY <1>2, <1>3, <1>6, AnsweredCounts

LEMMA LeastIs ==
  ASSUME MaxRetries \in Nat, NEW T, NEW r
  PROVE  /\ Least(T, r) \subseteq Full(T) /\ LastAttempt(r) \in Nat /\ LastAttempt(r) <= MaxRetries
         /\ \A h \in Least(T, r) : \A n \in 1 .. T : h[n] \in Nat /\ h[n] <= LastAttempt(r)
<1>1. LastAttempt(r) \in Nat /\ LastAttempt(r) <= MaxRetries
  BY DEF LastAttempt
<1>2. PICK l \in Nat : l = LastAttempt(r) /\ l <= MaxRetries
  BY <1>1
<1>3. 0 .. l \subseteq 0 .. MaxRetries
  BY <1>2
<1>4. Least(T, r) = [1 .. T -> 0 .. l]
  BY <1>2 DEF Least
<1>5. Least(T, r) \subseteq Full(T)
  BY <1>3, <1>4 DEF Full
<1>6. \A h \in Least(T, r) : \A n \in 1 .. T : h[n] \in Nat /\ h[n] <= l
  BY <1>4
<1> QED
  BY <1>2, <1>5, <1>6

\* What the place of a child says about the tiers.
LEMMA TiersBelow ==
  ASSUME Inv, NEW p \in Paths, NEW chain, NEW kids, Chain(chain, p, kids), NEW i \in DOMAIN kids,
         SoundChild(kids[i]), kids[i].kind # "here"
  PROVE  /\ Len(p) + 1 \in 1 .. Tiers /\ Tiers \in Nat
         /\ kids[i].kind = "leaf" => Tiers = Len(p) + 1
<1>1. PICK m \in Nat : m = Len(p)
  BY LenProperties DEF Paths
<1>2. Stage(kids[i], m + 1)
  BY <1>1 DEF Chain
<1>3. CASE kids[i].kind = "leaf"
  BY <1>1, <1>2, <1>3 DEF Stage
<1>4. CASE kids[i].kind = "sub"
  <2>1. PICK d \in Nat : d = kids[i].depth
    BY <1>4 DEF SoundChild
  <2>2. Tiers = (m + 1) + (IF d <= 1 THEN 1 ELSE d)
    BY <1>2, <1>4, <2>1 DEF Stage
  <2>3. Tiers \in Nat /\ m + 1 <= Tiers
    BY <2>2
  <2> QED
    BY <1>1, <1>4, <2>3
<1> QED
  BY <1>3, <1>4 DEF SoundChild

\* A coordinator that has all its answers has run every item of its slice in all
\* the combinations below it.
LEMMA AllDoneCovers ==
  ASSUME Inv, Lineage, NEW o \in DOMAIN coord, AllDone(o), faults = 0,
         NEW lo \in Nat, NEW n \in Nat, Tile(coord[o].children, lo, n),
         NEW k \in lo + 1 .. lo + n, k \in Foreseen(req), NEW H, Counted(H, k)
  PROVE  \A h \in Least(Tiers, req) : Above(h, o) => h \in H
<1>1. PICK j \in DOMAIN coord[o].children : Has(coord[o].children[j], k)
  BY TileGives
<1>2. PICK c, cell : c = coord[o].children[j] /\ cell = coord[o].cells[j]
  OBVIOUS
<1>3. Tally(H, k, o, c, cell, Tiers, req, faults)
  BY <1>1, <1>2 DEF Counted
<1>4. o \in Paths /\ NodeSound(coord[o], req, faults) /\ MaxRetries \in Nat
  BY TreeAssumption DEF Inv, TreeSound
<1>5. SoundChild(c) /\ cell.phase = "done"
  BY <1>1, <1>2, <1>4, NodeTypes DEF AllDone
<1>6. ASSUME NEW h \in Least(Tiers, req), Above(h, o), c.kind # "here" PROVE Ended(h, o, c, cell)
  <2>1. cell.attempt = LastAttempt(req)
    BY <1>3, <1>5, <1>6 DEF Tally
  <2>2. PICK chain : Chain(chain, o, coord[o].children)
    BY DEF Lineage
  <2>3. Len(o) + 1 \in 1 .. Tiers
    BY <1>1, <1>2, <1>4, <1>5, <1>6, <2>2, TiersBelow
  <2>4. h[Len(o) + 1] <= LastAttempt(req)
    BY <1>4, <2>3, LeastIs
  <2> QED
    BY <1>5, <2>1, <2>4 DEF Ended
<1> QED
  BY <1>3, <1>6 DEF Tally

LEMMA SubReturnsCounts ==
  ASSUME Inv, Count, Inv', NEW p \in DOMAIN coord, NEW i \in DOMAIN coord[p].cells, SubReturns(p, i)
  PROVE  Count'
<1>1. /\ p \in Paths /\ i \in Nat /\ coord[p].cells[i].attempt \in Nat /\ SoundChild(coord[p].children[i])
      /\ i \in DOMAIN coord[p].children /\ faults \in Nat
  BY CallFacts
<1>0. PICK a \in Nat : a = coord[p].cells[i].attempt
  BY <1>1
<1>2. PICK c, results, x :
        /\ c = coord[p].children[i] /\ results = Merged(Callee(p, i))
        /\ x = Decided(c, coord[p].cells[i], results)
  OBVIOUS
<1>3. /\ c.kind = "sub" /\ Callee(p, i) \in DOMAIN coord /\ DOMAIN coord' = DOMAIN coord \ {Callee(p, i)}
      /\ AllDone(Callee(p, i)) /\ Tile(coord[Callee(p, i)].children, c.base, Len(c.items))
      /\ Answers(results, c.items, req, faults') /\ CallMoves(p, i, x)
      /\ UNCHANGED <<req, plan, status, starts, faults, result>>
  BY <1>2, SubReturnsMoves
<1>4. PICK o : o = Path(p, i, a) /\ o = Callee(p, i)
  BY <1>0 DEF Callee
<1>5. /\ Len(p) \in Nat /\ Len(o) = Len(p) + 1 /\ (\A n \in 1 .. Len(p) : o[n] = p[n]) /\ o[Len(p) + 1] = <<i, a>>
  <2>1. Len(p) \in Nat /\ Len(Path(p, i, a)) = Len(p) + 1
    BY <1>1, PathIs
  <2>2. \A n \in 1 .. Len(p) : Path(p, i, a)[n] = p[n]
    BY <1>1, PathIs
  <2>3. Path(p, i, a)[Len(p) + 1] = <<i, a>>
    BY <1>1, PathIs
  <2> QED
    BY <1>4, <2>1, <2>2, <2>3
<1>6. ASSUME faults' = 0, NEW H, NEW k \in Foreseen(req), Counted(H, k), Has(c, k),
             NEW h \in Least(Tiers, req), Above(h, p), h[Len(p) + 1] = a
      PROVE  h \in H
  <2>1. PICK lo \in Nat, n \in Nat : lo = c.base /\ n = Len(c.items)
    BY <1>1, <1>2, LenProperties DEF SoundChild
  <2>2. k \in lo + 1 .. lo + n /\ Tile(coord[o].children, lo, n) /\ o \in DOMAIN coord /\ AllDone(o) /\ faults = 0
    BY <1>3, <1>4, <1>6, <2>1 DEF Has
  <2>3. \A g \in Least(Tiers, req) : Above(g, o) => g \in H
    BY <1>6, <2>1, <2>2, AllDoneCovers DEF Count
  <2>4. Above(h, o)
    <3>1. \A n2 \in 1 .. Len(p) + 1 : n2 \in 1 .. Len(p) \/ n2 = Len(p) + 1
      BY <1>5
    <3> QED
      BY <1>5, <1>6, <3>1 DEF Above
  <2> QED
    BY <1>6, <2>3, <2>4
<1>7. faults' = 0 /\ coord[p].children[i].kind = "sub" =>
        \A H : \A k \in Foreseen(req) : Counted(H, k) /\ Has(coord[p].children[i], k) =>
          \A h \in Least(Tiers, req) :
            Above(h, p) /\ h[Len(p) + 1] = coord[p].cells[i].attempt => h \in H
  BY <1>0, <1>2, <1>6
<1>8. UNCHANGED <<req, plan, status, starts>> /\ faults' \in 0 .. req.maxFaults /\ (faults' = 0 => faults = 0)
  BY <1>3 DEF Count
<1>9. /\ x = Decided(coord[p].children[i], coord[p].cells[i], results)
      /\ Answers(results, coord[p].children[i].items, req, faults')
      /\ DOMAIN coord' \subseteq DOMAIN coord
  BY <1>2, <1>3
<1> QED
  BY <1>3, <1>7, <1>8, <1>9, AnsweredCounts

\* h is the one combination that ends with attempt a below the coordinator o.
EndsWith(h, o, a, T) ==
  /\ Above(h, o) /\ h[Len(o) + 1] = a
  /\ \A g \in Full(T) : Above(g, o) /\ g[Len(o) + 1] = a => g = h
  /\ a = 0 /\ (\A n \in 1 .. Len(o) : o[n][2] = 0) => h \in [1 .. T -> 0 .. 0]

LEMMA OneMore ==
  ASSUME NEW o \in Paths, \A n \in 1 .. Len(o) : o[n][2] <= MaxRetries, MaxRetries \in Nat,
         NEW a \in Nat, a <= MaxRetries, NEW T \in Nat, T = Len(o) + 1
  PROVE  \E h \in Full(T) : EndsWith(h, o, a, T)
<1>1. PICK m \in Nat : m = Len(o)
  BY LenProperties DEF Paths
<1>2. PICK M \in Nat : M = MaxRetries
  OBVIOUS
<1>3. \A n \in 1 .. m : o[n][2] \in 0 .. M
  <2>1. \A n \in 1 .. m : o[n] \in Nat \X Nat
    BY <1>1, ElementOfSeq DEF Paths
  <2> QED
    BY <1>1, <1>2, <2>1
<1>4. PICK h : h = [n \in 1 .. T |-> IF n = m + 1 THEN a ELSE o[n][2]]
  OBVIOUS
<1>5. (\A n \in 1 .. T : n \in 1 .. m \/ n = m + 1) /\ m + 1 \in 1 .. T /\ \A n \in 1 .. m : n \in 1 .. T /\ n # m + 1
  BY <1>1
<1>6. h \in Full(T)
  <2>1. \A n \in 1 .. T : (IF n = m + 1 THEN a ELSE o[n][2]) \in 0 .. M
    BY <1>2, <1>3, <1>5
  <2> QED
    BY <1>2, <1>4, <2>1 DEF Full
<1>7. Above(h, o) /\ h[m + 1] = a
  BY <1>1, <1>4, <1>5 DEF Above
<1>8. ASSUME NEW g \in Full(T), Above(g, o), g[m + 1] = a PROVE g = h
  <2>1. \A n \in 1 .. T : g[n] = h[n]
    BY <1>1, <1>4, <1>5, <1>8 DEF Above
  <2>2. g = [n \in 1 .. T |-> g[n]] /\ h = [n \in 1 .. T |-> h[n]]
    BY <1>6 DEF Full
  <2> QED
    BY <2>1, <2>2
<1>9. ASSUME a = 0, \A n \in 1 .. m : o[n][2] = 0 PROVE h \in [1 .. T -> 0 .. 0]
  <2>1. \A n \in 1 .. T : (IF n = m + 1 THEN a ELSE o[n][2]) \in 0 .. 0
    BY <1>5, <1>9
  <2> QED
    BY <1>4, <2>1
<1> QED
  BY <1>1, <1>6, <1>7, <1>8, <1>9 DEF EndsWith

\* A call of a slice that has an item is on its way or started.
LEMMA CellOpens ==
  ASSUME NEW c, SoundChild(c), NEW k, Has(c, k), NEW a
  PROVE  /\ Cell(c, a).attempt = a
         /\ Cell(c, a).phase = IF c.kind = "sub" THEN "sent" ELSE "out"
<1>1. c.items # <<>>
  <2>1. PICK b \in Nat, n \in Nat : b = c.base /\ n = Len(c.items)
    BY LenProperties DEF SoundChild
  <2>2. k \in b + 1 .. b + n
    BY <2>1 DEF Has
  <2>3. n # 0
    BY <2>2
  <2> QED
    BY <2>1, <2>3
<1> QED
  BY <1>1 DEF Cell

LEMMA StartedIs ==
  ASSUME NEW children, \A j \in DOMAIN children : SoundChild(children[j])
  PROVE  \A k : k \in StartedBy(children) <=> \E j \in DOMAIN children : children[j].kind # "sub" /\ Has(children[j], k)
<1>1. \A j \in DOMAIN children : \A k : Has(children[j], k) <=> k \in Range(children[j].items)
  BY HasIs
<1> QED
  BY <1>1 DEF StartedBy

\* The slice is run again.
LEMMA AgainCounts ==
  ASSUME Inv, Count, Inv', NEW p \in DOMAIN coord, NEW i \in DOMAIN coord[p].cells, Again(p, i)
  PROVE  Count'
<1>1. /\ p \in Paths /\ i \in Nat /\ i \in DOMAIN coord[p].children /\ SoundChild(coord[p].children[i])
      /\ coord[p].cells[i].attempt \in Nat /\ MaxRetries \in Nat
  BY CallFacts
<1>2. PICK a \in Nat : a = coord[p].cells[i].attempt
  BY <1>1
<1>3. PICK c, cell, x : c = coord[p].children[i] /\ cell = coord[p].cells[i] /\ x = Cell(c, a + 1)
  OBVIOUS
<1>4. /\ CallMoves(p, i, x) /\ DOMAIN coord' = DOMAIN coord /\ UNCHANGED <<req, plan, status, faults, result>>
      /\ x.attempt = a + 1 /\ a + 1 <= MaxRetries
  BY <1>2, <1>3, AgainMoves
<1>5. cell.phase = "backoff" /\ starts' = StartOf(StartedBy(<<c>>))
  BY <1>3 DEF Again
<1>6. \A k : k \in StartedBy(<<c>>) <=> c.kind # "sub" /\ Has(c, k)
  <2>1. DOMAIN <<c>> = {1} /\ <<c>>[1] = c
    OBVIOUS
  <2>2. PICK s : s = <<c>>
    OBVIOUS
  <2>3. DOMAIN s = {1} /\ s[1] = c /\ \A j \in DOMAIN s : SoundChild(s[j])
    BY <1>1, <1>3, <2>1, <2>2
  <2>4. \A k : k \in StartedBy(s) <=> \E j \in DOMAIN s : s[j].kind # "sub" /\ Has(s[j], k)
    BY <2>3, StartedIs
  <2> QED
    BY <2>2, <2>3, <2>4
<1>7. ~ (faults = 0 /\ req.lookalike \cap Items = {})
  BY <1>1, <1>3, <1>5 DEF Count, Calm
<1>8. PICK chain : Chain(chain, p, coord[p].children)
  BY DEF Count, Lineage
<1>9. Tiers \in Nat /\ \A n \in 1 .. Len(p) : p[n][2] <= MaxRetries
  BY <1>8 DEF Count, Chain
<1>10. \A k \in Items : starts[k] \in Nat /\ starts'[k] = starts[k] + (IF c.kind # "sub" /\ Has(c, k) THEN 1 ELSE 0)
  BY <1>5, <1>6 DEF StartOf, Count
<1>11. ASSUME NEW k \in Items, NEW H, Counted(H, k) PROVE Follows(H, k, p, i, x)
  <2>0. \A q \in DOMAIN coord' : q \in DOMAIN coord
    BY <1>4
  <2>1. CASE ~ Has(c, k)
    <3>1. Grows(H, H, k)
      BY <1>10, <2>1 DEF Grows
    <3> QED
      BY <1>3, <2>0, <2>1, <3>1 DEF Follows
  <2>2. CASE Has(c, k)
    <3>1. Tally(H, k, p, c, cell, Tiers, req, faults) /\ H \subseteq Full(Tiers)
      BY <1>1, <1>3, <1>11, <2>2 DEF Counted
    <3>2. c.kind # "here"
      BY <1>5, <3>1 DEF Tally
    <3>3. x.phase = IF c.kind = "sub" THEN "sent" ELSE "out"
      BY <1>1, <1>3, <2>2, CellOpens
    <3>4. PICK m \in Nat : m = Len(p)
      BY <1>1, LenProperties DEF Paths
    <3>5. m + 1 \in 1 .. Tiers /\ (c.kind = "leaf" => Tiers = m + 1)
      BY <1>1, <1>3, <1>8, <3>2, <3>4, TiersBelow
    <3>6. \A g \in Full(Tiers) : g[m + 1] \in Nat
      BY <1>1, <3>5 DEF Full
    <3>7. \A g \in H : Above(g, p) => g[m + 1] <= a
      BY <1>2, <1>3, <3>1, <3>2, <3>4 DEF Tally, Reached
    <3>8. \A g \in Least(Tiers, req) : g[m + 1] \in Nat /\ g \in Full(Tiers)
      BY <1>1, <3>6, LeastIs
    <3>9. ASSUME faults' = 0, k \in Foreseen(req), NEW g \in Least(Tiers, req), Above(g, p), g[m + 1] <= a + 1, g[m + 1] # a + 1
          PROVE  g \in H
      <4>1. g[m + 1] <= a
        BY <3>8, <3>9
      <4>2. Ended(g, p, c, cell)
        BY <1>2, <1>3, <1>5, <3>4, <4>1 DEF Ended
      <4> QED
        BY <1>4, <3>1, <3>9, <4>2 DEF Tally
    <3>10. CASE c.kind = "sub"
      <4>1. Grows(H, H, k)
        BY <1>10, <3>10 DEF Grows
      <4>2. \A g \in H : Above(g, p) => Reached(g, p, x)
        <5>1. \A g \in H : Above(g, p) => g[m + 1] <= a /\ g[m + 1] \in Nat
          BY <3>1, <3>6, <3>7
        <5>2. \A z \in Nat : z <= a => z <= a + 1 /\ z < a + 1
          OBVIOUS
        <5> QED
          BY <1>4, <3>4, <5>1, <5>2 DEF Reached
      <4>3. ASSUME faults' = 0, k \in Foreseen(req), NEW g \in Least(Tiers, req), Above(g, p), Ended(g, p, c, x)
            PROVE  g \in H
        BY <1>4, <3>3, <3>4, <3>9, <3>10, <4>3 DEF Ended
      <4>4. Tally(H, k, p, c, x, Tiers, req, faults')
        BY <3>2, <3>3, <3>10, <4>2, <4>3 DEF Tally
      <4> QED
        BY <1>3, <2>0, <4>1, <4>4 DEF Follows
    <3>11. CASE c.kind = "leaf"
      <4>1. PICK h \in Full(Tiers) :
              /\ Above(h, p) /\ h[m + 1] = a + 1
              /\ \A g \in Full(Tiers) : Above(g, p) /\ g[m + 1] = a + 1 => g = h
        <5>1. PICK b \in Nat, T \in Nat : b = a + 1 /\ T = Tiers
          BY <1>9
        <5>2. b <= MaxRetries /\ T = Len(p) + 1
          BY <1>4, <3>4, <3>5, <3>11, <5>1
        <5>3. \E h \in Full(T) : EndsWith(h, p, b, T)
          BY <1>1, <1>9, <5>2, OneMore
        <5> QED
          BY <3>4, <5>1, <5>3 DEF EndsWith
      <4>2. h \notin H
        <5>1. ~ (a + 1 <= a)
          OBVIOUS
        <5> QED
          BY <3>7, <4>1, <5>1
      <4>3. RunsAt(h, k, p, i)'
        <5>1. coord'[p].children[i] = c /\ coord'[p].cells[i] = x
          BY <1>1, <1>3, <1>4 DEF CallMoves, SetsCell
        <5> QED
          BY <1>4, <2>2, <3>4, <3>11, <4>1, <5>1 DEF RunsAt
      <4>4. p \in DOMAIN coord' /\ i \in DOMAIN coord'[p].children
        BY <1>1, <1>4 DEF CallMoves, SetsCell
      <4>5. faults' = 0 /\ k \in Foreseen(req) => h \in Least(Tiers, req)
        <5>1. faults' = 0 => req.lookalike \cap (1 .. req.size) # {}
          BY <1>4, <1>7 DEF Items
        <5> QED
          BY <4>1, <5>1 DEF Least, LastAttempt, Full
      <4>6. Grows(H, H \cup {h}, k)
        BY <1>10, <2>2, <3>11, <4>1, <4>2, <4>3, <4>4, <4>5 DEF Grows
      <4>7. \A g \in H \cup {h} : Above(g, p) => Reached(g, p, x)
        <5>1. \A g \in H \cup {h} : Above(g, p) => g[m + 1] \in Nat /\ (g[m + 1] <= a \/ g[m + 1] = a + 1)
          BY <3>1, <3>6, <3>7, <4>1
        <5>2. \A z \in Nat : z <= a \/ z = a + 1 => z <= a + 1
          OBVIOUS
        <5> QED
          BY <1>4, <3>3, <3>4, <3>11, <5>1, <5>2 DEF Reached
      <4>8. ASSUME faults' = 0, k \in Foreseen(req), NEW g \in Least(Tiers, req), Above(g, p), Ended(g, p, c, x)
            PROVE  g \in H \cup {h}
        <5>1. g[m + 1] <= a + 1
          BY <1>4, <3>4, <4>8 DEF Ended
        <5> QED
          BY <3>8, <3>9, <4>1, <4>8, <5>1
      <4>9. Tally(H \cup {h}, k, p, c, x, Tiers, req, faults')
        BY <3>2, <3>3, <3>11, <4>7, <4>8 DEF Tally
      <4> QED
        BY <1>3, <2>0, <4>6, <4>9 DEF Follows
    <3> QED
      BY <1>1, <1>3, <3>2, <3>10, <3>11 DEF SoundChild
  <2> QED
    BY <2>1, <2>2
<1>12. starts' \in [Items -> Nat]
  <2>1. \A k \in Items : starts[k] + (IF k \in StartedBy(<<c>>) THEN 1 ELSE 0) \in Nat
    BY <1>10
  <2> QED
    BY <1>5, <2>1 DEF StartOf
<1>13. Lineage'
  BY <1>1, <1>4, LineageKept DEF Count
<1>14. Calm'
  BY <1>1, <1>4, <1>7, CalmKept DEF Count
<1>15. faults' \in 0 .. req.maxFaults /\ (faults' = 0 => faults = 0) /\ UNCHANGED <<req, plan, status>>
  BY <1>4 DEF Count
<1> QED
  BY <1>1, <1>4, <1>11, <1>12, <1>13, <1>14, <1>15, StepCounts

\* A combination that goes on below a call is one of that call.
LEMMA AbovePath ==
  ASSUME NEW p \in Paths, NEW i \in Nat, NEW a \in Nat, NEW h
  PROVE  Above(h, Path(p, i, a)) <=> Above(h, p) /\ h[Len(p) + 1] = a
<1>1. PICK o : o = Path(p, i, a)
  OBVIOUS
<1>2. PICK m \in Nat : m = Len(p)
  BY LenProperties DEF Paths
<1>3. Len(o) = m + 1
  BY <1>1, <1>2, PathIs
<1>4. \A n \in 1 .. m : o[n] = p[n]
  <2>1. \A n \in 1 .. Len(p) : Path(p, i, a)[n] = p[n]
    BY PathIs
  <2> QED
    BY <1>1, <1>2, <2>1
<1>5. o[m + 1] = <<i, a>>
  <2>1. Path(p, i, a)[Len(p) + 1] = <<i, a>>
    BY PathIs
  <2> QED
    BY <1>1, <1>2, <2>1
<1>6. (\A n \in 1 .. m + 1 : n \in 1 .. m \/ n = m + 1) /\ m + 1 \in 1 .. m + 1 /\ \A n \in 1 .. m : n \in 1 .. m + 1
  OBVIOUS
<1>7. o[m + 1][2] = a
  BY <1>5
<1>8. Above(h, o) <=> Above(h, p) /\ h[m + 1] = a
  BY <1>2, <1>3, <1>4, <1>6, <1>7 DEF Above
<1> QED
  BY <1>1, <1>2, <1>8

\* The handler of a sub-coordinator starts: what it knows of item k.
LEMMA ArriveFollows ==
  ASSUME Inv, Count, NEW p \in DOMAIN coord, NEW i \in DOMAIN coord[p].children, p \in Paths, i \in Nat,
         NEW c, c = coord[p].children[i], SoundChild(c), c.kind = "sub", coord[p].cells[i].phase = "sent",
         NEW a \in Nat, a = coord[p].cells[i].attempt, a <= MaxRetries,
         NEW o, o = Path(p, i, a), NEW ch, ch = SubChildren(c), NEW chain, Chain(chain, o, ch),
         NEW x, x.phase = "out", x.attempt = a, o \in DOMAIN coord',
         DOMAIN coord' = DOMAIN coord \cup {o}, coord'[o] = Opened(ch),
         starts' = StartOf(StartedBy(ch)), UNCHANGED <<req, plan, faults>>,
         NEW k \in Items, NEW H, Counted(H, k)
  PROVE  Follows(H, k, p, i, x)
<1>1. PICK m \in Nat, l \in Nat : m = Len(p) /\ l = m + 1 /\ l = Len(o)
  <2>1. Len(p) \in Nat /\ Len(Path(p, i, a)) = Len(p) + 1
    BY PathIs
  <2> QED
    BY <2>1
<1>2. o \in Paths /\ MaxRetries \in Nat /\ req.branchingFactor \in 4 .. 16
  BY PathIs, TreeAssumption DEF Inv
<1>3. /\ Tile(ch, c.base, Len(c.items))
      /\ \A j \in DOMAIN ch : IF c.depth <= 1 THEN ch[j].kind = "leaf"
                              ELSE ch[j].kind = "sub" /\ ch[j].depth = c.depth - 1
  BY <1>2, SubTile
<1>4. PICK b \in Nat, s \in Nat : b = c.base /\ s = Len(c.items)
  BY LenProperties DEF SoundChild
<1>5. /\ \A j \in DOMAIN ch : \A g : Has(ch[j], g) => Has(c, g)
      /\ \A g : Has(c, g) => \E j \in DOMAIN ch : Has(ch[j], g)
  <2>1. Tile(ch, b, s)
    BY <1>3, <1>4
  <2>2. \A g : Has(c, g) <=> g \in b + 1 .. b + s
    BY <1>4 DEF Has
  <2>3. \A g \in b + 1 .. b + s : \E j \in DOMAIN ch : Has(ch[j], g)
    BY <2>1, TileGives
  <2>4. \A j \in DOMAIN ch : \A g : Has(ch[j], g) => g \in b + 1 .. b + s
    BY <2>1, TileGives
  <2> QED
    BY <2>2, <2>3, <2>4
<1>6. \A j \in DOMAIN ch : SoundChild(ch[j])
  <2>1. NodeSound(Opened(ch), req, faults) /\ Opened(ch).children = ch
    BY <1>2, <1>3, <1>4, OpenedSound
  <2>2. \A j \in DOMAIN Opened(ch).children : SoundChild(Opened(ch).children[j])
    BY <2>1, NodeTypes
  <2> QED
    BY <2>1, <2>2
<1>7. coord'[o].children = ch /\ \A j \in DOMAIN ch : coord'[o].cells[j] = Cell(ch[j], 0)
  BY DEF Opened, Map
<1>8. \A j \in DOMAIN ch : Has(ch[j], k) =>
        /\ coord'[o].cells[j].attempt = 0
        /\ coord'[o].cells[j].phase = IF ch[j].kind = "sub" THEN "sent" ELSE "out"
  BY <1>6, <1>7, CellOpens
<1>9. starts[k] \in Nat /\ starts'[k] = starts[k] + (IF k \in StartedBy(ch) THEN 1 ELSE 0)
  BY DEF StartOf, Count
<1>10. k \in StartedBy(ch) <=> \E j \in DOMAIN ch : ch[j].kind # "sub" /\ Has(ch[j], k)
  BY <1>6, StartedIs
<1>11. \A q \in DOMAIN coord' : q \notin DOMAIN coord => q = o
  OBVIOUS
<1>12. CASE ~ Has(c, k)
  <2>1. \A j \in DOMAIN ch : ~ Has(ch[j], k)
    BY <1>5, <1>12
  <2>2. Grows(H, H, k)
    BY <1>9, <1>10, <2>1 DEF Grows
  <2> QED
    BY <1>7, <1>11, <1>12, <2>1, <2>2 DEF Follows
<1>13. CASE Has(c, k)
  <2>1. PICK cell : cell = coord[p].cells[i]
    OBVIOUS
  <2>2. Tally(H, k, p, c, cell, Tiers, req, faults) /\ H \subseteq Full(Tiers)
    BY <1>13, <2>1 DEF Counted
  <2>3. \A g \in H : Above(g, p) => g[l] < a
    BY <1>1, <2>1, <2>2 DEF Tally, Reached
  <2>4. \A g : Above(g, o) <=> Above(g, p) /\ g[l] = a
    BY <1>1, AbovePath
  <2>5. \A g \in H : ~ Above(g, o)
    BY <2>3, <2>4
  <2>6. PICK j \in DOMAIN ch : Has(ch[j], k)
    BY <1>5, <1>13
  <2>7. ch[j].kind # "here"
    BY <1>3
  <2>8. l + 1 \in 1 .. Tiers /\ Tiers \in Nat /\ (ch[j].kind = "leaf" => Tiers = l + 1)
    BY <1>1, <1>2, <1>6, <2>6, <2>7, TiersBelow
  <2>9. l \in 1 .. Tiers
    BY <1>1, <2>8
  <2>10. \A g \in Full(Tiers) : g[l] \in Nat /\ g[l + 1] \in Nat
    BY <1>2, <2>8, <2>9 DEF Full
  <2>11. Least(Tiers, req) \subseteq Full(Tiers)
    BY <1>2, LeastIs
  <2>12. ASSUME faults' = 0, k \in Foreseen(req), NEW g \in Least(Tiers, req), Above(g, p), Ended(g, p, c, x)
         PROVE  g \in H
    <3>1. g[l] <= a /\ g[l] # a
      BY <1>1, <2>12 DEF Ended
    <3>2. Ended(g, p, c, cell)
      BY <1>1, <2>1, <3>1 DEF Ended
    <3> QED
      BY <2>2, <2>12, <3>2 DEF Tally
  <2>13. \A g \in H : Above(g, p) => Reached(g, p, x)
    <3>1. \A g \in H : Above(g, p) => g[l] < a /\ g[l] \in Nat
      BY <2>2, <2>3, <2>10
    <3>2. \A z \in Nat : z < a => z <= a
      OBVIOUS
    <3> QED
      BY <1>1, <3>1, <3>2 DEF Reached
  <2>14. CASE ~ (c.depth <= 1)
    <3>1. \A n \in DOMAIN ch : ch[n].kind = "sub"
      BY <1>3, <2>14
    <3>2. Grows(H, H, k)
      BY <1>9, <1>10, <3>1 DEF Grows
    <3>3. Tally(H, k, p, c, x, Tiers, req, faults')
      BY <2>12, <2>13 DEF Tally
    <3>4. ASSUME NEW n \in DOMAIN ch, Has(ch[n], k)
          PROVE  Tally(H, k, o, ch[n], coord'[o].cells[n], Tiers, req, faults')
      <4>1. coord'[o].cells[n].attempt = 0 /\ coord'[o].cells[n].phase = "sent" /\ ch[n].kind = "sub"
        BY <1>8, <3>1, <3>4
      <4>2. ASSUME NEW g \in Least(Tiers, req) PROVE ~ Ended(g, o, ch[n], coord'[o].cells[n])
        <5>1. g[l + 1] \in Nat
          BY <2>10, <2>11
        <5>2. \A z \in Nat : z <= 0 => z = 0
          OBVIOUS
        <5> QED
          BY <1>1, <4>1, <5>1, <5>2 DEF Ended
      <4> QED
        BY <2>5, <4>1, <4>2 DEF Tally
    <3> QED
      BY <1>7, <1>11, <3>2, <3>3, <3>4 DEF Follows
  <2>15. CASE c.depth <= 1
    <3>1. \A n \in DOMAIN ch : ch[n].kind = "leaf"
      BY <1>3, <2>15
    <3>2. \A n \in 1 .. Len(o) : o[n][2] <= MaxRetries
      BY DEF Chain
    <3>3. Tiers = l + 1
      BY <2>8, <3>1
    <3>4. PICK h \in Full(Tiers) :
            /\ Above(h, o) /\ h[l + 1] = 0
            /\ \A g \in Full(Tiers) : Above(g, o) /\ g[l + 1] = 0 => g = h
            /\ (\A n \in 1 .. Len(o) : o[n][2] = 0) => h \in [1 .. Tiers -> 0 .. 0]
      <4>1. PICK T \in Nat, z \in Nat : T = Tiers /\ z = 0 /\ z <= MaxRetries
        BY <1>2, <2>8
      <4>2. T = Len(o) + 1
        BY <1>1, <3>3, <4>1
      <4>3. PICK h \in Full(T) : EndsWith(h, o, z, T)
        <5>1. o \in Paths /\ MaxRetries \in Nat /\ z <= MaxRetries
          BY <1>2, <4>1
        <5> QED
          BY <3>2, <4>2, <5>1, OneMore
      <4> QED
        BY <1>1, <4>1, <4>3 DEF EndsWith
    <3>5. h \notin H
      BY <2>5, <3>4
    <3>6. RunsAt(h, k, o, j)' /\ j \in DOMAIN coord'[o].children
      BY <1>1, <1>7, <1>8, <2>6, <3>1, <3>4 DEF RunsAt
    <3>7. faults' = 0 /\ k \in Foreseen(req) => h \in Least(Tiers, req)
      <4>1. CASE req.lookalike \cap (1 .. req.size) # {}
        BY <3>4, <4>1 DEF Least, LastAttempt, Full
      <4>2. CASE req.lookalike \cap (1 .. req.size) = {} /\ faults' = 0
        <5>1. a = 0 /\ \A n \in 1 .. m : p[n][2] = 0
          BY <1>1, <4>2 DEF Count, Calm, Items
        <5>2. Above([n \in 1 .. l |-> 0], o)
          <6>1. Above([n \in 1 .. l |-> 0], p) /\ [n \in 1 .. l |-> 0][l] = 0
            BY <1>1, <5>1 DEF Above
          <6> QED
            BY <2>4, <5>1, <6>1
        <5>3. \A n \in 1 .. Len(o) : o[n][2] = 0
          BY <1>1, <5>2 DEF Above
        <5> QED
          BY <3>4, <4>2, <5>3 DEF Least, LastAttempt
      <4> QED
        BY <4>1, <4>2
    <3>8. Grows(H, H \cup {h}, k)
      BY <1>9, <1>10, <2>6, <2>7, <3>1, <3>4, <3>5, <3>6, <3>7 DEF Grows
    <3>9. \A g \in H \cup {h} : Above(g, p) => Reached(g, p, x)
      <4>1. h[l] = a
        BY <2>4, <3>4
      <4>2. Reached(h, p, x)
        BY <1>1, <4>1 DEF Reached
      <4> QED
        BY <2>13, <4>2
    <3>10. Tally(H \cup {h}, k, p, c, x, Tiers, req, faults')
      BY <2>12, <3>9 DEF Tally
    <3>11. ASSUME NEW n \in DOMAIN ch, Has(ch[n], k)
           PROVE  Tally(H \cup {h}, k, o, ch[n], coord'[o].cells[n], Tiers, req, faults')
      <4>1. coord'[o].cells[n].attempt = 0 /\ coord'[o].cells[n].phase = "out" /\ ch[n].kind = "leaf"
        BY <1>8, <3>1, <3>11
      <4>2. \A g \in H \cup {h} : Above(g, o) => Reached(g, o, coord'[o].cells[n])
        BY <1>1, <2>5, <3>4, <4>1 DEF Reached
      <4>3. ASSUME NEW g \in Least(Tiers, req), Above(g, o), Ended(g, o, ch[n], coord'[o].cells[n])
            PROVE  g \in H \cup {h}
        <5>1. g[l + 1] \in Nat /\ g[l + 1] <= 0 /\ g \in Full(Tiers)
          BY <1>1, <2>10, <2>11, <4>1, <4>3 DEF Ended
        <5>2. g[l + 1] = 0
          BY <5>1
        <5> QED
          BY <3>4, <4>3, <5>1, <5>2
      <4> QED
        BY <4>1, <4>2, <4>3 DEF Tally
    <3>12. PICK J : J = H \cup {h}
      OBVIOUS
    <3>13. \A q \in DOMAIN coord' : q \notin DOMAIN coord =>
             \A n \in DOMAIN coord'[q].children :
               Has(coord'[q].children[n], k) =>
                 Tally(J, k, q, coord'[q].children[n], coord'[q].cells[n], Tiers, req, faults')
      BY <1>7, <1>11, <3>11, <3>12
    <3>14. Grows(H, J, k) /\ Tally(J, k, p, coord[p].children[i], x, Tiers, req, faults')
      BY <3>8, <3>10, <3>12
    <3> QED
      BY <3>13, <3>14 DEF Follows
  <2> QED
    BY <2>14, <2>15
<1> QED
  BY <1>12, <1>13

LEMMA ArriveCounts ==
  ASSUME Inv, Count, Inv', NEW p \in DOMAIN coord, NEW i \in DOMAIN coord[p].cells, Arrive(p, i)
  PROVE  Count'
<1>1. /\ p \in Paths /\ i \in Nat /\ i \in DOMAIN coord[p].children /\ SoundChild(coord[p].children[i])
      /\ coord[p].cells[i].attempt \in Nat /\ coord[p].cells[i] \in Cells /\ MaxRetries \in Nat
      /\ req.branchingFactor \in 4 .. 16
  BY CallFacts
<1>2. PICK a \in Nat : a = coord[p].cells[i].attempt /\ a <= MaxRetries
  BY <1>1 DEF Cells
<1>3. PICK c, x : c = coord[p].children[i] /\ x = [coord[p].cells[i] EXCEPT !.phase = "out"]
  OBVIOUS
<1>4. /\ c.kind = "sub" /\ coord[p].cells[i].phase = "sent"
      /\ x.phase = "out" /\ x.attempt = a /\ CallMoves(p, i, x)
      /\ Callee(p, i) \notin DOMAIN coord /\ DOMAIN coord' = DOMAIN coord \cup {Callee(p, i)}
      /\ coord'[Callee(p, i)] = Opened(SubChildren(c))
      /\ UNCHANGED <<req, plan, status, faults, result>>
  BY <1>2, <1>3, ArriveMoves
<1>5. PICK o, ch : o = Path(p, i, a) /\ o = Callee(p, i) /\ ch = SubChildren(c)
  BY <1>2 DEF Callee
<1>6. starts' = StartOf(StartedBy(ch))
  BY <1>3, <1>5 DEF Arrive
<1>7. PICK chain : Chain(chain, o, ch)
  <2>1. PICK kids : kids = coord[p].children
    OBVIOUS
  <2>2. PICK above : Chain(above, p, kids)
    BY <2>1 DEF Count, Lineage
  <2>3. req.size \in Nat
    BY RequestTypes DEF Inv
  <2>4. i \in DOMAIN kids /\ SoundChild(kids[i]) /\ kids[i].kind = "sub" /\ c = kids[i]
    BY <1>1, <1>3, <1>4, <2>1
  <2> QED
    BY <1>1, <1>2, <1>5, <2>2, <2>3, <2>4, ChainGrows
<1>8. coord'[o].children = ch /\ \A j \in DOMAIN ch : coord'[o].cells[j] = Cell(ch[j], 0)
  BY <1>4, <1>5 DEF Opened, Map
<1>9. ASSUME NEW k \in Items, NEW H, Counted(H, k) PROVE Follows(H, k, p, i, x)
  <2>1. /\ SoundChild(c) /\ o \in DOMAIN coord' /\ DOMAIN coord' = DOMAIN coord \cup {o} /\ coord'[o] = Opened(ch)
        /\ UNCHANGED <<req, plan, faults>>
    BY <1>1, <1>3, <1>4, <1>5
  <2> QED
    BY <1>1, <1>2, <1>3, <1>4, <1>5, <1>6, <1>7, <1>9, <2>1, ArriveFollows
<1>10. \A q \in DOMAIN coord' : q \notin DOMAIN coord => q = o
  BY <1>4, <1>5
<1>11. Lineage'
  <2>1. \A q \in DOMAIN coord' : q \notin DOMAIN coord => \E longer : Chain(longer, q, coord'[q].children)
    BY <1>7, <1>8, <1>10
  <2>2. UNCHANGED <<req, plan>> /\ Lineage
    BY <1>4 DEF Count
  <2> QED
    BY <1>1, <1>4, <2>1, <2>2, LineageKept
<1>12. Calm'
  <2>1. ASSUME faults' = 0, req.lookalike \cap Items = {}
        PROVE  /\ x.attempt = 0 /\ x.phase # "backoff"
               /\ \A q \in DOMAIN coord' : q \notin DOMAIN coord =>
                    /\ \A n \in 1 .. Len(q) : q[n][2] = 0
                    /\ \A j \in DOMAIN coord'[q].children :
                         coord'[q].cells[j].attempt = 0 /\ coord'[q].cells[j].phase # "backoff"
    <3>1. faults = 0 /\ a = 0 /\ \A n \in 1 .. Len(p) : p[n][2] = 0
      BY <1>1, <1>2, <1>4, <2>1 DEF Count, Calm
    <3>2. PICK m \in Nat : m = Len(p)
      BY <1>1, LenProperties DEF Paths
    <3>3. PICK h : h = [n \in 1 .. m + 1 |-> 0]
      OBVIOUS
    <3>4. Above(h, p) /\ h[Len(p) + 1] = a
      BY <3>1, <3>2, <3>3 DEF Above
    <3>5. Above(h, Path(p, i, a))
      BY <1>1, <3>4, AbovePath
    <3>6. Len(o) = m + 1
      <4>1. Len(Path(p, i, a)) = Len(p) + 1
        BY <1>1, PathIs
      <4> QED
        BY <1>5, <3>2, <4>1
    <3>7. \A n \in 1 .. Len(o) : o[n][2] = 0
      BY <1>5, <3>3, <3>5, <3>6 DEF Above
    <3>8. \A j \in DOMAIN ch : Cell(ch[j], 0).attempt = 0 /\ Cell(ch[j], 0).phase # "backoff"
      BY DEF Cell
    <3> QED
      BY <1>4, <1>8, <1>10, <3>1, <3>7, <3>8
  <2>2. Calm /\ req' = req /\ (faults' = 0 => faults = 0)
    BY <1>4 DEF Count
  <2> QED
    BY <1>1, <1>4, <2>1, <2>2, CalmKept
<1>13. starts' \in [Items -> Nat]
  <2>1. \A k \in Items : starts[k] + (IF k \in StartedBy(ch) THEN 1 ELSE 0) \in Nat
    BY DEF Count
  <2> QED
    BY <1>6, <2>1 DEF StartOf
<1>14. faults' \in 0 .. req.maxFaults /\ (faults' = 0 => faults = 0) /\ UNCHANGED <<req, plan, status>>
  BY <1>4 DEF Count
<1> QED
  BY <1>1, <1>4, <1>9, <1>11, <1>12, <1>13, <1>14, StepCounts

\* A set of combinations that is one function only.
LEMMA OneFunction ==
  ASSUME NEW T \in Nat, NEW L \in Nat, T = 0 \/ L = 0
  PROVE  Cardinality([1 .. T -> 0 .. L]) = 1
<1>1. PICK e : e = [n \in 1 .. T |-> 0]
  OBVIOUS
<1>2. e \in [1 .. T -> 0 .. L]
  BY <1>1
<1>3. ASSUME NEW g \in [1 .. T -> 0 .. L] PROVE g = e
  <2>1. CASE T = 0
    BY <1>1, <2>1
  <2>2. CASE L = 0
    <3>1. \A n \in 1 .. T : g[n] = 0
      BY <2>2
    <3> QED
      BY <1>1, <3>1
  <2> QED
    BY <2>1, <2>2
<1>4. [1 .. T -> 0 .. L] = {e}
  BY <1>2, <1>3
<1> QED
  BY <1>4, FS_Singleton

\* The root makes its calls: what is known of item k.
LEMMA RootFollows ==
  ASSUME PlanSound(req, plan), req.size \in Nat, MaxRetries \in Nat, NEW k \in 1 .. req.size,
         NEW ch, ch = RootChildren, NEW f, NEW started, started = IF k \in StartedBy(ch) THEN 1 ELSE 0
  PROVE  \E H : /\ H \subseteq Full(Tiers) /\ started = Cardinality(H)
                /\ k \in Foreseen(req) => H \subseteq Least(Tiers, req)
                /\ \A i \in DOMAIN ch : Has(ch[i], k) =>
                     Tally(H, k, Root, ch[i], Cell(ch[i], 0), Tiers, req, f)
<1>1. PICK n \in Nat : n = req.size
  OBVIOUS
<1>2. /\ Tile(ch, 0, n)
      /\ \A i \in DOMAIN ch :
           /\ plan.topology = "in-do" => ch[i].kind = "here"
           /\ plan.topology = "hybrid" => ch[i].kind = "leaf"
           /\ plan.topology = "tree" => ch[i].kind = "sub" /\ ch[i].depth = plan.depth - 1
  BY <1>1, RootTile
<1>3. \A i \in DOMAIN ch : SoundChild(ch[i])
  <2>1. NodeSound(Opened(ch), req, 0) /\ Opened(ch).children = ch
    BY <1>2, OpenedSound
  <2>2. \A i \in DOMAIN Opened(ch).children : SoundChild(Opened(ch).children[i])
    BY <2>1, NodeTypes
  <2> QED
    BY <2>1, <2>2
<1>4. PICK j \in DOMAIN ch : Has(ch[j], k)
  <2>1. k \in 0 + 1 .. 0 + n
    BY <1>1
  <2> QED
    BY <1>2, <2>1, TileGives
<1>5. k \in StartedBy(ch) <=> \E i \in DOMAIN ch : ch[i].kind # "sub" /\ Has(ch[i], k)
  BY <1>3, StartedIs
<1>6. \A i \in DOMAIN ch : Has(ch[i], k) =>
        /\ Cell(ch[i], 0).attempt = 0
        /\ Cell(ch[i], 0).phase = IF ch[i].kind = "sub" THEN "sent" ELSE "out"
  BY <1>3, CellOpens
<1>7. Root \in Paths /\ Len(Root) = 0 /\ \A h : Above(h, Root)
  BY DEF Root, Paths, Above
<1>8. CASE plan.topology = "in-do"
  <2>1. Tiers = 0 /\ \A i \in DOMAIN ch : ch[i].kind = "here"
    BY <1>2, <1>8 DEF Tiers
  <2>2. started = 1
    BY <1>4, <1>5, <2>1
  <2>3. Cardinality(Full(0)) = 1
    BY OneFunction DEF Full
  <2>4. Least(0, req) \subseteq Full(0)
    BY LeastIs
  <2>5. Full(0) \subseteq Least(0, req)
    BY DEF Full, Least
  <2>6. \A i \in DOMAIN ch : Has(ch[i], k) => Tally(Full(0), k, Root, ch[i], Cell(ch[i], 0), 0, req, f)
    BY <1>6, <2>1, <2>4 DEF Tally
  <2> QED
    BY <2>1, <2>2, <2>3, <2>5, <2>6
<1>9. CASE plan.topology = "hybrid"
  <2>1. Tiers = 1 /\ \A i \in DOMAIN ch : ch[i].kind = "leaf"
    BY <1>2, <1>9 DEF Tiers
  <2>2. started = 1
    BY <1>4, <1>5, <2>1
  <2>3. PICK h \in Full(1) : EndsWith(h, Root, 0, 1)
    <3>1. PICK a \in Nat, T \in Nat : a = 0 /\ T = 1 /\ a <= MaxRetries
      OBVIOUS
    <3>2. T = Len(Root) + 1 /\ (\A m \in 1 .. Len(Root) : Root[m][2] <= MaxRetries) /\ a <= MaxRetries
      BY <1>7, <3>1
    <3>3. \E h \in Full(T) : EndsWith(h, Root, a, T)
      BY <1>7, <3>2, OneMore
    <3> QED
      BY <3>1, <3>3
  <2>4. h[1] = 0 /\ (\A g \in Full(1) : g[1] = 0 => g = h) /\ h \in [1 .. 1 -> 0 .. 0]
    BY <1>7, <2>3 DEF EndsWith
  <2>5. Least(1, req) \subseteq Full(1) /\ h \in Least(1, req)
    <3>1. LastAttempt(req) \in Nat
      BY LeastIs
    <3>2. PICK l \in Nat : l = LastAttempt(req)
      BY <3>1
    <3>3. h \in [1 .. 1 -> 0 .. l]
      BY <2>4
    <3>4. Least(1, req) \subseteq Full(1)
      BY LeastIs
    <3> QED
      BY <3>2, <3>3, <3>4 DEF Least
  <2>6. \A g \in Full(1) : g[1] \in Nat
    BY DEF Full
  <2>7. ASSUME NEW i \in DOMAIN ch, Has(ch[i], k)
        PROVE  Tally({h}, k, Root, ch[i], Cell(ch[i], 0), 1, req, f)
    <3>1. PICK c, cell : c = ch[i] /\ cell = Cell(ch[i], 0)
      OBVIOUS
    <3>2. c.kind = "leaf" /\ cell.attempt = 0 /\ cell.phase = "out"
      BY <1>6, <2>1, <2>7, <3>1
    <3>3. \A g \in {h} : Above(g, Root) => Reached(g, Root, cell)
      BY <1>7, <2>4, <3>2 DEF Reached
    <3>4. \A g \in Least(1, req) : Above(g, Root) /\ Ended(g, Root, c, cell) => g \in {h}
      <4>1. \A g \in Least(1, req) : Ended(g, Root, c, cell) => g[1] <= 0 /\ g[1] \in Nat
        BY <1>7, <2>5, <2>6, <3>2 DEF Ended
      <4>2. \A z \in Nat : z <= 0 => z = 0
        OBVIOUS
      <4> QED
        BY <2>4, <2>5, <4>1, <4>2
    <3>5. Tally({h}, k, Root, c, cell, 1, req, f)
      BY <3>2, <3>3, <3>4 DEF Tally
    <3> QED
      BY <3>1, <3>5
  <2>8. Cardinality({h}) = 1 /\ {h} \subseteq Full(1) /\ {h} \subseteq Least(1, req)
    BY <2>5, FS_Singleton
  <2> QED
    BY <2>1, <2>2, <2>7, <2>8
<1>10. CASE plan.topology = "tree"
  <2>1. \A i \in DOMAIN ch : ch[i].kind = "sub"
    BY <1>2, <1>10
  <2>2. started = 0 /\ Cardinality({}) = 0
    BY <1>5, <2>1, FS_EmptySet
  <2>3. PICK chain : Chain(chain, Root, ch)
    BY RootChain
  <2>4. PICK d \in Nat : d = plan.depth /\ d > 0
    BY <1>10 DEF PlanSound
  <2>5. Tiers \in Nat /\ 1 \in 1 .. Tiers
    BY <1>10, <2>4 DEF Tiers
  <2>6. \A g \in Full(Tiers) : g[1] \in Nat
    BY <2>5 DEF Full
  <2>7. Least(Tiers, req) \subseteq Full(Tiers)
    BY LeastIs
  <2>8. ASSUME NEW i \in DOMAIN ch, Has(ch[i], k)
        PROVE  Tally({}, k, Root, ch[i], Cell(ch[i], 0), Tiers, req, f)
    <3>1. PICK c, cell : c = ch[i] /\ cell = Cell(ch[i], 0)
      OBVIOUS
    <3>2. c.kind = "sub" /\ cell.attempt = 0 /\ cell.phase = "sent"
      BY <1>6, <2>1, <2>8, <3>1
    <3>3. \A g \in Least(Tiers, req) : ~ Ended(g, Root, c, cell)
      <4>1. \A g \in Least(Tiers, req) : g[1] \in Nat
        BY <2>6, <2>7
      <4>2. \A z \in Nat : z <= 0 => z = 0
        OBVIOUS
      <4> QED
        BY <1>7, <3>2, <4>1, <4>2 DEF Ended
    <3>4. Tally({}, k, Root, c, cell, Tiers, req, f)
      BY <3>2, <3>3 DEF Tally
    <3> QED
      BY <3>1, <3>4
  <2> QED
    BY <2>2, <2>8
<1> QED
  BY <1>8, <1>9, <1>10 DEF PlanSound

LEMMA DispatchCounts == Inv /\ Count /\ Dispatch /\ Inv' => Count'
<1> SUFFICES ASSUME Inv, Count, Dispatch, Inv' PROVE Count'
  OBVIOUS
<1>1. PlanSound(req, plan) /\ req.size \in Nat /\ MaxRetries \in Nat
  BY RequestTypes DEF Inv, Dispatch
<1>2. PICK ch : ch = RootChildren
  OBVIOUS
<1>3. /\ status' = "running" /\ coord' = [p \in {Root} |-> Opened(ch)] /\ starts' = StartOf(StartedBy(ch))
      /\ UNCHANGED <<req, plan, faults>> /\ starts = [k \in Items |-> 0]
  BY <1>2 DEF Dispatch, Count
<1>4. /\ DOMAIN coord' = {Root} /\ coord'[Root].children = ch
      /\ \A i \in DOMAIN ch : coord'[Root].cells[i] = Cell(ch[i], 0)
  BY <1>3 DEF Opened, Map
<1>5. Tiers' = Tiers /\ Items' = Items
  BY <1>3 DEF Tiers, Items
<1>6. ASSUME NEW k \in Items PROVE starts'[k] = IF k \in StartedBy(ch) THEN 1 ELSE 0
  BY <1>3, <1>6 DEF StartOf
<1>7. ASSUME NEW k \in Items PROVE \E H : Counted(H, k)'
  <2>1. PICK H : /\ H \subseteq Full(Tiers) /\ starts'[k] = Cardinality(H)
                 /\ k \in Foreseen(req) => H \subseteq Least(Tiers, req)
                 /\ \A i \in DOMAIN ch : Has(ch[i], k) =>
                      Tally(H, k, Root, ch[i], Cell(ch[i], 0), Tiers, req, faults)
    <3>1. k \in 1 .. req.size
      BY DEF Items
    <3> QED
      BY <1>1, <1>2, <1>6, <3>1, RootFollows
  <2>2. Counted(H, k)'
    BY <1>3, <1>4, <1>5, <2>1 DEF Counted
  <2> QED
    BY <2>2
<1>8. Lineage'
  <2>1. PICK chain : Chain(chain, Root, ch)
    BY <1>1, <1>2, RootChain
  <2>2. Chain(chain, Root, ch)'
    BY <1>3, <2>1, ChainKept
  <2> QED
    BY <1>4, <2>2 DEF Lineage
<1>9. Calm'
  <2>1. \A i \in DOMAIN ch : Cell(ch[i], 0).attempt = 0 /\ Cell(ch[i], 0).phase # "backoff"
    BY DEF Cell
  <2>2. \A n \in 1 .. Len(Root) : FALSE
    BY DEF Root
  <2> QED
    BY <1>4, <2>1, <2>2 DEF Calm
<1>10. starts' \in [Items -> Nat]
  <2>1. \A k \in Items : starts[k] + (IF k \in StartedBy(ch) THEN 1 ELSE 0) \in Nat
    BY <1>3
  <2> QED
    BY <1>3, <2>1 DEF StartOf
<1> QED
  BY <1>3, <1>5, <1>7, <1>8, <1>9, <1>10 DEF Count

\* The root has its answers: what was foreseen has happened.
LEMMA FinishCounts == Inv /\ Count /\ Finish => Count'
<1> SUFFICES ASSUME Inv, Count, Finish PROVE Count'
  OBVIOUS
<1>1. /\ status = "running" /\ status' = "done" /\ AllDone(Root) /\ UNCHANGED <<req, plan, starts, faults>>
      /\ DOMAIN coord' = DOMAIN coord \ {Root} /\ \A p \in DOMAIN coord' : coord'[p] = coord[p]
  BY DEF Finish
<1>2. Tiers' = Tiers /\ Items' = Items
  BY <1>1 DEF Tiers, Items
<1>3. Root \in DOMAIN coord /\ Tile(coord[Root].children, 0, req.size) /\ req.size \in Nat
  BY <1>1, RequestTypes DEF Inv, TreeSound
<1>4. ASSUME NEW k \in Items PROVE \E H : Counted(H, k)'
  <2>1. PICK H : Counted(H, k)
    BY <1>1 DEF Count
  <2>2. faults = 0 /\ k \in Foreseen(req) => Least(Tiers, req) \subseteq H
    <3> SUFFICES ASSUME faults = 0, k \in Foreseen(req) PROVE Least(Tiers, req) \subseteq H
      OBVIOUS
    <3>1. PICK lo \in Nat, n \in Nat : lo = 0 /\ n = req.size
      BY <1>3
    <3>2. k \in lo + 1 .. lo + n
      BY <3>1 DEF Items
    <3>3. Tile(coord[Root].children, lo, n)
      BY <1>3, <3>1
    <3>4. \A h \in Least(Tiers, req) : Above(h, Root) => h \in H
      BY <1>1, <1>3, <2>1, <3>2, <3>3, AllDoneCovers DEF Count
    <3>5. \A h : Above(h, Root)
      BY DEF Above, Root
    <3> QED
      BY <3>4, <3>5
  <2>3. Counted(H, k)'
    <3>1. /\ H \subseteq Full(Tiers) /\ starts[k] = Cardinality(H)
          /\ faults = 0 /\ k \in Foreseen(req) => H \subseteq Least(Tiers, req)
          /\ \A p \in DOMAIN coord' : \A i \in DOMAIN coord'[p].children :
               Has(coord'[p].children[i], k) =>
                 Tally(H, k, p, coord'[p].children[i], coord'[p].cells[i], Tiers, req, faults)
      BY <1>1, <2>1 DEF Counted
    <3> QED
      BY <1>1, <1>2, <2>2, <3>1 DEF Counted
  <2> QED
    BY <2>3
<1>5. Lineage'
  <2>1. ASSUME NEW q \in DOMAIN coord' PROVE (\E chain : Chain(chain, q, coord[q].children))'
    <3>1. PICK kids : kids = coord'[q].children
      OBVIOUS
    <3>2. PICK chain : Chain(chain, q, kids)
      BY <1>1, <3>1 DEF Count, Lineage
    <3>3. Chain(chain, q, kids)'
      BY <1>1, <3>2, ChainKept
    <3> QED
      BY <3>1, <3>3
  <2> QED
    BY <2>1 DEF Lineage
<1>6. Calm'
  BY <1>1, <1>2 DEF Count, Calm
<1> QED
  BY <1>1, <1>2, <1>4, <1>5, <1>6 DEF Count

\* Before anything is dispatched nothing is started.
LEMMA EarlyCounts == Inv /\ Count /\ Inv' /\ (RunManyEmpty \/ RunManyRefused \/ SelectPlan) => Count'
<1>1. ASSUME Inv, Count, RunManyEmpty PROVE Count'
  <2>1. /\ status = "new" /\ status' = "done" /\ req.size = 0 /\ UNCHANGED <<req, plan, coord, starts, faults>>
    BY <1>1 DEF RunManyEmpty
  <2>2. Tiers' = Tiers /\ Items' = Items /\ Items = {}
    BY <2>1 DEF Tiers, Items
  <2>3. DOMAIN coord' = {}
    BY <1>1, <2>1 DEF Count
  <2>4. Lineage' /\ Calm'
    BY <2>3 DEF Lineage, Calm
  <2> QED
    BY <1>1, <2>1, <2>2, <2>4 DEF Count
<1>2. ASSUME Inv, Count, RunManyRefused PROVE Count'
  <2>1. /\ status = "new" /\ status' = "rejected" /\ UNCHANGED <<req, plan, coord, starts, faults>>
    BY <1>2 DEF RunManyRefused
  <2>2. Tiers' = Tiers /\ Items' = Items
    BY <2>1 DEF Tiers, Items
  <2>3. DOMAIN coord' = {}
    BY <1>2, <2>1 DEF Count
  <2>4. Lineage' /\ Calm'
    BY <2>3 DEF Lineage, Calm
  <2> QED
    BY <1>2, <2>1, <2>2, <2>3, <2>4 DEF Count
<1>3. ASSUME Inv, Count, Inv', SelectPlan PROVE Count'
  <2>1. /\ status = "new" /\ status' = "planned" /\ UNCHANGED <<req, coord, starts, faults>>
    BY <1>3 DEF SelectPlan
  <2>2. Items' = Items
    BY <2>1 DEF Items
  <2>3. DOMAIN coord' = {}
    BY <1>3, <2>1 DEF Count
  <2>4. Lineage' /\ Calm'
    BY <2>3 DEF Lineage, Calm
  <2>5. PlanSound(req', plan')
    BY <1>3, <2>1 DEF Inv
  <2>6. plan'.topology \in {"in-do", "hybrid", "tree"} /\ (plan'.topology = "tree" => plan'.depth \in Nat)
    BY <2>5 DEF PlanSound
  <2>7. Tiers' \in Nat
    BY <2>6 DEF Tiers
  <2> QED
    BY <1>3, <2>1, <2>2, <2>3, <2>4, <2>6, <2>7 DEF Count
<1> QED
  BY <1>1, <1>2, <1>3

LEMMA CountInit == Init => Count
<1> SUFFICES ASSUME Init PROVE Count
  OBVIOUS
<1>1. /\ req \in Requests /\ plan = NoPlan /\ status = "new" /\ DOMAIN coord = {}
      /\ starts = [k \in Items |-> 0] /\ faults = 0
  BY DEF Init
<1>2. plan.topology = "none" /\ Tiers = 0
  BY <1>1 DEF NoPlan, Tiers
<1>3. req.maxFaults \in Nat
  BY <1>1, RequestTypes
<1>4. faults \in 0 .. req.maxFaults /\ starts \in [Items -> Nat]
  BY <1>1, <1>3
<1>5. Lineage /\ Calm
  BY <1>1 DEF Lineage, Calm
<1> QED
  BY <1>1, <1>2, <1>4, <1>5 DEF Count

LEMMA CountNext == Inv /\ Count /\ Inv' /\ [Next]_vars => Count'
<1> SUFFICES ASSUME Inv, Count, Inv', [Next]_vars PROVE Count'
  OBVIOUS
<1>1. CASE RunManyEmpty \/ RunManyRefused \/ SelectPlan
  BY <1>1, EarlyCounts
<1>2. CASE Dispatch
  BY <1>2, DispatchCounts
<1>3. ASSUME NEW p \in DOMAIN coord, NEW i \in DOMAIN coord[p].cells, Step(p, i) PROVE Count'
  <2>1. CASE Arrive(p, i)
    BY <2>1, ArriveCounts
  <2>2. CASE LeafReturns(p, i)
    <3>1. PICK results : Answered(p, i, results)
      BY <2>2, LeafReturnsAnswers
    <3>2. coord[p].children[i].kind # "sub"
      BY <2>2 DEF LeafReturns
    <3> QED
      BY <3>1, <3>2, BatchCounts
  <2>3. CASE SubReturns(p, i)
    BY <2>3, SubReturnsCounts
  <2>4. CASE Again(p, i)
    BY <2>4, AgainCounts
  <2>5. ASSUME NEW out \in {"transient", "fatal"}, CallFails(p, i, out) PROVE Count'
    BY <2>5, CallFailsAnswers, BatchCounts
  <2> QED
    BY <1>3, <2>1, <2>2, <2>3, <2>4, <2>5 DEF Step
<1>4. CASE Finish
  BY <1>4, FinishCounts
<1>5. CASE UNCHANGED vars
  <2>1. UNCHANGED <<req, plan, status, coord, starts, faults>>
    BY <1>5 DEF vars
  <2>2. Tiers' = Tiers /\ Items' = Items
    BY <2>1 DEF Tiers, Items
  <2>3. Lineage'
    <3>1. ASSUME NEW q \in DOMAIN coord' PROVE (\E chain : Chain(chain, q, coord[q].children))'
      <4>1. PICK kids : kids = coord'[q].children
        OBVIOUS
      <4>2. PICK chain : Chain(chain, q, kids)
        BY <2>1, <4>1 DEF Count, Lineage
      <4>3. Chain(chain, q, kids)'
        BY <2>1, <4>2, ChainKept
      <4> QED
        BY <4>1, <4>3
    <3> QED
      BY <3>1 DEF Lineage
  <2>4. Calm'
    BY <2>1, <2>2 DEF Count, Calm
  <2>5. \A k, H : Counted(H, k)' <=> Counted(H, k)
    BY <2>1, <2>2 DEF Counted
  <2> QED
    BY <2>1, <2>2, <2>3, <2>4, <2>5 DEF Count
<1> QED
  BY <1>1, <1>2, <1>3, <1>4, <1>5 DEF Next

LEMMA InvTypes == Inv /\ Count => TypeOK
<1> SUFFICES ASSUME Inv, Count PROVE TypeOK
  OBVIOUS
<1>1. ASSUME NEW p \in DOMAIN coord
      PROVE  /\ DOMAIN coord[p].cells = DOMAIN coord[p].children
             /\ \A i \in DOMAIN coord[p].cells :
                  /\ coord[p].cells[i].phase \in {"sent", "out", "backoff", "done"}
                  /\ coord[p].cells[i].attempt \in 0 .. MaxRetries
                  /\ \A k \in DOMAIN coord[p].cells[i].got : coord[p].cells[i].got[k].out \in Outs
  <2>1. NodeSound(coord[p], req, faults)
    BY DEF Inv, TreeSound
  <2>2. DOMAIN coord[p].cells = DOMAIN coord[p].children
    BY <2>1, NodeTypes
  <2>3. ASSUME NEW i \in DOMAIN coord[p].cells
        PROVE  /\ coord[p].cells[i].phase \in {"sent", "out", "backoff", "done"}
               /\ coord[p].cells[i].attempt \in 0 .. MaxRetries
               /\ \A k \in DOMAIN coord[p].cells[i].got : coord[p].cells[i].got[k].out \in Outs
    <3>1. PICK cell \in Cells : cell = coord[p].cells[i]
      BY CallFacts
    <3>2. cell.phase \in {"sent", "out", "backoff", "done"} /\ cell.attempt \in 0 .. MaxRetries /\ cell.got \in Seq(Results)
      BY DEF Cells
    <3>3. \A k \in DOMAIN cell.got : cell.got[k] \in Results
      BY <3>2, LenProperties, ElementOfSeq
    <3>4. \A k \in DOMAIN cell.got : cell.got[k].out \in Outs
      BY <3>3 DEF Results
    <3> QED
      BY <3>1, <3>2, <3>4
  <2> QED
    BY <2>2, <2>3
<1> QED
  BY <1>1 DEF TypeOK, Inv, Count

LEMMA CountBounds == Inv /\ Count => RetriesAreBounded
<1> SUFFICES ASSUME Inv, Count PROVE RetriesAreBounded
  OBVIOUS
<1>1. Tiers \in Nat /\ MaxRetries \in Nat /\ Attempts = Full(Tiers) /\ Items = 1 .. req.size
  BY TreeAssumption DEF Count, Attempts, Full, Items
<1>2. Cardinality(Full(Tiers)) \in Nat
  BY <1>1, FullIs
<1>3. CASE status \notin {"running", "done"}
  <2>1. \A k \in Items : starts[k] = 0
    BY <1>3 DEF Count
  <2>2. 0 <= Cardinality(Attempts) /\ 0 <= 1
    BY <1>1, <1>2
  <2> QED
    BY <1>3, <2>1, <2>2, InvTypes DEF RetriesAreBounded
<1>4. CASE status \in {"running", "done"}
  <2>1. ASSUME NEW k \in Items
        PROVE  /\ starts[k] <= Cardinality(Attempts)
               /\ status = "done" /\ faults = 0 /\ k \in req.lookalike => starts[k] = Cardinality(Attempts)
               /\ faults = 0 /\ req.lookalike \cap Items = {} =>
                    starts[k] <= 1 /\ (status = "done" => starts[k] = 1)
    <3>1. PICK H : Counted(H, k)
      BY <1>4 DEF Count
    <3>2. /\ H \subseteq Full(Tiers) /\ starts[k] = Cardinality(H)
          /\ faults = 0 /\ k \in Foreseen(req) =>
               H \subseteq Least(Tiers, req) /\ (status = "done" => Least(Tiers, req) \subseteq H)
      BY <3>1 DEF Counted
    <3>3. starts[k] <= Cardinality(Attempts)
      BY <1>1, <3>2, FullIs
    <3>4. ASSUME status = "done", faults = 0, k \in req.lookalike PROVE starts[k] = Cardinality(Attempts)
      <4>1. k \in Foreseen(req) /\ Least(Tiers, req) = Full(Tiers)
        BY <1>1, <3>4 DEF Foreseen, Least, LastAttempt, Full
      <4>2. H = Full(Tiers)
        BY <3>2, <3>4, <4>1
      <4> QED
        BY <1>1, <3>2, <4>2
    <3>5. ASSUME faults = 0, req.lookalike \cap Items = {} PROVE starts[k] <= 1 /\ (status = "done" => starts[k] = 1)
      <4>1. k \in Foreseen(req) /\ LastAttempt(req) = 0
        BY <1>1, <3>5 DEF Foreseen, LastAttempt
      <4>2. PICK L : L = Least(Tiers, req)
        OBVIOUS
      <4>3. Cardinality(L) = 1
        BY <1>1, <4>1, <4>2, OneFunction DEF Least
      <4>4. IsFiniteSet(L)
        <5>1. L \subseteq Full(Tiers) /\ IsFiniteSet(Full(Tiers))
          BY <1>1, <4>2, LeastIs, FullIs
        <5> QED
          BY <5>1, FS_Subset
      <4>5. H \subseteq L /\ (status = "done" => H = L)
        BY <3>2, <3>5, <4>1, <4>2
      <4>6. Cardinality(H) <= Cardinality(L)
        BY <4>4, <4>5, FS_Subset
      <4> QED
        BY <3>2, <4>3, <4>5, <4>6
    <3> QED
      BY <3>3, <3>4, <3>5
  <2> QED
    BY <2>1, InvTypes DEF RetriesAreBounded
<1> QED
  BY <1>3, <1>4

LEMMA Counting == Spec => [](Inv /\ Count)
<1>1. Init => Inv /\ Count
  BY InvInit, CountInit
<1>2. Inv /\ Count /\ [Next]_vars => (Inv /\ Count)'
  BY InvNext, CountNext
<1> QED
  BY <1>1, <1>2, PTL DEF Spec

\* For every request and every bound, retries multiply along the tiers and not
\* beyond: an item is started at most once for every combination of attempts
\* above it, callees that were given up included; without a reset exactly that
\* often when its result looks like one, and once when no result does
\* (transient.ts, and the callers that retry a whole slice).
THEOREM RetriesStayBounded == Spec => []RetriesAreBounded
BY Counting, CountBounds, PTL
=============================================================================
