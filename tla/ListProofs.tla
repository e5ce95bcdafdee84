----------------------------- MODULE ListProofs -----------------------------
(***************************************************************************)
(* Induction over the natural numbers and recursive functions, in a form   *)
(* that first-order provers can use, and with them what the sum of a list  *)
(* (Lists) and the concatenation of a list of lists (FlattenSeq) are.      *)
(***************************************************************************)
EXTENDS Lists, SequencesExt, TLAPS, WellFoundedInduction, SequenceTheorems

-----------------------------------------------------------------------------
(* Induction.                                                              *)

\* A set that holds zero and, with a number, the next one, holds them all.
LEMMA NatSetInduction ==
    ASSUME NEW S \in SUBSET Nat, 0 \in S, \A n \in S : n + 1 \in S
    PROVE  S = Nat
<1> DEFINE R == OpToRel(<, Nat)
           T == Nat \ S
<1>1. IsWellFoundedOn(R, Nat)
  BY NatLessThanWellFounded, Zenon
<1>2. \A x, y \in Nat : y < x => <<y, x>> \in R
  BY DEF OpToRel
<1> HIDE DEF R
<1>3. SUFFICES ASSUME T # {} PROVE FALSE
  OBVIOUS
<1>4. T \in SUBSET Nat
  OBVIOUS
<1>5. PICK x \in T : \A y \in T : ~(<<y, x>> \in R)
  BY <1>1, <1>3, <1>4, WFMin
<1>6. x - 1 \in Nat /\ x - 1 < x
  BY <1>4
<1>7. x - 1 \in S
  BY <1>2, <1>4, <1>5, <1>6
<1>8. (x - 1) + 1 = x
  BY <1>4
<1> QED
  BY <1>7, <1>8

\* The function f starts with `base' and follows `step'.
Recurs(f, base, step) ==
    f[0] = base /\ \A k \in Nat \ {0} : f[k] = step[<<k, f[k - 1]>>]

\* Primitive recursion: such a function exists.
LEMMA NatRecursion ==
    ASSUME NEW D, NEW base \in D, NEW step \in [Nat \X D -> D]
    PROVE  \E f \in [Nat -> D] : Recurs(f, base, step)
<1> DEFINE Follows(f, n) ==
             /\ f \in [0 .. n -> D]
             /\ f[0] = base
             /\ \A k \in 1 .. n : f[k] = step[<<k, f[k - 1]>>]
           S == {n \in Nat : \E f : Follows(f, n)}
           U == {n \in Nat : \A f, g : Follows(f, n) /\ Follows(g, n) => f[n] = g[n]}
<1>1. S = Nat
  <2>1. 0 \in S
    <3>1. Follows([k \in 0 .. 0 |-> base], 0)
      OBVIOUS
    <3> QED
      BY <3>1
  <2>2. ASSUME NEW n \in S PROVE n + 1 \in S
    <3>1. PICK f : Follows(f, n)
      BY <2>2
    <3>n. n \in Nat
      BY <2>2
    <3> USE <3>n
    <3> HIDE DEF S
    <3> DEFINE g == [k \in 0 .. n + 1 |-> IF k = n + 1 THEN step[<<n + 1, f[n]>>] ELSE f[k]]
    <3>2. g \in [0 .. n + 1 -> D]
      BY <3>1
    <3>3. g[0] = base
      BY <3>1
    <3>4. ASSUME NEW k \in 1 .. n + 1 PROVE g[k] = step[<<k, g[k - 1]>>]
      <4>1. CASE k = n + 1
        <5>1. k - 1 = n /\ n \in 0 .. n + 1 /\ n # n + 1
          BY <4>1
        <5>2. g[n] = f[n] /\ g[k] = step[<<k, f[n]>>]
          BY <4>1, <5>1
        <5> QED
          BY <5>1, <5>2
      <4>2. CASE k \in 1 .. n
        BY <4>2, <3>1
      <4> QED
        BY <4>1, <4>2
    <3>5. Follows(g, n + 1)
      BY <3>2, <3>3, <3>4
    <3>6. \E h : Follows(h, n + 1)
      BY <3>5
    <3> QED
      BY <3>6 DEF S
  <2> HIDE DEF S
  <2>3. S \in SUBSET Nat
    BY DEF S
  <2> QED
    BY <2>1, <2>2, <2>3, NatSetInduction
<1>2. U = Nat
  <2>1. 0 \in U
    OBVIOUS
  <2>2. ASSUME NEW n \in U PROVE n + 1 \in U
    <3>n. n \in Nat
      BY <2>2
    <3> USE <3>n
    <3> SUFFICES ASSUME NEW f, NEW g, Follows(f, n + 1), Follows(g, n + 1)
                 PROVE  f[n + 1] = g[n + 1]
      OBVIOUS
    <3> DEFINE f1 == [k \in 0 .. n |-> f[k]]
               g1 == [k \in 0 .. n |-> g[k]]
    <3>1. Follows(f1, n) /\ Follows(g1, n)
      OBVIOUS
    <3>2. f1[n] = g1[n]
      <4> HIDE DEF Follows, f1, g1
      <4> QED
        BY <2>2, <3>1
    <3>3. f[n] = g[n]
      BY <3>2
    <3>4. (n + 1) - 1 = n /\ n + 1 \in 1 .. n + 1
      OBVIOUS
    <3> QED
      BY <3>3, <3>4
  <2> HIDE DEF U
  <2>3. U \in SUBSET Nat
    BY DEF U
  <2> QED
    BY <2>1, <2>2, <2>3, NatSetInduction
<1> DEFINE h(n) == CHOOSE f : Follows(f, n)
           f == [n \in Nat |-> h(n)[n]]
<1>3. \A n \in Nat : Follows(h(n), n)
  <2>1. \A n \in Nat : \E g : Follows(g, n)
    BY <1>1
  <2> HIDE DEF Follows
  <2> QED
    BY <2>1
<1> HIDE DEF h
<1>4. f \in [Nat -> D]
  BY <1>3
<1>5. f[0] = base
  BY <1>3
<1>6. ASSUME NEW n \in Nat \ {0} PROVE f[n] = step[<<n, f[n - 1]>>]
  <2>0. n - 1 \in Nat
    OBVIOUS
  <2>1. Follows(h(n), n) /\ Follows(h(n - 1), n - 1)
    BY <1>3, <2>0, Zenon
  <2> DEFINE g1 == [k \in 0 .. n - 1 |-> h(n)[k]]
  <2>2. Follows(g1, n - 1)
    BY <2>1
  <2>3. g1[n - 1] = h(n - 1)[n - 1]
    <3>1. n - 1 \in U
      BY <1>2, <2>0
    <3> HIDE DEF Follows, g1
    <3> QED
      BY <2>1, <2>2, <3>1
  <2>4. h(n)[n - 1] = h(n - 1)[n - 1]
    BY <2>0, <2>3
  <2>5. n \in 1 .. n
    OBVIOUS
  <2>6. h(n)[n] = step[<<n, h(n)[n - 1]>>]
    BY <2>1, <2>5
  <2> QED
    BY <2>0, <2>4, <2>6
<1>7. Recurs(f, base, step)
  <2> HIDE DEF f
  <2> QED
    BY <1>5, <1>6 DEF Recurs
<1> QED
  BY <1>4, <1>7

-----------------------------------------------------------------------------
(* Sums.                                                                   *)

\* What the recursive function of SumTo is.
PartialSums(f, n, s) ==
    s = [k \in 0 .. n |-> IF k = 0 THEN 0 ELSE s[k - 1] + f[k]]

\* There is such a function.
LEMMA PartialSumsExist ==
    ASSUME NEW f, NEW n \in Nat, \A i \in 1 .. n : f[i] \in Nat
    PROVE  \E s \in [0 .. n -> Nat] : PartialSums(f, n, s)
<1> DEFINE step == [p \in Nat \X Nat |-> IF p[1] \in 1 .. n THEN p[2] + f[p[1]] ELSE p[2]]
<1>1. step \in [Nat \X Nat -> Nat]
  OBVIOUS
<1>2. \A k \in 1 .. n, x \in Nat : step[<<k, x>>] = x + f[k]
  OBVIOUS
<1> HIDE DEF step
<1>3. PICK g \in [Nat -> Nat] : Recurs(g, 0, step)
  BY <1>1, NatRecursion
<1>3a. g[0] = 0 /\ \A k \in Nat \ {0} : g[k] = step[<<k, g[k - 1]>>]
  BY <1>3 DEF Recurs
<1> DEFINE s == [k \in 0 .. n |-> g[k]]
<1>4. s \in [0 .. n -> Nat]
  BY <1>3
<1>5. \A k \in 0 .. n : s[k] = IF k = 0 THEN 0 ELSE s[k - 1] + f[k]
  <2> TAKE k \in 0 .. n
  <2>1. CASE k = 0
    BY <1>3a, <2>1
  <2>2. CASE k # 0
    <3>1. k \in 1 .. n /\ k \in Nat \ {0} /\ k - 1 \in 0 .. n /\ k - 1 \in Nat
      BY <2>2
    <3>2. g[k] = step[<<k, g[k - 1]>>]
      BY <1>3a, <3>1
    <3>3. g[k - 1] \in Nat
      BY <3>1
    <3>4. g[k] = g[k - 1] + f[k]
      BY <1>2, <3>1, <3>2, <3>3
    <3> QED
      BY <2>2, <3>1, <3>4
  <2> QED
    BY <2>1, <2>2
<1> DEFINE t == [k \in 0 .. n |-> IF k = 0 THEN 0 ELSE s[k - 1] + f[k]]
<1>6. DOMAIN s = DOMAIN t
  OBVIOUS
<1>7. s = t
  BY <1>5, <1>6
<1> HIDE DEF s
<1> QED
  BY <1>4, <1>7 DEF PartialSums

\* The sums of the first values.
LEMMA SumChoice ==
    ASSUME NEW f, NEW n \in Nat, \A i \in 1 .. n : f[i] \in Nat
    PROVE  \E s \in [0 .. n -> Nat] :
              /\ s[0] = 0
              /\ \A k \in 1 .. n : s[k] = s[k - 1] + f[k]
              /\ SumTo(f, n) = s[n]
<1> DEFINE s == CHOOSE s : PartialSums(f, n, s)
<1>1. PartialSums(f, n, s)
  BY PartialSumsExist
<1>2. SumTo(f, n) = s[n]
  BY DEF SumTo, PartialSums
<1> HIDE DEF s
<1>3. s[0] = 0 /\ \A k \in 1 .. n : s[k] = s[k - 1] + f[k]
  BY <1>1 DEF PartialSums
<1>4. \A k \in 0 .. n : s[k] \in Nat
  <2> DEFINE S == {k \in Nat : k <= n => s[k] \in Nat}
  <2>1. 0 \in S
    BY <1>3
  <2>2. \A k \in S : k + 1 \in S
    <3> SUFFICES ASSUME NEW k \in Nat, k <= n => s[k] \in Nat, k + 1 <= n
                 PROVE  s[k + 1] \in Nat
      OBVIOUS
    <3>1. k + 1 \in 1 .. n /\ (k + 1) - 1 = k
      OBVIOUS
    <3> QED
      BY <1>3, <3>1
  <2> HIDE DEF S
  <2>3. S = Nat
    BY <2>1, <2>2, NatSetInduction DEF S
  <2> QED
    BY <2>3 DEF S
<1>5. s \in [0 .. n -> Nat]
  BY <1>1, <1>4 DEF PartialSums
<1> QED
  BY <1>2, <1>3, <1>5

\* Sums are natural numbers; the empty sum is zero.
LEMMA SumType ==
    ASSUME NEW f, NEW n \in Nat, \A i \in 1 .. n : f[i] \in Nat
    PROVE  SumTo(f, n) \in Nat
BY SumChoice

\* The sum of no values.
LEMMA SumZero == ASSUME NEW f PROVE SumTo(f, 0) = 0
BY SumChoice

\* Equal values, equal sums.
LEMMA SumEqual ==
    ASSUME NEW f, NEW g, NEW n \in Nat,
           \A i \in 1 .. n : f[i] \in Nat /\ f[i] = g[i]
    PROVE  SumTo(f, n) = SumTo(g, n)
<1>1. PICK s \in [0 .. n -> Nat] :
              /\ s[0] = 0
              /\ \A k \in 1 .. n : s[k] = s[k - 1] + f[k]
              /\ SumTo(f, n) = s[n]
  BY SumChoice
<1>2. PICK t \in [0 .. n -> Nat] :
              /\ t[0] = 0
              /\ \A k \in 1 .. n : t[k] = t[k - 1] + g[k]
              /\ SumTo(g, n) = t[n]
  BY SumChoice
<1> DEFINE S == {k \in Nat : k <= n => s[k] = t[k]}
<1>3. 0 \in S
  BY <1>1, <1>2
<1>4. \A k \in S : k + 1 \in S
  <2> SUFFICES ASSUME NEW k \in Nat, k <= n => s[k] = t[k], k + 1 <= n
               PROVE  s[k + 1] = t[k + 1]
    OBVIOUS
  <2>1. k + 1 \in 1 .. n /\ (k + 1) - 1 = k
    OBVIOUS
  <2> QED
    BY <1>1, <1>2, <2>1
<1> HIDE DEF S
<1>5. S = Nat
  BY <1>3, <1>4, NatSetInduction DEF S
<1>6. s[n] = t[n]
  BY <1>5 DEF S
<1> QED
  BY <1>1, <1>2, <1>6

\* One more value.
LEMMA SumStep ==
    ASSUME NEW f, NEW n \in Nat, \A i \in 1 .. n + 1 : f[i] \in Nat
    PROVE  SumTo(f, n + 1) = SumTo(f, n) + f[n + 1]
<1>0. n + 1 \in Nat /\ \A i \in 1 .. n : f[i] \in Nat
  OBVIOUS
<1>1. PICK s \in [0 .. n + 1 -> Nat] :
              /\ s[0] = 0
              /\ \A k \in 1 .. n + 1 : s[k] = s[k - 1] + f[k]
              /\ SumTo(f, n + 1) = s[n + 1]
  BY <1>0, SumChoice
<1>2. PICK t \in [0 .. n -> Nat] :
              /\ t[0] = 0
              /\ \A k \in 1 .. n : t[k] = t[k - 1] + f[k]
              /\ SumTo(f, n) = t[n]
  BY <1>0, SumChoice
<1> DEFINE S == {k \in Nat : k <= n => s[k] = t[k]}
<1>3. 0 \in S
  BY <1>1, <1>2
<1>4. \A k \in S : k + 1 \in S
  <2> SUFFICES ASSUME NEW k \in Nat, k <= n => s[k] = t[k], k + 1 <= n
               PROVE  s[k + 1] = t[k + 1]
    OBVIOUS
  <2>1. k + 1 \in 1 .. n /\ (k + 1) - 1 = k
    OBVIOUS
  <2> QED
    BY <1>1, <1>2, <2>1
<1> HIDE DEF S
<1>5. S = Nat
  BY <1>3, <1>4, NatSetInduction DEF S
<1>6. s[n] = t[n] /\ n + 1 \in 1 .. n + 1 /\ (n + 1) - 1 = n
  BY <1>5 DEF S
<1> QED
  BY <1>1, <1>2, <1>6

\* Sums are added value by value.
LEMMA SumAdd ==
    ASSUME NEW f, NEW g, NEW h, NEW n \in Nat,
           \A i \in 1 .. n : f[i] \in Nat /\ g[i] \in Nat /\ h[i] = f[i] + g[i]
    PROVE  SumTo(h, n) = SumTo(f, n) + SumTo(g, n)
<1> DEFINE S == {k \in Nat : k <= n => SumTo(h, k) = SumTo(f, k) + SumTo(g, k)}
<1>1. 0 \in S
  BY SumZero
<1>2. \A k \in S : k + 1 \in S
  <2> SUFFICES ASSUME NEW k \in Nat, k <= n => SumTo(h, k) = SumTo(f, k) + SumTo(g, k), k + 1 <= n
               PROVE  SumTo(h, k + 1) = SumTo(f, k + 1) + SumTo(g, k + 1)
    OBVIOUS
  <2>1. \A i \in 1 .. k + 1 : i \in 1 .. n
    OBVIOUS
  <2>2. \A i \in 1 .. k + 1 : f[i] \in Nat /\ g[i] \in Nat /\ h[i] = f[i] + g[i] /\ h[i] \in Nat
    BY <2>1
  <2>3. /\ SumTo(f, k + 1) = SumTo(f, k) + f[k + 1]
        /\ SumTo(g, k + 1) = SumTo(g, k) + g[k + 1]
        /\ SumTo(h, k + 1) = SumTo(h, k) + h[k + 1]
    BY <2>2, SumStep
  <2>4. SumTo(f, k) \in Nat /\ SumTo(g, k) \in Nat
    BY <2>2, SumType
  <2>5. h[k + 1] = f[k + 1] + g[k + 1] /\ f[k + 1] \in Nat /\ g[k + 1] \in Nat
    BY <2>2
  <2> QED
    BY <2>3, <2>4, <2>5
<1> HIDE DEF S
<1>3. S = Nat
  BY <1>1, <1>2, NatSetInduction DEF S
<1> QED
  BY <1>3 DEF S

\* h is the m numbers of f, then the n numbers of g.
Joins(f, m, g, n, h) ==
    /\ \A i \in 1 .. m : f[i] \in Nat /\ h[i] = f[i]
    /\ \A i \in 1 .. n : g[i] \in Nat /\ h[m + i] = g[i]

\* The sum of one list after another.
LEMMA SumConcat ==
    ASSUME NEW f, NEW g, NEW h, NEW m \in Nat, NEW n \in Nat, Joins(f, m, g, n, h)
    PROVE  SumTo(h, m + n) = SumTo(f, m) + SumTo(g, n)
<1>a. \A i \in 1 .. m : f[i] \in Nat /\ h[i] = f[i]
  BY DEF Joins
<1>b. \A i \in 1 .. n : g[i] \in Nat /\ h[m + i] = g[i]
  BY DEF Joins
<1> USE <1>a, <1>b
<1> DEFINE S == {k \in Nat : k <= n => SumTo(h, m + k) = SumTo(f, m) + SumTo(g, k)}
<1>0. SumTo(f, m) \in Nat
  BY SumType
<1>1. 0 \in S
  <2>1. SumTo(h, m) = SumTo(f, m)
    BY SumEqual
  <2>2. SumTo(g, 0) = 0
    BY SumZero
  <2> QED
    BY <1>0, <2>1, <2>2
<1>2. \A k \in S : k + 1 \in S
  <2> SUFFICES ASSUME NEW k \in Nat, k <= n => SumTo(h, m + k) = SumTo(f, m) + SumTo(g, k), k + 1 <= n
               PROVE  SumTo(h, m + (k + 1)) = SumTo(f, m) + SumTo(g, k + 1)
    OBVIOUS
  <2>1. \A i \in 1 .. (m + k) + 1 : h[i] \in Nat
    <3> TAKE i \in 1 .. (m + k) + 1
    <3>1. CASE i <= m
      BY <3>1
    <3>2. CASE i > m
      <4>1. i - m \in 1 .. n /\ m + (i - m) = i
        BY <3>2
      <4> QED
        BY <4>1
    <3> QED
      BY <3>1, <3>2
  <2>2. SumTo(h, (m + k) + 1) = SumTo(h, m + k) + h[(m + k) + 1]
    BY <2>1, SumStep, m + k \in Nat
  <2>3. \A i \in 1 .. k + 1 : g[i] \in Nat
    OBVIOUS
  <2>4. SumTo(g, k + 1) = SumTo(g, k) + g[k + 1] /\ SumTo(g, k) \in Nat
    BY <2>3, SumStep, SumType
  <2>5. h[m + (k + 1)] = g[k + 1] /\ g[k + 1] \in Nat
    BY k + 1 \in 1 .. n
  <2>6. (m + k) + 1 = m + (k + 1)
    OBVIOUS
  <2> QED
    BY <1>0, <2>2, <2>4, <2>5, <2>6
<1> HIDE DEF S
<1>3. S = Nat
  BY <1>1, <1>2, NatSetInduction DEF S
<1> QED
  BY <1>3 DEF S

\* A list of zeros, and a list with one value at most.
LEMMA SumOfZeros ==
    ASSUME NEW f, NEW n \in Nat, \A i \in 1 .. n : f[i] = 0
    PROVE  SumTo(f, n) = 0
<1>1. SumTo(f, n) \in Nat
  BY SumType
<1>2. SumTo(f, n) = SumTo(f, n) + SumTo(f, n)
  <2>1. \A i \in 1 .. n : f[i] \in Nat /\ f[i] \in Nat /\ f[i] = f[i] + f[i]
    OBVIOUS
  <2> QED
    BY <2>1, SumAdd
<1> DEFINE x == SumTo(f, n)
<1>3. x \in Nat /\ x = x + x
  BY <1>1, <1>2
<1> HIDE DEF x
<1>4. x = 0
  BY <1>3
<1> QED
  BY <1>4 DEF x

\* Only one value counts.
LEMMA SumOfOne ==
    ASSUME NEW f, NEW n \in Nat, NEW j \in 1 .. n, f[j] \in Nat,
           \A i \in 1 .. n : i # j => f[i] = 0
    PROVE  SumTo(f, n) = f[j]
<1> DEFINE S == {k \in Nat : k <= n => SumTo(f, k) = IF j <= k THEN f[j] ELSE 0}
<1>1. 0 \in S
  BY SumZero
<1>2. \A k \in S : k + 1 \in S
  <2> SUFFICES ASSUME NEW k \in Nat, k <= n => SumTo(f, k) = (IF j <= k THEN f[j] ELSE 0),
                      k + 1 <= n
               PROVE  SumTo(f, k + 1) = IF j <= k + 1 THEN f[j] ELSE 0
    OBVIOUS
  <2>1. \A i \in 1 .. k + 1 : f[i] \in Nat
    OBVIOUS
  <2>2. SumTo(f, k + 1) = SumTo(f, k) + f[k + 1]
    BY <2>1, SumStep
  <2>3. CASE j = k + 1
    BY <2>2, <2>3
  <2>4. CASE j # k + 1
    <3>1. f[k + 1] = 0 /\ (j <= k + 1 <=> j <= k)
      BY <2>4
    <3> QED
      BY <2>2, <3>1
  <2> QED
    BY <2>3, <2>4
<1> HIDE DEF S
<1>3. S = Nat
  BY <1>1, <1>2, NatSetInduction DEF S
<1>4. SumTo(f, n) = IF j <= n THEN f[j] ELSE 0
  BY <1>3 DEF S
<1> QED
  BY <1>4

\* A value that is left out, and what it is worth.
LEMMA SumWithout ==
    ASSUME NEW f, NEW h, NEW n \in Nat, NEW j \in 1 .. n,
           \A i \in 1 .. n : f[i] \in Nat /\ h[i] = IF i = j THEN 0 ELSE f[i]
    PROVE  SumTo(f, n) = SumTo(h, n) + f[j]
<1> DEFINE g == [i \in 1 .. n |-> IF i = j THEN f[j] ELSE 0]
<1>1. \A i \in 1 .. n : g[i] \in Nat /\ h[i] \in Nat /\ f[i] = h[i] + g[i]
  OBVIOUS
<1>2. g[j] = f[j] /\ g[j] \in Nat /\ \A i \in 1 .. n : i # j => g[i] = 0
  OBVIOUS
<1> HIDE DEF g
<1>3. SumTo(f, n) = SumTo(h, n) + SumTo(g, n)
  BY <1>1, SumAdd
<1>4. SumTo(g, n) = g[j]
  BY <1>2, SumOfOne
<1> QED
  BY <1>2, <1>3, <1>4

\* No value is more than the sum.
LEMMA SumBounds ==
    ASSUME NEW f, NEW n \in Nat, NEW j \in 1 .. n, \A i \in 1 .. n : f[i] \in Nat
    PROVE  f[j] <= SumTo(f, n)
<1> DEFINE h == [i \in 1 .. n |-> IF i = j THEN 0 ELSE f[i]]
<1>1. \A i \in 1 .. n : f[i] \in Nat /\ h[i] = (IF i = j THEN 0 ELSE f[i]) /\ h[i] \in Nat
  OBVIOUS
<1> HIDE DEF h
<1>2. SumTo(f, n) = SumTo(h, n) + f[j]
  BY <1>1, SumWithout
<1>3. SumTo(h, n) \in Nat
  BY <1>1, SumType
<1> QED
  BY <1>2, <1>3

\* h is f with zeros at the m distinct positions pos, where f has the numbers g.
TakesOut(f, n, pos, g, m, h) ==
    /\ pos \in [1 .. m -> 1 .. n]
    /\ \A i, j \in 1 .. m : pos[i] = pos[j] => i = j
    /\ \A i \in 1 .. n : /\ f[i] \in Nat
                         /\ h[i] = IF \E j \in 1 .. m : pos[j] = i THEN 0 ELSE f[i]
    /\ \A j \in 1 .. m : g[j] = f[pos[j]]

\* Values left out at distinct positions, and what they are worth together.
LEMMA SumWithoutAll ==
    ASSUME NEW f, NEW h, NEW g, NEW pos, NEW n \in Nat, NEW m \in Nat,
           TakesOut(f, n, pos, g, m, h)
    PROVE  SumTo(f, n) = SumTo(h, n) + SumTo(g, m)
<1>a. /\ pos \in [1 .. m -> 1 .. n]
      /\ \A i, j \in 1 .. m : pos[i] = pos[j] => i = j
  BY DEF TakesOut
<1>b. \A i \in 1 .. n : /\ f[i] \in Nat
                        /\ h[i] = IF \E j \in 1 .. m : pos[j] = i THEN 0 ELSE f[i]
  BY DEF TakesOut
<1>c. \A j \in 1 .. m : g[j] = f[pos[j]]
  BY DEF TakesOut
<1> USE <1>a, <1>b, <1>c
<1> DEFINE Out(k, i) == \E j \in 1 .. k : pos[j] = i
           rest == [k \in 0 .. m |-> [i \in 1 .. n |-> IF Out(k, i) THEN 0 ELSE f[i]]]
           S == {k \in Nat : k <= m => SumTo(f, n) = SumTo(rest[k], n) + SumTo(g, k)}
<1>0. \A k \in 0 .. m, i \in 1 .. n :
         rest[k][i] = (IF Out(k, i) THEN 0 ELSE f[i]) /\ rest[k][i] \in Nat
  OBVIOUS
<1> HIDE DEF rest
<1>1. 0 \in S
  <2>1. SumTo(f, n) = SumTo(rest[0], n)
    <3>1. \A i \in 1 .. n : f[i] \in Nat /\ f[i] = rest[0][i]
      BY <1>0
    <3> QED
      BY <3>1, SumEqual
  <2>2. SumTo(g, 0) = 0 /\ SumTo(rest[0], n) \in Nat
    <3>1. \A i \in 1 .. n : rest[0][i] \in Nat
      BY <1>0
    <3> QED
      BY ONLY n \in Nat, <3>1, SumZero, SumType
  <2> QED
    BY <2>1, <2>2
<1>2. \A k \in S : k + 1 \in S
  <2> SUFFICES ASSUME NEW k \in Nat, k <= m => SumTo(f, n) = SumTo(rest[k], n) + SumTo(g, k),
                      k + 1 <= m
               PROVE  SumTo(f, n) = SumTo(rest[k + 1], n) + SumTo(g, k + 1)
    OBVIOUS
  <2>1. k \in 0 .. m /\ k + 1 \in 0 .. m /\ k + 1 \in 1 .. m /\ pos[k + 1] \in 1 .. n
    OBVIOUS
  <2>2. rest[k][pos[k + 1]] = f[pos[k + 1]]
    <3>1. ~\E j \in 1 .. k : pos[j] = pos[k + 1]
      BY <2>1
    <3> QED
      BY ONLY <1>0, <2>1, <3>1
  <2>3. \A i \in 1 .. n :
           rest[k + 1][i] = IF i = pos[k + 1] THEN 0 ELSE rest[k][i]
    <3> TAKE i \in 1 .. n
    <3>1. Out(k + 1, i) <=> (i = pos[k + 1] \/ Out(k, i))
      BY <2>1
    <3> HIDE DEF Out
    <3>2. rest[k][i] = (IF Out(k, i) THEN 0 ELSE f[i])
      BY <1>0, <2>1
    <3>3. rest[k + 1][i] = (IF Out(k + 1, i) THEN 0 ELSE f[i])
      BY <1>0, <2>1
    <3> QED
      BY <3>1, <3>2, <3>3
  <2>4. SumTo(rest[k], n) = SumTo(rest[k + 1], n) + rest[k][pos[k + 1]]
    <3>1. \A i \in 1 .. n : /\ rest[k][i] \in Nat
                             /\ rest[k + 1][i] = IF i = pos[k + 1] THEN 0 ELSE rest[k][i]
      <4> HIDE DEF Out
      <4> QED
        BY <1>0, <2>1, <2>3
    <3> DEFINE a == rest[k]
               b == rest[k + 1]
               p == pos[k + 1]
    <3>2. p \in 1 .. n /\ \A i \in 1 .. n : a[i] \in Nat /\ b[i] = IF i = p THEN 0 ELSE a[i]
      BY <2>1, <3>1
    <3> HIDE DEF a, b, p
    <3>3. SumTo(a, n) = SumTo(b, n) + a[p]
      BY ONLY n \in Nat, <3>2, SumWithout
    <3> QED
      BY <3>3 DEF a, b, p
  <2>5. \A i \in 1 .. k + 1 : g[i] \in Nat
    <3> TAKE i \in 1 .. k + 1
    <3>1. i \in 1 .. m
      OBVIOUS
    <3>2. g[i] = f[pos[i]] /\ pos[i] \in 1 .. n
      BY <3>1
    <3> QED
      BY <3>2
  <2>6. SumTo(g, k + 1) = SumTo(g, k) + g[k + 1] /\ SumTo(g, k) \in Nat
    <3>1. \A i \in 1 .. k : i \in 1 .. k + 1
      OBVIOUS
    <3>2. \A i \in 1 .. k : g[i] \in Nat
      BY <2>5, <3>1, Zenon
    <3> QED
      BY <2>5, <3>2, SumStep, SumType, Zenon
  <2>7. SumTo(rest[k + 1], n) \in Nat /\ g[k + 1] = f[pos[k + 1]] /\ g[k + 1] \in Nat
    BY <1>0, <2>1, <2>5, SumType
  <2> QED
    BY <2>2, <2>4, <2>6, <2>7
<1> HIDE DEF S
<1>3. S = Nat
  BY <1>1, <1>2, NatSetInduction DEF S
<1>4. SumTo(f, n) = SumTo(rest[m], n) + SumTo(g, m)
  BY <1>3 DEF S
<1>5. SumTo(rest[m], n) = SumTo(h, n)
  <2>1. \A i \in 1 .. n : rest[m][i] \in Nat /\ rest[m][i] = h[i]
    BY <1>0
  <2> QED
    BY ONLY n \in Nat, <2>1, SumEqual
<1> QED
  BY <1>4, <1>5

-----------------------------------------------------------------------------
(* A list of lists, one after the other.                                   *)

\* What the recursive function of FlattenSeq is.
Flattens(seqs, f) ==
    f = [i \in 1 .. Len(seqs) |-> IF i = 1 THEN seqs[i] ELSE f[i - 1] \o seqs[i]]

\* There is such a function.
LEMMA FlattensExists ==
    ASSUME NEW D, NEW seqs \in Seq(Seq(D)), seqs # << >>
    PROVE  \E f : Flattens(seqs, f)
<1> DEFINE n == Len(seqs)
           step == [p \in Nat \X Seq(D) |->
                      IF p[1] \in 1 .. n
                      THEN IF p[1] = 1 THEN seqs[1] ELSE p[2] \o seqs[p[1]]
                      ELSE p[2]]
<1>0. n \in Nat /\ n >= 1 /\ \A i \in 1 .. n : seqs[i] \in Seq(D)
  OBVIOUS
<1>1. step \in [Nat \X Seq(D) -> Seq(D)]
  <2>1. ASSUME NEW k \in Nat, NEW x \in Seq(D)
        PROVE  (IF k \in 1 .. n THEN IF k = 1 THEN seqs[1] ELSE x \o seqs[k] ELSE x) \in Seq(D)
    BY <1>0
  <2> QED
    BY <2>1
<1>2. \A k \in 1 .. n, x \in Seq(D) :
         step[<<k, x>>] = IF k = 1 THEN seqs[1] ELSE x \o seqs[k]
  BY <1>0
<1> HIDE DEF step, n
<1>3. PICK g \in [Nat -> Seq(D)] : Recurs(g, << >>, step)
  <2>1. << >> \in Seq(D)
    OBVIOUS
  <2> QED
    BY <1>1, <2>1, NatRecursion
<1>4. \A k \in 1 .. n : g[k] = IF k = 1 THEN seqs[k] ELSE g[k - 1] \o seqs[k]
  <2> TAKE k \in 1 .. n
  <2>1. k \in Nat \ {0} /\ k - 1 \in Nat /\ g[k - 1] \in Seq(D)
    BY <1>0
  <2>2. g[k] = step[<<k, g[k - 1]>>]
    BY <1>3, <2>1 DEF Recurs
  <2> QED
    BY <1>2, <2>1, <2>2
<1> DEFINE f == [i \in 1 .. n |-> g[i]]
<1>5. \A i \in 1 .. n : f[i] = IF i = 1 THEN seqs[i] ELSE f[i - 1] \o seqs[i]
  <2> TAKE i \in 1 .. n
  <2>1. i # 1 => i - 1 \in 1 .. n
    BY <1>0
  <2> QED
    BY <1>4, <2>1
<1>6. f = [i \in 1 .. n |-> IF i = 1 THEN seqs[i] ELSE f[i - 1] \o seqs[i]]
  <2>1. DOMAIN f = 1 .. n
    OBVIOUS
  <2>2. f = [i \in 1 .. n |-> f[i]]
    OBVIOUS
  <2> HIDE DEF f
  <2> QED
    BY <1>5, <2>1, <2>2
<1> HIDE DEF f
<1>7. Flattens(seqs, f)
  BY <1>6 DEF Flattens, n
<1> QED
  BY <1>7

\* The concatenations of the first lists.
LEMMA FlattenChoice ==
    ASSUME NEW D, NEW seqs \in Seq(Seq(D)), seqs # << >>
    PROVE  \E f : /\ f[1] = seqs[1]
                  /\ \A i \in 1 .. Len(seqs) : i # 1 => f[i] = f[i - 1] \o seqs[i]
                  /\ \A i \in 1 .. Len(seqs) : f[i] \in Seq(D)
                  /\ FlattenSeq(seqs) = f[Len(seqs)]
<1> DEFINE f == CHOOSE f : Flattens(seqs, f)
           n == Len(seqs)
<1>0. n \in Nat /\ n >= 1 /\ \A i \in 1 .. n : seqs[i] \in Seq(D)
  OBVIOUS
<1>1. Flattens(seqs, f)
  BY FlattensExists
<1>2. FlattenSeq(seqs) = f[n]
  BY DEF FlattenSeq, Flattens
<1> HIDE DEF f
<1>3. f[1] = seqs[1] /\ \A i \in 1 .. n : i # 1 => f[i] = f[i - 1] \o seqs[i]
  <2>1. \A i \in 1 .. n : f[i] = IF i = 1 THEN seqs[i] ELSE f[i - 1] \o seqs[i]
    BY <1>1, Zenon DEF Flattens
  <2>2. 1 \in 1 .. n
    BY <1>0
  <2> HIDE DEF n
  <2> QED
    BY <2>1, <2>2
<1>4. \A i \in 1 .. n : f[i] \in Seq(D)
  <2> DEFINE S == {k \in Nat : k + 1 <= n => f[k + 1] \in Seq(D)}
  <2>1. 0 \in S
    BY <1>0, <1>3
  <2>2. \A k \in S : k + 1 \in S
    <3> SUFFICES ASSUME NEW k \in Nat, k + 1 <= n => f[k + 1] \in Seq(D), (k + 1) + 1 <= n
                 PROVE  f[(k + 1) + 1] \in Seq(D)
      OBVIOUS
    <3>1. /\ (k + 1) + 1 \in 1 .. n /\ (k + 1) + 1 # 1 /\ ((k + 1) + 1) - 1 = k + 1
          /\ k + 1 <= n
      BY <1>0
    <3>2. f[(k + 1) + 1] = f[k + 1] \o seqs[(k + 1) + 1]
      BY <1>3, <3>1
    <3> QED
      BY <1>0, <3>1, <3>2
  <2> HIDE DEF S
  <2>3. S = Nat
    BY <2>1, <2>2, NatSetInduction DEF S
  <2> TAKE i \in 1 .. n
  <2>4. i - 1 \in S /\ (i - 1) + 1 = i
    BY <1>0, <2>3
  <2> QED
    BY <2>4 DEF S
<1> QED
  BY <1>2, <1>3, <1>4

\* Nothing, and one more list at the end.
LEMMA FlattenEmpty == FlattenSeq(<< >>) = << >>
BY DEF FlattenSeq

\* The concatenation is a list of the same elements.
LEMMA FlattenType ==
    ASSUME NEW D, NEW seqs \in Seq(Seq(D))
    PROVE  FlattenSeq(seqs) \in Seq(D)
<1>1. CASE seqs = << >>
  <2>1. << >> \in Seq(D)
    OBVIOUS
  <2> QED
    BY <1>1, <2>1, FlattenEmpty, Zenon
<1>2. CASE seqs # << >>
  <2>1. Len(seqs) \in 1 .. Len(seqs)
    BY <1>2
  <2> QED
    BY <1>2, <2>1, FlattenChoice
<1> QED
  BY <1>1, <1>2

\* One more list goes to the end.
LEMMA FlattenAppend ==
    ASSUME NEW D, NEW seqs \in Seq(Seq(D)), NEW s \in Seq(D)
    PROVE  FlattenSeq(Append(seqs, s)) = FlattenSeq(seqs) \o s
<1> DEFINE n == Len(seqs)
           more == Append(seqs, s)
<1> DEFINE L == Seq(D)
<1> HIDE DEF L
<1>a. seqs \in Seq(L) /\ s \in L
  BY DEF L
<1>b. /\ n \in Nat /\ more \in Seq(L) /\ Len(more) = n + 1 /\ more # << >>
      /\ more[n + 1] = s /\ \A i \in 1 .. n : more[i] = seqs[i]
  BY ONLY <1>a
<1>0. /\ n \in Nat /\ more \in Seq(Seq(D)) /\ Len(more) = n + 1 /\ more # << >>
      /\ more[n + 1] = s /\ \A i \in 1 .. n : more[i] = seqs[i]
  BY <1>b DEF L
<1> HIDE DEF more, n
<1>1. PICK g : /\ g[1] = more[1]
               /\ \A i \in 1 .. n + 1 : i # 1 => g[i] = g[i - 1] \o more[i]
               /\ FlattenSeq(more) = g[n + 1]
  <2>1. PICK g : /\ g[1] = more[1]
                 /\ \A i \in 1 .. Len(more) : i # 1 => g[i] = g[i - 1] \o more[i]
                 /\ FlattenSeq(more) = g[Len(more)]
    BY <1>0, FlattenChoice
  <2> QED
    BY <1>0, <2>1, Zenon
<1>2. CASE seqs = << >>
  <2>1. n = 0
    BY <1>2 DEF n
  <2>2. FlattenSeq(more) = s
    BY <1>0, <1>1, <2>1
  <2>3. << >> \o s = s
    OBVIOUS
  <2> QED
    BY <1>2, <2>2, <2>3, FlattenEmpty, Zenon DEF more
<1>3. CASE seqs # << >>
  <2>0. n >= 1
    BY <1>3 DEF n
  <2>1. PICK f : /\ f[1] = seqs[1]
                 /\ \A i \in 1 .. n : i # 1 => f[i] = f[i - 1] \o seqs[i]
                 /\ FlattenSeq(seqs) = f[n]
    BY <1>3, FlattenChoice DEF n
  <2> DEFINE S == {k \in Nat : k + 1 <= n => f[k + 1] = g[k + 1]}
  <2>2. 0 \in S
    BY <1>0, <1>1, <2>0, <2>1
  <2>3. \A k \in S : k + 1 \in S
    <3> TAKE k \in S
    <3>0. k \in Nat /\ k + 1 \in Nat /\ (k + 1 <= n => f[k + 1] = g[k + 1])
      OBVIOUS
    <3> SUFFICES ASSUME (k + 1) + 1 <= n PROVE f[(k + 1) + 1] = g[(k + 1) + 1]
      BY <3>0, Zenon
    <3>1. /\ (k + 1) + 1 \in 1 .. n /\ (k + 1) + 1 \in 1 .. n + 1
          /\ (k + 1) + 1 # 1 /\ ((k + 1) + 1) - 1 = k + 1
          /\ k + 1 <= n
      BY <1>0, <3>0
    <3>2. f[(k + 1) + 1] = f[k + 1] \o seqs[(k + 1) + 1]
      BY <2>1, <3>1
    <3>3. g[(k + 1) + 1] = g[k + 1] \o more[(k + 1) + 1]
      BY <1>1, <3>1
    <3> QED
      BY <1>0, <3>0, <3>1, <3>2, <3>3
  <2> HIDE DEF S
  <2>4. S = Nat
    BY <2>2, <2>3, NatSetInduction DEF S
  <2>5. n - 1 \in S /\ (n - 1) + 1 = n
    BY <1>0, <2>0, <2>4
  <2>6. f[n] = g[n]
    BY <2>5 DEF S
  <2>7. g[n + 1] = g[n] \o more[n + 1]
    <3>1. n + 1 \in 1 .. n + 1 /\ n + 1 # 1 /\ (n + 1) - 1 = n
      BY <1>0, <2>0
    <3> QED
      BY <1>1, <3>1
  <2> QED
    BY <1>0, <1>1, <2>1, <2>6, <2>7 DEF more
<1> QED
  BY <1>0, <1>2, <1>3 DEF more

-----------------------------------------------------------------------------
(* Lists.                                                                  *)

\* A list of at least two items without its second.
LEMMA WithoutSecond ==
    ASSUME NEW S, NEW s \in Seq(S), Len(s) >= 2
    PROVE  /\ RemoveAt(s, 2) \in Seq(S)
           /\ Len(RemoveAt(s, 2)) = Len(s) - 1
           /\ \A i \in 1 .. Len(s) - 1 :
                 RemoveAt(s, 2)[i] = IF i = 1 THEN s[1] ELSE s[i + 1]
<1> DEFINE a == SubSeq(s, 1, 1)
           b == SubSeq(s, 3, Len(s))
<1>1. RemoveAt(s, 2) = a \o b
  BY DEF RemoveAt
<1>0. Len(s) \in Nat /\ \A i \in 1 .. Len(s) : s[i] \in S
  OBVIOUS
<1>2. a \in Seq(S) /\ Len(a) = 1 /\ a[1] = s[1]
  <2>1. \A i \in 1 .. 1 : s[i] \in S
    BY <1>0
  <2> QED
    BY <2>1, SubSeqProperties
<1>3. b \in Seq(S) /\ Len(b) = Len(s) - 2 /\ \A i \in 1 .. Len(s) - 2 : b[i] = s[i + 2]
  <2> DEFINE n == Len(s)
  <2>0. n \in Nat /\ n >= 2
    BY <1>0
  <2> HIDE DEF n
  <2>1. \A i \in 3 .. n : s[i] \in S
    BY <1>0, <2>0 DEF n
  <2>2. /\ SubSeq(s, 3, n) \in Seq(S)
        /\ Len(SubSeq(s, 3, n)) = IF 3 <= n THEN n - 3 + 1 ELSE 0
        /\ \A i \in 1 .. n - 3 + 1 : SubSeq(s, 3, n)[i] = s[3 + i - 1]
    BY ONLY <2>0, <2>1, SubSeqProperties
  <2>3. Len(SubSeq(s, 3, n)) = n - 2
    BY <2>0, <2>2
  <2>4. ASSUME NEW i \in 1 .. n - 2 PROVE SubSeq(s, 3, n)[i] = s[i + 2]
    <3>1. 3 + i - 1 = i + 2 /\ i \in 1 .. n - 3 + 1
      BY <2>0
    <3> QED
      BY <2>2, <3>1
  <2> QED
    BY <2>2, <2>3, <2>4 DEF n
<1> HIDE DEF a, b
<1>4. /\ a \o b \in Seq(S) /\ Len(a \o b) = Len(s) - 1
      /\ \A i \in 1 .. Len(s) - 1 : (a \o b)[i] = IF i = 1 THEN s[1] ELSE s[i + 1]
  <2>0. /\ a \o b \in Seq(S) /\ Len(a \o b) = Len(a) + Len(b)
        /\ \A i \in 1 .. Len(a) + Len(b) :
              (a \o b)[i] = IF i <= Len(a) THEN a[i] ELSE b[i - Len(a)]
    BY ONLY <1>2, <1>3, ConcatProperties
  <2>1. a \o b \in Seq(S) /\ Len(a \o b) = Len(s) - 1
    BY <1>0, <1>2, <1>3, <2>0
  <2>2. ASSUME NEW i \in 1 .. Len(s) - 1
        PROVE  (a \o b)[i] = IF i = 1 THEN s[1] ELSE s[i + 1]
    <3>1. CASE i = 1
      BY <1>0, <1>2, <1>3, <2>0, <3>1
    <3>2. CASE i # 1
      <4>1. i - 1 \in 1 .. Len(s) - 2 /\ (i - 1) + 2 = i + 1
        BY <1>0, <3>2
      <4>2. (a \o b)[i] = b[i - 1]
        BY <1>0, <1>2, <1>3, <2>0, <3>2
      <4> QED
        BY <1>3, <3>2, <4>1, <4>2
    <3> QED
      BY <3>1, <3>2
  <2> QED
    BY <2>1, <2>2
<1> QED
  BY <1>1, <1>4

(***************************************************************************)
(* The elements of the lists are elements of their concatenation; when it  *)
(* has no repetitions, an element occurs once in one list.                 *)
(***************************************************************************)
Apart(seqs) ==
    \A n, m \in 1 .. Len(seqs) : \A i \in 1 .. Len(seqs[n]), j \in 1 .. Len(seqs[m]) :
        seqs[n][i] = seqs[m][j] => n = m /\ i = j

Gathered(seqs, flat) ==
    \A n \in 1 .. Len(seqs) : \A i \in 1 .. Len(seqs[n]) :
        \E p \in 1 .. Len(flat) : flat[p] = seqs[n][i]

Distinct(flat) == \A p, q \in 1 .. Len(flat) : flat[p] = flat[q] => p = q

\* One more list.
LEMMA ApartAppend ==
    ASSUME NEW D, NEW seqs \in Seq(Seq(D)), NEW s \in Seq(D), NEW flat \in Seq(D),
           Gathered(seqs, flat), Distinct(flat) => Apart(seqs)
    PROVE  /\ Gathered(Append(seqs, s), flat \o s)
           /\ Distinct(flat \o s) => Apart(Append(seqs, s))
<1> DEFINE k == Len(seqs)
           f == Len(flat)
           more == Append(seqs, s)
           long == flat \o s
           L == Seq(D)
<1> HIDE DEF L
<1>a. seqs \in Seq(L) /\ s \in L
  BY DEF L
<1>b. /\ k \in Nat /\ Len(more) = k + 1 /\ more[k + 1] = s
      /\ \A n \in 1 .. k : more[n] = seqs[n]
  BY ONLY <1>a
<1>c. /\ f \in Nat /\ Len(s) \in Nat /\ Len(long) = f + Len(s)
      /\ \A p \in 1 .. f : long[p] = flat[p]
      /\ \A i \in 1 .. Len(s) : f + i \in 1 .. f + Len(s) /\ long[f + i] = s[i]
  <2>1. /\ f \in Nat /\ Len(s) \in Nat /\ Len(long) = f + Len(s)
        /\ \A p \in 1 .. f + Len(s) : long[p] = IF p <= f THEN flat[p] ELSE s[p - f]
    OBVIOUS
  <2>2. ASSUME NEW i \in 1 .. Len(s)
        PROVE  f + i \in 1 .. f + Len(s) /\ ~(f + i <= f) /\ (f + i) - f = i
    BY <2>1
  <2> HIDE DEF long, f
  <2> QED
    BY <2>1, <2>2
<1>d. /\ \A n \in 1 .. k : \A i \in 1 .. Len(seqs[n]) :
            \E p \in 1 .. f : flat[p] = seqs[n][i]
  BY DEF Gathered
<1> HIDE DEF k, f, more, long
<1>1. ASSUME NEW n \in 1 .. k, NEW i \in 1 .. Len(more[n])
      PROVE  \E p \in 1 .. f : long[p] = more[n][i]
  <2>1. more[n] = seqs[n] /\ i \in 1 .. Len(seqs[n])
    BY <1>1, <1>b
  <2>2. PICK p \in 1 .. f : flat[p] = seqs[n][i]
    BY <1>d, <2>1
  <2> QED
    BY <1>c, <2>1, <2>2
<1>2. Gathered(more, long)
  <2>1. ASSUME NEW n \in 1 .. k + 1, NEW i \in 1 .. Len(more[n])
        PROVE  \E p \in 1 .. f + Len(s) : long[p] = more[n][i]
    <3>1. CASE n = k + 1
      BY <1>b, <1>c, <3>1
    <3>2. CASE n # k + 1
      <4>1. n \in 1 .. k
        BY <1>b, <3>2
      <4>2. PICK p \in 1 .. f : long[p] = more[n][i]
        BY <1>1, <4>1
      <4>3. p \in 1 .. f + Len(s)
        BY <1>c
      <4> QED
        BY <4>2, <4>3
    <3> QED
      BY <3>1, <3>2
  <2> QED
    BY <1>b, <1>c, <2>1 DEF Gathered
<1>3. ASSUME Distinct(long) PROVE Apart(more)
  <2>1. \A p, q \in 1 .. f + Len(s) : long[p] = long[q] => p = q
    BY <1>3, <1>c DEF Distinct
  <2>2. Distinct(flat)
    <3>1. \A p \in 1 .. f : p \in 1 .. f + Len(s)
      BY <1>c
    <3> QED
      BY <1>c, <2>1, <3>1 DEF Distinct, f
  <2>3. \A n, m \in 1 .. k : \A i \in 1 .. Len(seqs[n]), j \in 1 .. Len(seqs[m]) :
           seqs[n][i] = seqs[m][j] => n = m /\ i = j
    BY <2>2 DEF Apart, k
  <2>4. ASSUME NEW n \in 1 .. k, NEW i \in 1 .. Len(more[n]), NEW j \in 1 .. Len(s),
               more[n][i] = s[j]
        PROVE  FALSE
    <3>1. PICK p \in 1 .. f : long[p] = more[n][i]
      BY <1>1
    <3>2. long[f + j] = s[j] /\ f + j \in 1 .. f + Len(s) /\ p \in 1 .. f + Len(s) /\ p # f + j
      BY <1>c
    <3> QED
      BY <2>1, <2>4, <3>1, <3>2
  <2>5. ASSUME NEW n \in 1 .. k + 1, NEW m \in 1 .. k + 1, NEW i \in 1 .. Len(more[n]),
               NEW j \in 1 .. Len(more[m]), more[n][i] = more[m][j]
        PROVE  n = m /\ i = j
    <3>0. (n = k + 1 \/ n \in 1 .. k) /\ (m = k + 1 \/ m \in 1 .. k)
      BY <1>b
    <3>1. CASE n = k + 1 /\ m = k + 1
      <4>1. i \in 1 .. Len(s) /\ j \in 1 .. Len(s) /\ s[i] = s[j]
        BY <1>b, <2>5, <3>1
      <4>2. /\ long[f + i] = s[i] /\ f + i \in 1 .. f + Len(s)
            /\ long[f + j] = s[j] /\ f + j \in 1 .. f + Len(s)
        BY <1>c, <4>1
      <4>3. f + i = f + j
        BY <2>1, <4>1, <4>2
      <4>4. i = j
        BY <1>c, <4>1, <4>3
      <4> QED
        BY <3>1, <4>4
    <3>2. CASE n \in 1 .. k /\ m \in 1 .. k
      BY <1>b, <2>3, <2>5, <3>2
    <3>3. CASE n = k + 1 /\ m \in 1 .. k
      BY <1>b, <2>4, <2>5, <3>3
    <3>4. CASE n \in 1 .. k /\ m = k + 1
      BY <1>b, <2>4, <2>5, <3>4
    <3> QED
      BY <3>0, <3>1, <3>2, <3>3, <3>4
  <2> QED
    BY <1>b, <2>5 DEF Apart
<1> QED
  BY <1>2, <1>3 DEF more, long

\* So it is for every list of lists.
LEMMA FlattenApart ==
    ASSUME NEW D, NEW seqs \in Seq(Seq(D))
    PROVE  Gathered(seqs, FlattenSeq(seqs)) /\ (Distinct(FlattenSeq(seqs)) => Apart(seqs))
<1> DEFINE Holds(q) == Gathered(q, FlattenSeq(q)) /\ (Distinct(FlattenSeq(q)) => Apart(q))
           S == {k \in Nat : \A q \in Seq(Seq(D)) : Len(q) = k => Holds(q)}
<1>1. 0 \in S
  BY DEF Gathered, Apart
<1>2. \A k \in S : k + 1 \in S
  <2> SUFFICES ASSUME NEW k \in Nat, \A q \in Seq(Seq(D)) : Len(q) = k => Holds(q),
                      NEW q \in Seq(Seq(D)), Len(q) = k + 1
               PROVE  Holds(q)
    OBVIOUS
  <2>1. q # << >>
    OBVIOUS
  <2> DEFINE L == Seq(D)
  <2> HIDE DEF L
  <2>1a. q \in Seq(L)
    BY DEF L
  <2>2. PICK r \in Seq(L), s \in L : q = Append(r, s)
    BY <2>1, <2>1a, SequenceEmptyOrAppend
  <2>3. Len(q) = Len(r) + 1 /\ Len(r) \in Nat
    BY ONLY <2>2
  <2>4. r \in Seq(Seq(D)) /\ s \in Seq(D) /\ Len(r) = k
    BY <2>2, <2>3 DEF L
  <2>5. Holds(r)
    BY <2>4
  <2>6. FlattenSeq(q) = FlattenSeq(r) \o s /\ FlattenSeq(r) \in Seq(D)
    BY <2>2, <2>4, FlattenAppend, FlattenType
  <2> QED
    BY <2>2, <2>4, <2>5, <2>6, ApartAppend
<1> HIDE DEF S
<1>3. S = Nat
  BY <1>1, <1>2, NatSetInduction DEF S
<1>4. Len(seqs) \in Nat
  OBVIOUS
<1> QED
  BY <1>3, <1>4 DEF S
=============================================================================
