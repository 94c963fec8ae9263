--------------------------- MODULE Totals_proofs ---------------------------
(***************************************************************************)
(* What a sum over a sequence of keys is and keeps.  Induction is over     *)
(* sets of numbers: a set that has 0 and is closed under successor has     *)
(* them all, because its complement would have a least member.             *)
(***************************************************************************)
EXTENDS Totals, WellFoundedInduction, TLAPS

Below == {ss \in Nat \X Nat : ss[1] < ss[2]}

\* A set of numbers that has 0, and n + 1 with every n, is all of Nat.
LEMMA SetInduction ==
    ASSUME NEW S, S \subseteq Nat, 0 \in S, \A n \in S : n + 1 \in S
    PROVE  \A n \in Nat : n \in S
<1> DEFINE T == Nat \ S
<1>1. SUFFICES ASSUME T # {} PROVE FALSE
  OBVIOUS
<1>2. PICK x \in T : \A y \in T : ~(<<y, x>> \in Below)
  <2>1. T \subseteq Nat
    OBVIOUS
  <2>2. IsWellFoundedOn(Below, Nat)
    BY NatLessThanWellFounded DEF OpToRel, Below
  <2> QED BY <1>1, <2>1, <2>2, WFMin, Zenon
<1>3. x \in Nat /\ x # 0
  OBVIOUS
<1>4. x - 1 \in Nat /\ x - 1 < x /\ x = (x - 1) + 1
  BY <1>3
<1>5. <<x - 1, x>> \in Below
  BY <1>3, <1>4 DEF Below
<1>6. x - 1 \in S
  BY <1>2, <1>4, <1>5
<1> QED BY <1>4, <1>6

-----------------------------------------------------------------------------
(* A function defined by its value at 0 and from each value to the next.   *)

Iterated(s, first, step, n) ==
    /\ s \in [0 .. n -> Int]
    /\ s[0] = first
    /\ \A i \in 1 .. n : s[i] = step[i][s[i - 1]]

\* There is one.
LEMMA IteratedExists ==
    ASSUME NEW first \in Int, NEW N \in Nat, NEW step \in [1 .. N -> [Int -> Int]]
    PROVE  \A n \in 0 .. N : \E s : Iterated(s, first, step, n)
<1> DEFINE S == {n \in Nat : n <= N => \E s : Iterated(s, first, step, n)}
<1>1. 0 \in S
  <2>1. Iterated([i \in 0 .. 0 |-> first], first, step, 0)
    BY DEF Iterated
  <2> QED BY <2>1
<1>2. ASSUME NEW n \in S PROVE n + 1 \in S
  <2>1. SUFFICES ASSUME n + 1 <= N PROVE \E s : Iterated(s, first, step, n + 1)
    OBVIOUS
  <2>2. PICK s : Iterated(s, first, step, n)
    BY <2>1
  <2> DEFINE t == [i \in 0 .. n + 1 |-> IF i <= n THEN s[i] ELSE step[n + 1][s[n]]]
  <2>3. s[n] \in Int
    BY <2>2 DEF Iterated
  <2>4. step[n + 1][s[n]] \in Int
    BY <2>1, <2>3
  <2>5. t \in [0 .. n + 1 -> Int]
    BY <2>2, <2>4 DEF Iterated
  <2>6. t[0] = first
    BY <2>2 DEF Iterated
  <2>7. ASSUME NEW i \in 1 .. n + 1 PROVE t[i] = step[i][t[i - 1]]
    <3>1. CASE i <= n
      BY <3>1, <2>2 DEF Iterated
    <3>2. CASE i = n + 1
      <4>1. t[i - 1] = s[n]
        BY <3>2
      <4>2. t[i] = step[n + 1][s[n]]
        BY <3>2
      <4> QED BY <3>2, <4>1, <4>2
    <3> QED BY <3>1, <3>2
  <2>8. Iterated(t, first, step, n + 1)
    BY <2>5, <2>6, <2>7 DEF Iterated
  <2> QED BY <2>8
<1>3. \A n \in Nat : n \in S
  <2>1. S \subseteq Nat
    OBVIOUS
  <2> HIDE DEF S
  <2> QED BY <1>1, <1>2, <2>1, SetInduction
<1>4. \A n \in Nat : n <= N => \E s : Iterated(s, first, step, n)
  <2>1. ASSUME NEW n \in Nat, n <= N PROVE \E s : Iterated(s, first, step, n)
    <3>1. n \in S
      BY <1>3, Zenon
    <3> QED BY <2>1, <3>1, Zenon
  <2> QED BY <2>1, Zenon
<1> HIDE DEF S
<1>5. \A n \in 0 .. N : n \in Nat /\ n <= N
  OBVIOUS
<1> QED BY <1>4, <1>5, Zenon

\* What makes it one: each value follows from the last if that is a number.
LEMMA IteratedIf ==
    ASSUME NEW first \in Int, NEW N \in Nat, NEW step \in [1 .. N -> [Int -> Int]],
           NEW R, NEW p \in [0 .. N -> R], p[0] = first,
           \A i \in 1 .. N : p[i - 1] \in Int => p[i] = step[i][p[i - 1]]
    PROVE  Iterated(p, first, step, N)
<1> DEFINE S == {n \in Nat : n <= N => p[n] \in Int}
<1>1. 0 \in S
  OBVIOUS
<1>2. ASSUME NEW n \in S PROVE n + 1 \in S
  <2>1. CASE n + 1 <= N
    <3>1. p[n] \in Int /\ n + 1 \in 1 .. N
      BY <2>1
    <3>2. p[n + 1] = step[n + 1][p[n]]
      BY <3>1
    <3> QED BY <3>1, <3>2
  <2> QED BY <2>1
<1>3. \A n \in Nat : n \in S
  <2>1. S \subseteq Nat
    OBVIOUS
  <2> HIDE DEF S
  <2> QED BY <1>1, <1>2, <2>1, SetInduction
<1>4. \A n \in 0 .. N : p[n] \in Int
  BY <1>3
<1>5. p \in [0 .. N -> Int]
  BY <1>4
<1>6. ASSUME NEW i \in 1 .. N PROVE p[i] = step[i][p[i - 1]]
  <2>1. i - 1 \in 0 .. N
    OBVIOUS
  <2> QED BY <1>4, <2>1
<1> QED BY <1>5, <1>6 DEF Iterated

-----------------------------------------------------------------------------
(* Sums.                                                                   *)

\* The values of f that a sum over keys adds up.
Addends(f, keys, T) == \A i \in 1 .. Len(keys) : f[keys[i]] \in T

\* The partial sums start at 0 and each adds one value.
LEMMA PartialIs ==
    ASSUME NEW keys, Len(keys) \in Nat, NEW f, Addends(f, keys, Int)
    PROVE  /\ Partial(f, keys) \in [0 .. Len(keys) -> Int]
           /\ Partial(f, keys)[0] = 0
           /\ \A i \in 1 .. Len(keys) : Partial(f, keys)[i] = Partial(f, keys)[i - 1] + f[keys[i]]
<1> DEFINE N == Len(keys)
           step == [i \in 1 .. N |-> [v \in Int |-> v + f[keys[i]]]]
           Body(t) == [n \in 0 .. N |-> IF n = 0 THEN 0 ELSE t[n - 1] + f[keys[n]]]
           p == Partial(f, keys)
<1>1. step \in [1 .. N -> [Int -> Int]]
  BY DEF Addends
<1>2. PICK s : Iterated(s, 0, step, N)
  <2>1. N \in 0 .. N
    OBVIOUS
  <2> HIDE DEF step, N
  <2>2. N \in Nat
    BY DEF N
  <2>3. \A n \in 0 .. N : \E s : Iterated(s, 0, step, n)
    <3>1. 0 \in Int
      OBVIOUS
    <3> QED BY <1>1, <2>2, <3>1, IteratedExists, Zenon
  <2> QED BY <2>1, <2>3, Zenon
<1>3. s = Body(s)
  <2>1. ASSUME NEW i \in 1 .. N PROVE s[i] = s[i - 1] + f[keys[i]]
    <3>1. s[i] = step[i][s[i - 1]]
      <4> HIDE DEF step
      <4> QED BY <1>2 DEF Iterated
    <3>2. s[i - 1] \in Int
      <4> HIDE DEF step
      <4>1. i - 1 \in 0 .. N
        OBVIOUS
      <4> QED BY <1>2, <4>1 DEF Iterated
    <3> QED BY <3>1, <3>2
  <2> HIDE DEF step
  <2> QED BY <2>1, <1>2 DEF Iterated
<1>4. p = Body(p)
  <2>1. p = CHOOSE t : t = Body(t)
    BY DEF Partial
  <2> HIDE DEF Body, p
  <2> QED BY <1>3, <2>1
<1>5. p \in [0 .. N -> {p[n] : n \in 0 .. N}] /\ p[0] = 0
  BY <1>4
<1>6. ASSUME NEW i \in 1 .. N PROVE p[i] = p[i - 1] + f[keys[i]]
  <2>1. i \in 0 .. N /\ i # 0
    OBVIOUS
  <2>2. Body(p)[i] = p[i - 1] + f[keys[i]]
    BY <2>1
  <2> HIDE DEF Body, p
  <2> QED BY <1>4, <2>2
<1>7. ASSUME NEW i \in 1 .. N, p[i - 1] \in Int PROVE p[i] = step[i][p[i - 1]]
  <2> HIDE DEF p
  <2> QED BY <1>6, <1>7
<1>8. Iterated(p, 0, step, N)
  <2> HIDE DEF step, p, N
  <2>1. N \in Nat
    BY DEF N
  <2>2. 0 \in Int
    OBVIOUS
  <2>3. \A i \in 1 .. N : p[i - 1] \in Int => p[i] = step[i][p[i - 1]]
    BY <1>7, Zenon
  <2> QED BY <1>1, <1>5, <2>1, <2>2, <2>3, IteratedIf, Zenon
<1> QED BY <1>6, <1>8 DEF Iterated

\* A sum of whole numbers is one.
LEMMA TotalInt ==
    ASSUME NEW keys, Len(keys) \in Nat, NEW f, Addends(f, keys, Int)
    PROVE  Total(f, keys) \in Int
<1>1. Len(keys) \in 0 .. Len(keys)
  OBVIOUS
<1> QED BY <1>1, PartialIs DEF Total

\* What starts at zero and keeps to a relation step by step holds of the sum:
\* a sum of f with each value at most g's is at most that of g, and less when
\* one value is less.
LEMMA TotalAtMost ==
    ASSUME NEW keys, Len(keys) \in Nat, NEW f, NEW g,
           Addends(f, keys, Int), Addends(g, keys, Int),
           \A i \in 1 .. Len(keys) : f[keys[i]] <= g[keys[i]]
    PROVE  /\ Total(f, keys) <= Total(g, keys)
           /\ (\E i \in 1 .. Len(keys) : f[keys[i]] < g[keys[i]])
                 => Total(f, keys) < Total(g, keys)
<1> DEFINE N == Len(keys)
           p == Partial(f, keys)
           q == Partial(g, keys)
           less(n) == \E i \in 1 .. N : i <= n /\ f[keys[i]] < g[keys[i]]
           S == {n \in Nat : n <= N => p[n] <= q[n] /\ (less(n) => p[n] < q[n])}
<1>1. /\ p \in [0 .. N -> Int] /\ p[0] = 0
      /\ \A i \in 1 .. N : p[i] = p[i - 1] + f[keys[i]]
      /\ q \in [0 .. N -> Int] /\ q[0] = 0
      /\ \A i \in 1 .. N : q[i] = q[i - 1] + g[keys[i]]
  BY PartialIs
<1> HIDE DEF p, q
<1>2. 0 \in S
  BY <1>1
<1>3. ASSUME NEW n \in S PROVE n + 1 \in S
  <2>1. CASE n + 1 <= N
    <3>1. n + 1 \in 1 .. N /\ (n + 1) - 1 = n
      BY <2>1
    <3> DEFINE a == f[keys[n + 1]]
               b == g[keys[n + 1]]
    <3>2. a \in Int /\ b \in Int /\ a <= b
      BY <3>1 DEF Addends
    <3>3. p[n + 1] = p[n] + a /\ q[n + 1] = q[n] + b
      BY <1>1, <3>1
    <3>4. p[n] \in Int /\ q[n] \in Int /\ n \in Nat
      BY <1>1, <2>1
    <3>5. p[n] <= q[n] /\ (less(n) => p[n] < q[n])
      BY <2>1
    <3>6. less(n + 1) => less(n) \/ a < b
      <4> HIDE DEF N
      <4> QED BY <3>4
    <3> HIDE DEF a, b, less
    <3> QED BY <3>2, <3>3, <3>4, <3>5, <3>6
  <2> QED BY <2>1
<1>4. \A n \in Nat : n \in S
  <2>1. S \subseteq Nat
    OBVIOUS
  <2> HIDE DEF S
  <2> QED BY <1>2, <1>3, <2>1, SetInduction
<1>5. p[N] <= q[N] /\ (less(N) => p[N] < q[N])
  <2> HIDE DEF less
  <2> QED BY <1>4
<1>6. (\E i \in 1 .. N : f[keys[i]] < g[keys[i]]) => less(N)
  OBVIOUS
<1> QED BY <1>5, <1>6 DEF Total, p, q

\* A common factor comes out of a sum.
LEMMA TotalScaled ==
    ASSUME NEW keys, Len(keys) \in Nat, NEW f, NEW g, NEW c \in Int,
           Addends(f, keys, Int),
           \A i \in 1 .. Len(keys) : g[keys[i]] = c * f[keys[i]]
    PROVE  Total(g, keys) = c * Total(f, keys)
<1> DEFINE N == Len(keys)
           p == Partial(f, keys)
           q == Partial(g, keys)
           S == {n \in Nat : n <= N => q[n] = c * p[n]}
<1>1. Addends(g, keys, Int)
  BY DEF Addends
<1>2. /\ p \in [0 .. N -> Int] /\ p[0] = 0
      /\ \A i \in 1 .. N : p[i] = p[i - 1] + f[keys[i]]
      /\ q[0] = 0
      /\ \A i \in 1 .. N : q[i] = q[i - 1] + g[keys[i]]
  BY <1>1, PartialIs
<1> HIDE DEF p, q
<1>3. 0 \in S
  BY <1>2
<1>4. ASSUME NEW n \in S PROVE n + 1 \in S
  <2>1. CASE n + 1 <= N
    <3>1. n + 1 \in 1 .. N /\ (n + 1) - 1 = n
      BY <2>1
    <3> DEFINE a == f[keys[n + 1]]
    <3>2. a \in Int /\ g[keys[n + 1]] = c * a
      BY <3>1 DEF Addends
    <3>3. p[n + 1] = p[n] + a /\ q[n + 1] = q[n] + c * a
      BY <1>2, <3>1, <3>2
    <3>4. p[n] \in Int /\ q[n] = c * p[n]
      BY <1>2, <2>1
    <3> HIDE DEF a
    <3>5. c * (p[n] + a) = c * p[n] + c * a
      BY <3>2, <3>4
    <3> QED BY <3>3, <3>4, <3>5
  <2> QED BY <2>1
<1>5. \A n \in Nat : n \in S
  <2>1. S \subseteq Nat
    OBVIOUS
  <2> HIDE DEF S
  <2> QED BY <1>3, <1>4, <2>1, SetInduction
<1> QED BY <1>5 DEF Total, p, q

\* A sum of zeros is zero.
LEMMA TotalOfZeros ==
    ASSUME NEW keys, Len(keys) \in Nat, NEW f, \A i \in 1 .. Len(keys) : f[keys[i]] = 0
    PROVE  Total(f, keys) = 0
<1>1. Addends(f, keys, Int)
  BY DEF Addends
<1>2. Total(f, keys) = 0 * Total(f, keys)
  <2>1. \A i \in 1 .. Len(keys) : f[keys[i]] = 0 * f[keys[i]]
    OBVIOUS
  <2>2. 0 \in Int
    OBVIOUS
  <2> QED BY <1>1, <2>1, <2>2, TotalScaled, Zenon
<1> QED BY <1>1, <1>2, TotalInt
=============================================================================
