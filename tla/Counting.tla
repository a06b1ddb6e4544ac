------------------------------ MODULE Counting ------------------------------
(***************************************************************************)
(* Induction over the numbers up to a bound, in a form that speaks of a    *)
(* set of numbers. The theorems about recursive functions rest on it: that *)
(* the recursion has a solution, and what the solution is.                 *)
(***************************************************************************)
EXTENDS Naturals, WellFoundedInduction, TLAPS

\* A set of numbers has a least one.
LEMMA Least ==
    ASSUME NEW S \in SUBSET Nat, S # {}
    PROVE  \E x \in S : \A y \in S : x <= y
<1>1. PICK x \in S : \A y \in S : ~(<<y, x>> \in OpToRel(<, Nat))
  BY NatLessThanWellFounded, WFMin
<1>2. ASSUME NEW y \in S, y < x PROVE FALSE
  <2>1. <<y, x>> \in OpToRel(<, Nat)
    BY <1>2 DEF OpToRel
  <2>. QED BY <1>1, <2>1
<1>. QED BY <1>2

\* What holds of 0, and of n + 1 if it does of n, holds of the numbers to m.
LEMMA CountUp ==
    ASSUME NEW m \in Nat, NEW S \in SUBSET Nat, 0 \in S, \A n \in S : n < m => n + 1 \in S
    PROVE  m \in S
<1>1. SUFFICES ASSUME (0..m) \ S # {} PROVE FALSE
  OBVIOUS
<1>2. PICK x \in (0..m) \ S : \A y \in (0..m) \ S : x <= y
  <2>1. (0..m) \ S \in SUBSET Nat
    OBVIOUS
  <2>. QED BY <1>1, <2>1, Least
<1>3. x # 0 /\ x - 1 \in 0..m /\ x - 1 \notin (0..m) \ S
  BY <1>2
<1>. QED BY <1>2, <1>3

(***************************************************************************)
(* A function from D to V defined by recursion: its value at x is base[x], *)
(* or step[x] of its value at next[x], which lies below x in some measure  *)
(* with a bound.                                                           *)
(***************************************************************************)
Recursive(D, V, top, measure, stop, base, next, step) ==
    /\ top \in Nat /\ measure \in [D -> 0..top]
    /\ stop \in SUBSET D /\ base \in [D -> V]
    /\ next \in [D -> D] /\ step \in [D -> [V -> V]]
    /\ \A x \in D \ stop : measure[next[x]] < measure[x]

\* There is such a function.
LEMMA Recursion ==
    ASSUME NEW D, NEW V, NEW top, NEW measure, NEW stop, NEW base, NEW next, NEW step,
           Recursive(D, V, top, measure, stop, base, next, step)
    PROVE  \E f \in [D -> V] :
              \A x \in D : f[x] = IF x \in stop THEN base[x] ELSE step[x][f[next[x]]]
<1>0. /\ top \in Nat /\ measure \in [D -> 0..top]
      /\ stop \in SUBSET D /\ base \in [D -> V]
      /\ next \in [D -> D] /\ step \in [D -> [V -> V]]
      /\ \A x \in D \ stop : measure[next[x]] < measure[x]
  BY DEF Recursive
<1>. USE <1>0
<1> DEFINE To(f, m) == \A x \in D : measure[x] < m =>
                          f[x] = IF x \in stop THEN base[x] ELSE step[x][f[next[x]]]
           S == {m \in Nat : \E f \in [D -> V] : To(f, m)}
<1>1. 0 \in S
  <2>1. To(base, 0)
    OBVIOUS
  <2>. QED BY <2>1
<1>2. ASSUME NEW m \in S, m < top + 1 PROVE m + 1 \in S
  <2>1. PICK f \in [D -> V] : To(f, m)
    OBVIOUS
  <2> DEFINE g == [x \in D |-> IF x \in stop THEN base[x]
                               ELSE IF measure[x] = m THEN step[x][f[next[x]]] ELSE f[x]]
  <2>2. g \in [D -> V]
    OBVIOUS
  <2>3. ASSUME NEW x \in D, measure[x] < m + 1
        PROVE  g[x] = IF x \in stop THEN base[x] ELSE step[x][g[next[x]]]
    <3>1. CASE x \in stop
      BY <3>1
    <3>2. CASE x \notin stop
      <4> DEFINE y == next[x]
      <4>1. y \in D /\ measure[y] < m
        <5>1. /\ y \in D /\ measure[y] < measure[x]
              /\ measure[x] \in Nat /\ measure[y] \in Nat /\ m \in Nat
          BY <3>2
        <5>. HIDE DEF y
        <5>. QED BY <2>3, <5>1
      <4>2. g[y] = f[y]
        <5>1. measure[y] # m
          BY <4>1
        <5>2. y \notin stop => g[y] = f[y]
          BY <4>1, <5>1
        <5>3. y \in stop => g[y] = base[y] /\ f[y] = base[y]
          BY <2>1, <4>1
        <5>. QED BY <5>2, <5>3
      <4>3. g[x] = step[x][f[y]]
        <5>1. measure[x] = m \/ measure[x] < m
          <6> DEFINE k == measure[x]
          <6>1. k \in Nat /\ m \in Nat /\ k < m + 1
            BY <2>3
          <6>. HIDE DEF k
          <6>2. k = m \/ k < m
            BY <6>1
          <6>. QED BY <6>2 DEF k
        <5>2. measure[x] < m => f[x] = step[x][f[y]]
          BY <2>1, <3>2
        <5>3. g[x] = IF measure[x] = m THEN step[x][f[y]] ELSE f[x]
          BY <3>2
        <5>. HIDE DEF g, y
        <5>. QED BY <5>1, <5>2, <5>3
      <4>. QED BY <3>2, <4>2, <4>3
    <3>. QED BY <3>1, <3>2
  <2>4. To(g, m + 1)
    BY <2>3
  <2>. HIDE DEF g, To
  <2>. QED BY <2>2, <2>4
<1>3. top + 1 \in S
  <2>1. S \in SUBSET Nat
    OBVIOUS
  <2>. HIDE DEF S
  <2>. QED BY <1>1, <1>2, <2>1, CountUp
<1>4. PICK f \in [D -> V] : To(f, top + 1)
  BY <1>3
<1>5. \A x \in D : measure[x] < top + 1
  OBVIOUS
<1>. QED BY <1>4, <1>5

\* n steps from a value of V.
Steps(n, V, first, step) == n \in Nat /\ first \in V /\ step \in [1..n -> [V -> V]]

\* Taken upwards from 0, and downwards from n + 1.
LEMMA StepsUp ==
    ASSUME NEW n, NEW V, NEW first, NEW step, Steps(n, V, first, step)
    PROVE  \E f \in [0..n -> V] : f[0] = first /\ \A k \in 1..n : f[k] = step[k][f[k - 1]]
<1> DEFINE D == 0..n
           base == [k \in D |-> first]
           next == [k \in D |-> IF k = 0 THEN 0 ELSE k - 1]
           over == [k \in D |-> IF k = 0 THEN [v \in V |-> v] ELSE step[k]]
           measure == [k \in D |-> k]
<1>1. n \in Nat /\ first \in V /\ step \in [1..n -> [V -> V]]
  BY DEF Steps
<1>2. measure \in [D -> 0..n] /\ {0} \in SUBSET D /\ base \in [D -> V]
  BY <1>1
<1>3. next \in [D -> D] /\ \A k \in D \ {0} : measure[next[k]] < measure[k]
  BY <1>1
<1>4. over \in [D -> [V -> V]]
  <2>1. ASSUME NEW k \in D PROVE (IF k = 0 THEN [v \in V |-> v] ELSE step[k]) \in [V -> V]
    BY <1>1
  <2>. QED BY <2>1
<1>5. Recursive(D, V, n, measure, {0}, base, next, over)
  <2>. HIDE DEF D, base, next, over, measure
  <2>. QED BY <1>1, <1>2, <1>3, <1>4 DEF Recursive
<1>6. PICK f \in [D -> V] :
        \A k \in D : f[k] = IF k \in {0} THEN base[k] ELSE over[k][f[next[k]]]
  <2>. HIDE DEF D, base, next, over, measure
  <2>. QED BY <1>5, Recursion
<1>7. f[0] = first
  BY <1>1, <1>6
<1>8. ASSUME NEW k \in 1..n PROVE f[k] = step[k][f[k - 1]]
  <2>1. k \in D /\ k # 0
    BY <1>1
  <2>2. over[k] = step[k] /\ next[k] = k - 1
    BY <2>1
  <2>. QED BY <1>6, <2>1, <2>2
<1>. QED BY <1>6, <1>7, <1>8

\* The same for a recursion that counts down from n.
LEMMA StepsDown ==
    ASSUME NEW n, NEW V, NEW first, NEW step, Steps(n, V, first, step)
    PROVE  \E f \in [1..(n + 1) -> V] :
              f[n + 1] = first /\ \A k \in 1..n : f[k] = step[k][f[k + 1]]
<1> DEFINE turned == [k \in 1..n |-> step[n + 1 - k]]
<1>1. n \in Nat /\ first \in V /\ step \in [1..n -> [V -> V]]
  BY DEF Steps
<1>2. Steps(n, V, first, turned)
  <2>1. \A k \in 1..n : n + 1 - k \in 1..n
    BY <1>1
  <2>2. turned \in [1..n -> [V -> V]]
    BY <1>1, <2>1
  <2>. QED BY <1>1, <2>2 DEF Steps
<1>3. PICK g \in [0..n -> V] : g[0] = first /\ \A k \in 1..n : g[k] = turned[k][g[k - 1]]
  <2>. HIDE DEF turned
  <2>. QED BY <1>2, StepsUp
<1> DEFINE f == [k \in 1..(n + 1) |-> g[n + 1 - k]]
<1>4. f \in [1..(n + 1) -> V]
  <2>1. \A k \in 1..(n + 1) : n + 1 - k \in 0..n
    BY <1>1
  <2>. QED BY <1>3, <2>1
<1>5. f[n + 1] = first
  BY <1>1, <1>3
<1>6. ASSUME NEW k \in 1..n PROVE f[k] = step[k][f[k + 1]]
  <2>1. /\ k \in 1..(n + 1) /\ k + 1 \in 1..(n + 1) /\ n + 1 - k \in 1..n
        /\ n + 1 - (n + 1 - k) = k /\ n + 1 - (k + 1) = (n + 1 - k) - 1
    BY <1>1
  <2>2. f[k] = g[n + 1 - k] /\ f[k + 1] = g[(n + 1 - k) - 1]
    BY <2>1
  <2>3. turned[n + 1 - k] = step[k]
    BY <2>1
  <2>. QED BY <1>3, <2>1, <2>2, <2>3
<1>. QED BY <1>4, <1>5, <1>6

\* A function that takes these steps wherever it has a value of V has one everywhere.
LEMMA UpInRange ==
    ASSUME NEW n, NEW V, NEW first, NEW step, Steps(n, V, first, step), NEW f, f[0] = first,
           \A k \in 1..n : f[k - 1] \in V => f[k] = step[k][f[k - 1]]
    PROVE  \A k \in 0..n : f[k] \in V
<1>1. n \in Nat /\ first \in V /\ step \in [1..n -> [V -> V]]
  BY DEF Steps
<1>. SUFFICES ASSUME NEW k \in 0..n PROVE f[k] \in V
  OBVIOUS
<1> DEFINE S == {m \in Nat : m <= n => f[m] \in V}
<1>2. 0 \in S
  BY <1>1
<1>3. ASSUME NEW m \in S, m < k PROVE m + 1 \in S
  <2>1. m \in Nat /\ m + 1 \in 1..n /\ m <= n /\ (m + 1) - 1 = m
    BY <1>1, <1>3
  <2>2. f[m + 1] = step[m + 1][f[m]] /\ f[m] \in V
    BY <2>1
  <2>. QED BY <1>1, <2>1, <2>2
<1>4. k \in Nat /\ S \in SUBSET Nat
  BY <1>1
<1>5. k \in S
  <2>. HIDE DEF S
  <2>. QED BY <1>2, <1>3, <1>4, CountUp
<1>. QED BY <1>1, <1>5

\* And for its range.
LEMMA DownInRange ==
    ASSUME NEW n, NEW V, NEW first, NEW step, Steps(n, V, first, step), NEW f,
           f[n + 1] = first,
           \A k \in 1..n : f[k + 1] \in V => f[k] = step[k][f[k + 1]]
    PROVE  \A k \in 1..(n + 1) : f[k] \in V
<1>1. n \in Nat /\ first \in V /\ step \in [1..n -> [V -> V]]
  BY DEF Steps
<1>. SUFFICES ASSUME NEW k \in 1..(n + 1) PROVE f[k] \in V
  OBVIOUS
<1> DEFINE S == {m \in Nat : m <= n => f[n + 1 - m] \in V}
           j == n + 1 - k
<1>2. 0 \in S
  BY <1>1
<1>3. ASSUME NEW m \in S, m < j PROVE m + 1 \in S
  <2> DEFINE i == n + 1 - (m + 1)
  <2>1. m \in Nat /\ i \in 1..n /\ m <= n /\ i + 1 = n + 1 - m
    BY <1>1, <1>3
  <2>2. f[n + 1 - m] \in V
    BY <2>1
  <2>3. f[i] = step[i][f[i + 1]] /\ f[i + 1] \in V
    BY <2>1, <2>2
  <2>. QED BY <1>1, <2>1, <2>3
<1>4. j \in Nat /\ j <= n /\ n + 1 - j = k /\ S \in SUBSET Nat
  BY <1>1
<1>5. j \in S
  <2>. HIDE DEF S
  <2>. QED BY <1>2, <1>3, <1>4, CountUp
<1>. QED BY <1>1, <1>4, <1>5

=============================================================================
