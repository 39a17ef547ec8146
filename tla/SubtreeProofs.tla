--------------------------- MODULE SubtreeProofs ---------------------------
(***************************************************************************)
(* The subtree arithmetic in W-bit words is that of the draft over the     *)
(* unbounded integers, for every W: which intervals are subtrees, and that *)
(* two subtrees cover an interval tightly.  Then what the draft defines by *)
(* recursion from the top of a subtree, its hash and the path of an entry, *)
(* is computed from the bottom, node by node, as the code does; and so is  *)
(* what a consistency proof and its verification are made of.              *)
(***************************************************************************)
EXTENDS MerkleReference, WellFoundedInduction, TLAPS

\* A set that has 0, and with a number the next one, has every number.
LEMMA NatInductionOnSets ==
    ASSUME NEW S, 0 \in S, \A n \in Nat : n \in S => n + 1 \in S
    PROVE  Nat \subseteq S
  <1> DEFINE T == Nat \ S
  <1>1. ASSUME T # {} PROVE FALSE
    <2>1. T \subseteq Nat
      OBVIOUS
    <2>2. PICK x \in T : \A y \in T : <<y, x>> \notin OpToRel(<, Nat)
      BY <1>1, <2>1, NatLessThanWellFounded, WFMin
    <2>3. x \in Nat /\ x \notin S /\ x # 0
      OBVIOUS
    <2>4. x - 1 \in Nat /\ (x - 1) + 1 = x
      BY <2>3
    <2>5. x - 1 \in T
      BY <2>3, <2>4
    <2>6. <<x - 1, x>> \in OpToRel(<, Nat)
      BY <2>3, <2>4 DEF OpToRel
    <2> QED
      BY <2>2, <2>5, <2>6
  <1> QED
    BY <1>1

\* The values for 0, .., n of a function that is defined by recursion, in which
\* every number is led back to a smaller one, p[k].
IsInitialPart(T, a, p, G, f, n) ==
    /\ f \in [0 .. n -> T]
    /\ f[0] = a
    /\ \A k \in 1 .. n : f[k] = G[<<k, f[p[k]]>>]

IsRecursive(T, a, p, G, f) ==
    /\ f \in [Nat -> T]
    /\ f[0] = a
    /\ \A n \in Nat \ {0} : f[n] = G[<<n, f[p[n]]>>]

\* A recursion in which every number is led back to a smaller one has a solution.
LEMMA RecursionExists ==
    ASSUME NEW T, NEW a \in T, NEW p \in [Nat -> Nat], NEW G \in [Nat \X T -> T],
           \A n \in Nat : n # 0 => p[n] < n
    PROVE  \E f : IsRecursive(T, a, p, G, f)
  <1> DEFINE Part(f, n) == IsInitialPart(T, a, p, G, f, n)
  <1> HIDE DEF Part
  <1>1. ASSUME NEW m \in Nat, NEW n \in Nat, NEW g, NEW h, Part(g, m), Part(h, n)
        PROVE  \A k \in Nat : k <= m /\ k <= n => g[k] = h[k]
    <2> DEFINE S == {k \in Nat : \A j \in 0 .. k : j <= m /\ j <= n => g[j] = h[j]}
    <2>1. 0 \in S
      <3>1. 0 \in 0 .. m /\ 0 \in 0 .. n
        OBVIOUS
      <3>2. g[0] = a /\ h[0] = a
        BY <1>1, Zenon DEF Part, IsInitialPart
      <3> QED
        BY <3>2
    <2>2. ASSUME NEW k \in Nat, k \in S
          PROVE  k + 1 \in S
      <3>1. ASSUME NEW j \in 0 .. k + 1, j <= m, j <= n
            PROVE  g[j] = h[j]
        <4>1. CASE j <= k
          BY <2>2, <3>1, <4>1
        <4>2. CASE j = k + 1
          <5>1. j # 0 /\ j \in 1 .. m /\ j \in 1 .. n /\ j \in Nat
            BY <3>1, <4>2
          <5>2. p[j] < j /\ p[j] \in Nat
            BY <5>1
          <5>3. g[p[j]] = h[p[j]]
            BY <2>2, <3>1, <4>2, <5>2
          <5>4. g[j] = G[<<j, g[p[j]]>>] /\ h[j] = G[<<j, h[p[j]]>>]
            BY <1>1, <5>1 DEF Part, IsInitialPart
          <5> QED
            BY <5>3, <5>4
        <4> QED
          BY <4>1, <4>2
      <3> QED
        BY <3>1
    <2> HIDE DEF S
    <2>3. Nat \subseteq S
      BY <2>1, <2>2, NatInductionOnSets
    <2> QED
      BY <2>3 DEF S
  <1>2. \A n \in Nat : \E g : Part(g, n)
    <2> DEFINE S == {n \in Nat : \E g : Part(g, n)}
    <2>1. 0 \in S
      <3> DEFINE g == [k \in 0 .. 0 |-> a]
      <3>1. g \in [0 .. 0 -> T] /\ g[0] = a
        OBVIOUS
      <3>2. Part(g, 0)
        BY <3>1 DEF Part, IsInitialPart
      <3> QED
        BY <3>2
    <2>2. ASSUME NEW n \in Nat, n \in S
          PROVE  n + 1 \in S
      <3>1. PICK g : Part(g, n)
        BY <2>2
      <3> DEFINE h == [k \in 0 .. n + 1 |-> IF k <= n THEN g[k] ELSE G[<<n + 1, g[p[n + 1]]>>]]
      <3>2. p[n + 1] \in 0 .. n /\ n + 1 \in Nat
        OBVIOUS
      <3>3. /\ g \in [0 .. n -> T] /\ g[0] = a
            /\ \A k \in 1 .. n : g[k] = G[<<k, g[p[k]]>>]
        BY <3>1 DEF Part, IsInitialPart
      <3>4. G[<<n + 1, g[p[n + 1]]>>] \in T
        <4>1. <<n + 1, g[p[n + 1]]>> \in Nat \X T
          BY <3>2, <3>3
        <4> QED
          BY <4>1
      <3>5. h \in [0 .. n + 1 -> T]
        <4>1. \A k \in 0 .. n + 1 : k <= n => k \in 0 .. n
          OBVIOUS
        <4>2. \A k \in 0 .. n + 1 : (IF k <= n THEN g[k] ELSE G[<<n + 1, g[p[n + 1]]>>]) \in T
          <5>1. \A k \in 0 .. n : g[k] \in T
            BY <3>3
          <5> TAKE k \in 0 .. n + 1
          <5>2. CASE k <= n
            BY <4>1, <5>1, <5>2
          <5>3. CASE ~(k <= n)
            BY <3>4, <5>3
          <5> QED
            BY <5>2, <5>3
        <4> QED
          BY <4>2
      <3>6. h[0] = a
        BY <3>3
      <3>7. ASSUME NEW k \in 1 .. n + 1
            PROVE  h[k] = G[<<k, h[p[k]]>>]
        <4>1. p[k] \in 0 .. n /\ k \in 0 .. n + 1
          OBVIOUS
        <4>2. h[p[k]] = g[p[k]]
          BY <4>1
        <4>3. CASE k <= n
          <5>1. h[k] = g[k] /\ k \in 1 .. n
            BY <4>1, <4>3
          <5> QED
            BY <3>3, <4>2, <5>1
        <4>4. CASE k = n + 1
          <5>1. h[n + 1] = G[<<n + 1, g[p[n + 1]]>>]
            <6>1. n + 1 \in 0 .. n + 1 /\ ~(n + 1 <= n)
              OBVIOUS
            <6> QED
              BY <6>1, Zenon
          <5> HIDE DEF h
          <5> QED
            BY <4>2, <4>4, <5>1
        <4> QED
          BY <4>3, <4>4
      <3> HIDE DEF h
      <3>8. Part(h, n + 1)
        BY <3>5, <3>6, <3>7 DEF Part, IsInitialPart
      <3> QED
        BY <3>8
    <2> HIDE DEF S
    <2>3. Nat \subseteq S
      BY <2>1, <2>2, NatInductionOnSets
    <2> QED
      BY <2>3 DEF S
  <1> DEFINE part(n) == CHOOSE g : Part(g, n)
             f == [n \in Nat |-> part(n)[n]]
  <1>3. \A n \in Nat : Part(part(n), n)
    BY <1>2
  <1> HIDE DEF part
  <1>4. ASSUME NEW n \in Nat
        PROVE  /\ part(n) \in [0 .. n -> T] /\ part(n)[0] = a
               /\ \A k \in 1 .. n : part(n)[k] = G[<<k, part(n)[p[k]]>>]
    BY <1>3 DEF Part, IsInitialPart
  <1>5. f \in [Nat -> T]
    <2>1. \A n \in Nat : n \in 0 .. n
      OBVIOUS
    <2> QED
      BY <1>4, <2>1
  <1>6. f[0] = a
    BY <1>4
  <1>7. ASSUME NEW n \in Nat \ {0}
        PROVE  f[n] = G[<<n, f[p[n]]>>]
    <2>1. p[n] \in Nat /\ p[n] < n /\ n \in 1 .. n
      OBVIOUS
    <2>2. part(p[n])[p[n]] = part(n)[p[n]]
      BY <1>1, <1>3, <2>1
    <2>3. f[p[n]] = part(n)[p[n]] /\ f[n] = part(n)[n]
      BY <2>1, <2>2
    <2> QED
      BY <1>4, <2>1, <2>3
  <1> HIDE DEF f
  <1>8. IsRecursive(T, a, p, G, f)
    BY <1>5, <1>6, <1>7 DEF IsRecursive
  <1> QED
    BY <1>8

IsStepwise(T, a, G, f) ==
    /\ f \in [Nat -> T]
    /\ f[0] = a
    /\ \A n \in Nat \ {0} : f[n] = G[<<n, f[n - 1]>>]

\* So has one that goes step by step.
LEMMA StepsExist ==
    ASSUME NEW T, NEW a \in T, NEW G \in [Nat \X T -> T]
    PROVE  \E f : IsStepwise(T, a, G, f)
  <1> DEFINE p == [n \in Nat |-> IF n = 0 THEN 0 ELSE n - 1]
  <1>1. p \in [Nat -> Nat]
    OBVIOUS
  <1>5. \A n \in Nat : n # 0 => p[n] < n
    OBVIOUS
  <1> HIDE DEF p
  <1>2. PICK f : IsRecursive(T, a, p, G, f)
    BY <1>1, <1>5, RecursionExists
  <1>3. f \in [Nat -> T] /\ f[0] = a
    BY <1>2 DEF IsRecursive
  <1>4. \A n \in Nat \ {0} : f[n] = G[<<n, f[n - 1]>>]
    <2> TAKE n \in Nat \ {0}
    <2>1. p[n] = n - 1
      BY DEF p
    <2> QED
      BY <1>2, <2>1 DEF IsRecursive
  <1> QED
    BY <1>3, <1>4 DEF IsStepwise

\* Two loops that begin alike and go on alike.
LEMMA StepsUnique ==
    ASSUME NEW n \in Nat, NEW f, NEW g, f[0] = g[0],
           \A i \in 1 .. n : f[i - 1] = g[i - 1] => f[i] = g[i]
    PROVE  \A i \in 0 .. n : f[i] = g[i]
  <1> DEFINE S == {i \in Nat : i <= n => f[i] = g[i]}
  <1>1. 0 \in S
    OBVIOUS
  <1>2. ASSUME NEW i \in Nat, i \in S PROVE i + 1 \in S
    <2>1. i + 1 <= n => i + 1 \in 1 .. n /\ (i + 1) - 1 = i /\ f[i] = g[i]
      BY <1>2
    <2> QED
      BY <2>1
  <1> HIDE DEF S
  <1>3. Nat \subseteq S
    BY <1>1, <1>2, NatInductionOnSets
  <1> QED
    BY <1>3 DEF S

-----------------------------------------------------------------------------

\* Pow2 is a function, and satisfies its equations.
LEMMA Pow2Equations ==
    /\ Pow2 \in [Nat -> Nat]
    /\ Pow2[0] = 1
    /\ \A k \in Nat : Pow2[k + 1] = 2 * Pow2[k]
  <1> DEFINE G == [x \in Nat \X Nat |-> 2 * x[2]]
  <1>1. G \in [Nat \X Nat -> Nat] /\ 1 \in Nat
    OBVIOUS
  <1>2. \A n, v \in Nat : G[<<n, v>>] = 2 * v
    OBVIOUS
  <1> HIDE DEF G
  <1>3. PICK f : IsStepwise(Nat, 1, G, f)
    BY <1>1, StepsExist
  <1>4. /\ f \in [Nat -> Nat] /\ f[0] = 1
        /\ \A n \in Nat \ {0} : f[n] = G[<<n, f[n - 1]>>]
    BY <1>3 DEF IsStepwise
  <1>5. f = [n \in Nat |-> IF n = 0 THEN 1 ELSE 2 * f[n - 1]]
    <2>1. ASSUME NEW n \in Nat PROVE f[n] = IF n = 0 THEN 1 ELSE 2 * f[n - 1]
      <3>1. n # 0 => n - 1 \in Nat /\ f[n - 1] \in Nat
        BY <1>4
      <3> QED
        BY <1>2, <1>4, <3>1
    <2> QED
      BY <1>4, <2>1
  <1>6. Pow2 = [n \in Nat |-> IF n = 0 THEN 1 ELSE 2 * Pow2[n - 1]]
    BY <1>5 DEF Pow2
  <1>7. Pow2[0] = 1
    BY <1>6
  <1>8. \A k \in Nat : Pow2[k + 1] = 2 * Pow2[k]
    <2> TAKE k \in Nat
    <2>1. k + 1 \in Nat /\ k + 1 # 0 /\ (k + 1) - 1 = k
      OBVIOUS
    <2> QED
      BY <1>6, <2>1
  <1>9. \A k \in Nat : Pow2[k] \in Nat
    <2> DEFINE S == {k \in Nat : Pow2[k] \in Nat}
    <2>1. 0 \in S
      BY <1>7
    <2>2. \A k \in Nat : k \in S => k + 1 \in S
      BY <1>8
    <2> HIDE DEF S
    <2>3. Nat \subseteq S
      BY <2>1, <2>2, NatInductionOnSets
    <2> QED
      BY <2>3 DEF S
  <1> QED
    BY <1>6, <1>7, <1>8, <1>9

LEMMA Pow2Type == \A k \in Nat : Pow2[k] \in Nat \ {0}
  <1> DEFINE S == {k \in Nat : Pow2[k] \in Nat \ {0}}
  <1>1. 0 \in S
    BY Pow2Equations
  <1>2. \A k \in Nat : k \in S => k + 1 \in S
    BY Pow2Equations
  <1> HIDE DEF S
  <1>3. Nat \subseteq S
    BY <1>1, <1>2, NatInductionOnSets
  <1> QED
    BY <1>3 DEF S

\* A larger exponent makes a multiple.
LEMMA Pow2Divides ==
    ASSUME NEW j \in Nat, NEW k \in Nat, j <= k
    PROVE  \E q \in Nat \ {0} : Pow2[k] = Pow2[j] * q
  <1> DEFINE S == {d \in Nat : \E q \in Nat \ {0} : Pow2[j + d] = Pow2[j] * q}
  <1>1. 0 \in S
    <2>1. Pow2[j + 0] = Pow2[j] * 1
      BY Pow2Type
    <2> QED
      BY <2>1
  <1>2. ASSUME NEW d \in Nat, d \in S
        PROVE  d + 1 \in S
    <2>1. PICK q \in Nat \ {0} : Pow2[j + d] = Pow2[j] * q
      BY <1>2
    <2>2. Pow2[(j + d) + 1] = 2 * Pow2[j + d] /\ (j + d) + 1 = j + (d + 1)
      BY Pow2Equations
    <2>3. 2 * (Pow2[j] * q) = Pow2[j] * (2 * q) /\ 2 * q \in Nat \ {0}
      BY Pow2Type
    <2> QED
      BY <2>1, <2>2, <2>3
  <1> HIDE DEF S
  <1>3. Nat \subseteq S
    BY <1>1, <1>2, NatInductionOnSets
  <1>4. k - j \in S /\ j + (k - j) = k
    BY <1>3
  <1> QED
    BY <1>4 DEF S

LEMMA Pow2Grows ==
    ASSUME NEW j \in Nat, NEW k \in Nat, j <= k
    PROVE  /\ Pow2[j] <= Pow2[k]
           /\ j < k => 2 * Pow2[j] <= Pow2[k] /\ Pow2[j] < Pow2[k]
  <1>1. ASSUME NEW i \in Nat, i <= k PROVE Pow2[i] <= Pow2[k]
    <2>1. PICK q \in Nat \ {0} : Pow2[k] = Pow2[i] * q
      BY <1>1, Pow2Divides
    <2>2. Pow2[i] * 1 <= Pow2[i] * q
      BY Pow2Type
    <2> QED
      BY <2>1, <2>2, Pow2Type
  <1>2. j < k => Pow2[j + 1] <= Pow2[k]
    BY <1>1
  <1> QED
    BY <1>1, <1>2, Pow2Equations, Pow2Type

\* Quotient and remainder.
LEMMA DivMod ==
    ASSUME NEW x \in Nat, NEW m \in Nat \ {0}
    PROVE  /\ x \div m \in Nat /\ x % m \in Nat /\ x % m < m
           /\ x = m * (x \div m) + (x % m)
  OBVIOUS

LEMMA DivModUnique ==
    ASSUME NEW m \in Nat \ {0}, NEW q \in Nat, NEW r \in Nat, r < m
    PROVE  (m * q + r) \div m = q /\ (m * q + r) % m = r
  <1> DEFINE x == m * q + r
             p == x \div m
             s == x % m
  <1>1. x \in Nat
    OBVIOUS
  <1>2. p \in Nat /\ s \in Nat /\ s < m /\ x = m * p + s
    BY <1>1, DivMod
  <1> HIDE DEF p, s
  <1>3. CASE p < q
    <2>1. m * (p + 1) <= m * q
      BY <1>2, <1>3
    <2>2. m * (p + 1) = m * p + m
      BY <1>2
    <2> QED
      BY <1>2, <2>1, <2>2
  <1>4. CASE p > q
    <2>1. m * (q + 1) <= m * p
      BY <1>2, <1>4
    <2>2. m * (q + 1) = m * q + m
      BY <1>2
    <2> QED
      BY <1>2, <2>1, <2>2
  <1>5. CASE p = q
    BY <1>2, <1>5 DEF p, s
  <1> QED
    BY <1>2, <1>3, <1>4, <1>5

LEMMA Multiples ==
    ASSUME NEW x \in Nat, NEW m \in Nat \ {0}
    PROVE  x % m = 0 <=> \E q \in Nat : x = m * q
  <1>1. ASSUME x % m = 0 PROVE \E q \in Nat : x = m * q
    <2>1. x \div m \in Nat /\ x = m * (x \div m)
      BY <1>1, DivMod
    <2> QED
      BY <2>1
  <1>2. ASSUME NEW q \in Nat, x = m * q PROVE x % m = 0
    <2>1. (m * q + 0) % m = 0
      BY DivModUnique
    <2>2. m * q + 0 = x
      BY <1>2
    <2> QED
      BY <2>1, <2>2
  <1> QED
    BY <1>1, <1>2

LEMMA MultiplesOfSmaller ==
    ASSUME NEW j \in Nat, NEW k \in Nat, j <= k, NEW x \in Nat, x % Pow2[k] = 0
    PROVE  x % Pow2[j] = 0
  <1>1. PICK p \in Nat : x = Pow2[k] * p
    BY Multiples, Pow2Type
  <1>2. PICK q \in Nat \ {0} : Pow2[k] = Pow2[j] * q
    BY Pow2Divides
  <1>3. x = Pow2[j] * (q * p) /\ q * p \in Nat
    BY <1>1, <1>2, Pow2Type
  <1> QED
    BY <1>3, Multiples, Pow2Type

-----------------------------------------------------------------------------

LEMMA HasLeast ==
    ASSUME NEW T, T \subseteq Nat, T # {}
    PROVE  \E x \in T : \A y \in T : x <= y
  <1>1. PICK x \in T : \A y \in T : <<y, x>> \notin OpToRel(<, Nat)
    BY NatLessThanWellFounded, WFMin
  <1>2. ASSUME NEW y \in T PROVE x <= y
    <2>1. x \in Nat /\ y \in Nat
      OBVIOUS
    <2>2. ~(y < x)
      <3>1. <<y, x>> \notin {ss \in Nat \X Nat : ss[1] < ss[2]}
        BY <1>1 DEF OpToRel
      <3> QED
        BY <2>1, <3>1
    <2> QED
      BY <2>1, <2>2
  <1> QED
    BY <1>2

\* The bits of a word.
LEMMA BitLenIs ==
    ASSUME NEW x \in Nat, NEW n \in 0 .. W, x < Pow2[n], n # 0 => Pow2[n - 1] <= x
    PROVE  BitLen(x) = n
  <1> DEFINE Least(k) == x < Pow2[k] /\ \A m \in 0 .. W : x < Pow2[m] => k <= m
  <1>0. W \in Nat
    BY WordWidthAssumption
  <1>1. ASSUME NEW m \in 0 .. W, x < Pow2[m] PROVE n <= m
    <2>1. CASE m < n
      <3>1. m \in Nat /\ n - 1 \in Nat /\ m <= n - 1
        BY <1>0, <2>1
      <3>2. Pow2[m] <= Pow2[n - 1] /\ Pow2[n - 1] <= x
        BY <3>1, Pow2Grows, <2>1
      <3> QED
        BY <1>1, <3>1, <3>2, Pow2Type
    <2> QED
      BY <1>0, <2>1
  <1>2. Least(n)
    BY <1>1
  <1>3. ASSUME NEW k \in 0 .. W, Least(k) PROVE k = n
    <2>1. k <= n /\ n <= k
      BY <1>1, <1>3
    <2> QED
      BY <1>0, <2>1
  <1> HIDE DEF Least
  <1>4. (CHOOSE k \in 0 .. W : Least(k)) = n
    BY <1>2, <1>3
  <1> QED
    BY <1>4 DEF BitLen, Least

LEMMA BitLenFacts ==
    ASSUME NEW x \in Word
    PROVE  /\ BitLen(x) \in 0 .. W /\ x < Pow2[BitLen(x)]
           /\ BitLen(x) # 0 => Pow2[BitLen(x) - 1] <= x
  <1> DEFINE T == {n \in 0 .. W : x < Pow2[n]}
  <1>0. W \in Nat /\ x \in Nat /\ x < Pow2[W]
    BY WordWidthAssumption, Pow2Type DEF Word
  <1>1. W \in T /\ T \subseteq Nat
    BY <1>0
  <1>2. PICK n \in T : \A m \in T : n <= m
    BY <1>1, HasLeast
  <1>3. n # 0 => Pow2[n - 1] <= x
    <2> SUFFICES ASSUME n # 0 PROVE Pow2[n - 1] <= x
      OBVIOUS
    <2>1. n - 1 \in 0 .. W /\ n - 1 \in Nat /\ ~(n <= n - 1)
      BY <1>0
    <2>2. ~(x < Pow2[n - 1])
      BY <1>2, <2>1
    <2> QED
      BY <1>0, <2>1, <2>2, Pow2Type
  <1>4. BitLen(x) = n
    BY <1>0, <1>3, BitLenIs
  <1> QED
    BY <1>3, <1>4

\* (1 << n) - 1 is the mask of the low n bits, for n = W too.
LEMMA MaskIs ==
    ASSUME NEW n \in 0 .. W
    PROVE  Minus(ShiftedOne(n), 1) = Pow2[n] - 1
  <1> DEFINE M == Pow2[W]
  <1>0. W \in Nat /\ n \in Nat /\ M \in Nat \ {0} /\ Pow2[n] \in Nat \ {0}
    BY WordWidthAssumption, Pow2Type
  <1>1. CASE n = W
    <2>1. (M * 1 + 0) % M = 0 /\ (M * 0 + (M - 1)) % M = M - 1
      <3>1. M - 1 \in Nat /\ M - 1 < M /\ 0 \in Nat /\ 0 < M /\ 1 \in Nat
        BY <1>0
      <3> HIDE DEF M
      <3> QED
        BY <1>0, <3>1, DivModUnique
    <2>2. M % M = 0 /\ (M - 1) % M = M - 1 /\ 0 - 1 + M = M - 1
      BY <1>0, <2>1
    <2> HIDE DEF M
    <2>3. (0 - 1 + M) % M = M - 1
      BY <2>2
    <2> QED
      BY <1>1, <2>2, <2>3 DEF Minus, ShiftedOne, M
  <1>2. CASE n < W
    <2> DEFINE p == Pow2[n]
    <2>1. p < M
      BY <1>0, <1>2, Pow2Grows
    <2> HIDE DEF M, p
    <2>2. p \in Nat \ {0} /\ M \in Nat \ {0}
      BY <1>0 DEF p, M
    <2>3. (M * 0 + p) % M = p /\ (M * 1 + (p - 1)) % M = p - 1
      <3>1. p - 1 \in Nat /\ p - 1 < M /\ 0 \in Nat /\ 1 \in Nat
        BY <2>1, <2>2
      <3> QED
        BY <2>1, <2>2, <3>1, DivModUnique
    <2>4. p % M = p /\ (p - 1 + M) % M = p - 1
      <3>1. M * 0 + p = p /\ M * 1 + (p - 1) = p - 1 + M
        BY <2>2
      <3> QED
        BY <2>3, <3>1
    <2> QED
      BY <2>4 DEF Minus, ShiftedOne, M, p
  <1> QED
    BY <1>0, <1>1, <1>2

\* The words, and the numbers that shift them.
LEMMA WordFacts ==
    /\ W \in Nat /\ W - 1 \in Nat
    /\ Pow2[W] \in Nat \ {0} /\ Word \subseteq Nat
    /\ \A x \in Nat : x \in Word <=> x < Pow2[W]
  <1>1. W \in Nat /\ W # 0 /\ Pow2[W] \in Nat \ {0}
    BY WordWidthAssumption, Pow2Type
  <1> QED
    BY <1>1 DEF Word

-----------------------------------------------------------------------------

\* A size is rounded up to the power of two around it.
LEMMA BitCeilIs ==
    ASSUME NEW n \in Nat, NEW k \in 0 .. W, n <= Pow2[k], k # 0 => Pow2[k - 1] < n
    PROVE  BitCeil(n) = Pow2[k]
  <1> DEFINE Around(j) == Pow2[j - 1] < n /\ n <= Pow2[j]
  <1>0. W \in Nat /\ k \in Nat /\ Pow2[0] = 1
    BY WordFacts, Pow2Equations
  <1>1. CASE n <= 1
    <2>1. k # 0 => k - 1 \in Nat /\ Pow2[k - 1] \in Nat \ {0}
      BY <1>0, Pow2Type
    <2>2. k = 0
      BY <1>1, <2>1
    <2> QED
      BY <1>0, <1>1, <2>2 DEF BitCeil
  <1>2. CASE n > 1
    <2>1. k \in 1 .. W /\ Around(k)
      BY <1>0, <1>2
    <2>2. ASSUME NEW j \in 1 .. W, Around(j) PROVE j = k
      <3>1. j - 1 \in Nat /\ k - 1 \in Nat /\ j \in Nat
        BY <1>0, <2>1
      <3>2. j <= k - 1 => Pow2[j] <= Pow2[k - 1]
        BY <3>1, Pow2Grows
      <3>3. k <= j - 1 => Pow2[k] <= Pow2[j - 1]
        BY <1>0, <3>1, Pow2Grows
      <3>4. /\ Pow2[j] \in Nat /\ Pow2[k] \in Nat
            /\ Pow2[j - 1] \in Nat /\ Pow2[k - 1] \in Nat
        BY <1>0, <3>1, Pow2Type
      <3>5. ~(j <= k - 1) /\ ~(k <= j - 1)
        BY <2>1, <2>2, <3>2, <3>3, <3>4
      <3> QED
        BY <1>0, <3>1, <3>5
    <2> HIDE DEF Around
    <2>3. (CHOOSE j \in 1 .. W : Around(j)) = k
      BY <2>1, <2>2
    <2>4. BitCeil(n) = Pow2[CHOOSE j \in 1 .. W : Around(j)]
      <3>1. ~(n <= 1)
        BY <1>2
      <3> QED
        BY <3>1, Zenon DEF BitCeil, Around
    <2> QED
      BY <2>3, <2>4
  <1> QED
    BY <1>1, <1>2

\* The rounded-up size of an interval of words, and the bits that count it.
LEMMA BitCeilFacts ==
    ASSUME NEW d \in Word
    PROVE  \E k \in 0 .. W : /\ BitCeil(d) = Pow2[k] /\ d <= Pow2[k]
                             /\ k # 0 => Pow2[k - 1] < d
                             /\ d # 0 => k = BitLen(d - 1)
  <1>1. CASE d = 0
    <2>1. 0 \in 0 .. W /\ d \in Nat /\ d <= Pow2[0]
      BY <1>1, WordFacts, Pow2Equations
    <2>2. BitCeil(d) = Pow2[0]
      BY <2>1, BitCeilIs
    <2> QED
      BY <1>1, <2>1, <2>2
  <1>2. CASE d # 0
    <2> DEFINE k == BitLen(d - 1)
    <2>1. d \in Nat /\ d - 1 \in Nat /\ d - 1 \in Word
      BY <1>2, WordFacts
    <2>2. k \in 0 .. W /\ d - 1 < Pow2[k] /\ (k # 0 => Pow2[k - 1] <= d - 1)
      BY <2>1, BitLenFacts
    <2> HIDE DEF k
    <2>3. k \in Nat /\ Pow2[k] \in Nat /\ (k # 0 => Pow2[k - 1] \in Nat)
      BY <2>2, WordFacts, Pow2Type
    <2>4. d <= Pow2[k] /\ (k # 0 => Pow2[k - 1] < d)
      BY <2>1, <2>2, <2>3
    <2>5. BitCeil(d) = Pow2[k]
      BY <2>1, <2>2, <2>4, BitCeilIs
    <2> QED
      BY <2>2, <2>4, <2>5 DEF k
  <1> QED
    BY <1>1, <1>2

\* IsValidSubtree, for any two words.
LEMMA ValidSubtreeIs ==
    ASSUME NEW s \in Word, NEW e \in Word
    PROVE  IsValidSubtree(s, e) <=> IsSubtree(s, e)
  <1>0. s \in Nat /\ e \in Nat
    BY WordFacts
  <1>1. CASE s > e
    BY <1>0, <1>1 DEF IsValidSubtree, IsSubtree
  <1>2. CASE s = e
    <2>1. e - s = 0 /\ s % 1 = 0
      BY <1>0, <1>2
    <2> QED
      BY <1>0, <1>2, <2>1 DEF IsValidSubtree, IsSubtree, BitCeil
  <1>3. CASE s < e
    <2> DEFINE d == e - s
               n == BitLen(d - 1)
    <2>1. d \in Word /\ d # 0 /\ d \in Nat
      BY <1>0, <1>3, WordFacts
    <2> HIDE DEF d
    <2>2. n \in 0 .. W /\ BitCeil(d) = Pow2[n]
      BY <2>1, BitCeilFacts
    <2> HIDE DEF n
    <2>3. Minus(ShiftedOne(n), 1) = Pow2[n] - 1
      BY <2>2, MaskIs
    <2>4. Pow2[n] \in Nat /\ Pow2[n] - 1 + 1 = Pow2[n]
      BY <2>2, WordFacts, Pow2Type
    <2>5. LowBits(s, Minus(ShiftedOne(n), 1)) = s % Pow2[n]
      BY <2>3, <2>4 DEF LowBits
    <2>6. IsValidSubtree(s, e) <=> s % Pow2[n] = 0
      BY <1>0, <1>3, <2>5 DEF IsValidSubtree, n, d
    <2>7. IsSubtree(s, e) <=> s % Pow2[n] = 0
      BY <1>0, <1>3, <2>2 DEF IsSubtree, d
    <2> QED
      BY <2>6, <2>7
  <1> QED
    BY <1>0, <1>1, <1>2, <1>3

-----------------------------------------------------------------------------

\* The low bits that have to go for two words to agree: they agree above bit
\* n - 1, and there the smaller has 0 and the larger 1.
LEMMA DivergeLenIs ==
    ASSUME NEW s \in Word, NEW last \in Word, s < last
    PROVE  \E n \in 1 .. W, q \in Nat, r1 \in Nat, r2 \in Nat :
              /\ DivergeLen(s, last) = n
              /\ s = Pow2[n - 1] * (2 * q) + r1 /\ r1 < Pow2[n - 1]
              /\ last = Pow2[n - 1] * (2 * q + 1) + r2 /\ r2 < Pow2[n - 1]
  <1> DEFINE Agree(n) == s \div Pow2[n] = last \div Pow2[n]
             T == {n \in 0 .. W : Agree(n)}
             Least(n) == Agree(n) /\ \A m \in 0 .. W : Agree(m) => n <= m
  <1>0. /\ W \in Nat /\ s \in Nat /\ last \in Nat
        /\ s < Pow2[W] /\ last < Pow2[W] /\ Pow2[W] \in Nat \ {0}
    BY WordFacts
  <1>1. W \in T
    <2> DEFINE M == Pow2[W]
    <2>1. (M * 0 + s) \div M = 0 /\ (M * 0 + last) \div M = 0
      <3> HIDE DEF M
      <3>1. s < M /\ last < M /\ M \in Nat \ {0} /\ 0 \in Nat
        BY <1>0 DEF M
      <3> QED
        BY <1>0, <3>1, DivModUnique
    <2>2. M * 0 + s = s /\ M * 0 + last = last
      BY <1>0
    <2> QED
      BY <1>0, <2>1, <2>2
  <1>2. T \subseteq Nat
    BY <1>0
  <1>3. PICK n \in T : \A m \in T : n <= m
    BY <1>1, <1>2, HasLeast
  <1>4. n \in 0 .. W /\ Agree(n) /\ \A m \in 0 .. W : Agree(m) => n <= m
    BY <1>3
  <1>5. n # 0
    <2>1. s \div 1 = s /\ last \div 1 = last
      BY <1>0
    <2> QED
      BY <1>0, <1>4, <2>1, Pow2Equations
  <1>6. n \in 1 .. W /\ n - 1 \in Nat /\ n - 1 \in 0 .. W
    BY <1>0, <1>4, <1>5
  <1>7. ~Agree(n - 1)
    BY <1>4, <1>6
  <1>8. DivergeLen(s, last) = n
    <2>1. Least(n)
      BY <1>4
    <2>2. ASSUME NEW k \in 0 .. W, Least(k) PROVE k = n
      <3>1. k <= n /\ n <= k
        BY <1>4, <2>2
      <3> QED
        BY <1>0, <1>4, <3>1
    <2> HIDE DEF Least
    <2>3. (CHOOSE k \in 0 .. W : Least(k)) = n
      BY <1>4, <2>1, <2>2
    <2> QED
      BY <2>3, Zenon DEF DivergeLen, Least
  <1> DEFINE H == Pow2[n - 1]
             q == s \div Pow2[n]
             t1 == s % Pow2[n]
             t2 == last % Pow2[n]
  <1>9. H \in Nat \ {0} /\ Pow2[n] = 2 * H /\ Pow2[n] \in Nat \ {0}
    <2>1. (n - 1) + 1 = n /\ n \in Nat
      BY <1>0, <1>6
    <2> QED
      BY <1>6, <2>1, Pow2Equations, Pow2Type
  <1>10. /\ q \in Nat /\ t1 \in Nat /\ t2 \in Nat /\ t1 < 2 * H /\ t2 < 2 * H
         /\ s = (2 * H) * q + t1 /\ last = (2 * H) * q + t2
    BY <1>0, <1>4, <1>9, DivMod
  <1>11. s \div H # last \div H
    BY <1>7
  <1> HIDE DEF H, q, t1, t2
  <1>12. (2 * H) * q = H * (2 * q) /\ H * (2 * q + 1) = H * (2 * q) + H
    BY <1>9, <1>10
  <1>13. 2 * q \in Nat /\ 2 * q + 1 \in Nat /\ t1 < t2
    BY <1>0, <1>9, <1>10
  <1> DEFINE a == H * (2 * q)
  <1>14. a \in Nat /\ s = a + t1 /\ last = a + t2 /\ H * (2 * q + 1) = a + H
    BY <1>9, <1>10, <1>12
  <1>15. t1 < H
    <2> SUFFICES ASSUME H <= t1 PROVE FALSE
      BY <1>9, <1>10
    <2>1. t1 - H \in Nat /\ t1 - H < H /\ t2 - H \in Nat /\ t2 - H < H
      BY <1>9, <1>10, <1>13
    <2>2. /\ (H * (2 * q + 1) + (t1 - H)) \div H = 2 * q + 1
          /\ (H * (2 * q + 1) + (t2 - H)) \div H = 2 * q + 1
      <3> DEFINE b == 2 * q + 1
                 u1 == t1 - H
                 u2 == t2 - H
      <3>1. b \in Nat /\ u1 \in Nat /\ u1 < H /\ u2 \in Nat /\ u2 < H
        BY <1>13, <2>1
      <3> HIDE DEF b, u1, u2
      <3>2. (H * b + u1) \div H = b /\ (H * b + u2) \div H = b
        BY <1>9, <3>1, DivModUnique
      <3> QED
        BY <3>2 DEF b, u1, u2
    <2> HIDE DEF a
    <2>3. s = (a + H) + (t1 - H) /\ last = (a + H) + (t2 - H)
      BY <1>9, <1>10, <1>14
    <2> QED
      BY <1>11, <1>14, <2>2, <2>3
  <1>16. H <= t2
    <2> SUFFICES ASSUME t2 < H PROVE FALSE
      BY <1>9, <1>10
    <2>1. (H * (2 * q) + t1) \div H = 2 * q /\ (H * (2 * q) + t2) \div H = 2 * q
      BY <1>9, <1>10, <1>13, <1>15, DivModUnique
    <2> QED
      BY <1>11, <1>14, <2>1
  <1>17. t2 - H \in Nat /\ t2 - H < H
    BY <1>9, <1>10, <1>16
  <1>18. last = H * (2 * q + 1) + (t2 - H)
    <2> HIDE DEF a
    <2> QED
      BY <1>9, <1>10, <1>14
  <1>19. s = H * (2 * q) + t1
    BY <1>14
  <1> HIDE DEF a
  <1> QED
    BY <1>6, <1>8, <1>10, <1>15, <1>17, <1>18, <1>19 DEF H

\* How SubtreesForInterval covers an interval of two or more entries: it splits
\* it at the multiple mid of a power of two M that is nearest to the entries on
\* both sides, and takes on the left the least power of two P that reaches back
\* to start.
LEMMA CoverIs ==
    ASSUME NEW s \in Word, NEW e \in Word, s <= e, e - s > 1
    PROVE  \E j \in 0 .. W, l \in 0 .. W, mid \in Nat :
              /\ SubtreesForInterval(s, e) =
                    [start1 |-> mid - Pow2[l], end1 |-> mid, start2 |-> mid, end2 |-> e]
              /\ mid % Pow2[j] = 0 /\ l <= j
              /\ s < mid /\ mid < e /\ e - mid <= Pow2[j]
              /\ mid - s <= Pow2[l] /\ (l # 0 => Pow2[l - 1] < mid - s)
              /\ Pow2[l] <= mid
  <1> DEFINE last == e - 1
  <1>0. W \in Nat /\ s \in Nat /\ e \in Nat /\ e < Pow2[W] /\ Pow2[W] \in Nat
    BY WordFacts
  <1>1. last \in Word /\ last \in Nat /\ s < last /\ e = last + 1
    BY <1>0, WordFacts
  <1> HIDE DEF last
  <1>2. PICK n \in 1 .. W, q \in Nat, r1 \in Nat, r2 \in Nat :
           /\ DivergeLen(s, last) = n
           /\ s = Pow2[n - 1] * (2 * q) + r1 /\ r1 < Pow2[n - 1]
           /\ last = Pow2[n - 1] * (2 * q + 1) + r2 /\ r2 < Pow2[n - 1]
    BY <1>1, DivergeLenIs
  <1> DEFINE j == n - 1
             M == Pow2[j]
             b == 2 * q + 1
             mid == M * b
             mask == Minus(ShiftedOne(j), 1)
  <1>3. j \in 0 .. W /\ j \in Nat /\ M \in Nat \ {0} /\ b \in Nat /\ mid \in Nat
    BY <1>0, <1>2, Pow2Type
  <1>4. mask = M - 1 /\ mask + 1 = M
    BY <1>3, MaskIs
  <1>5. /\ DivergeLen(s, last) - 1 = j
        /\ s = M * (2 * q) + r1 /\ r1 < M /\ last = mid + r2 /\ r2 < M
        /\ mid = M * (2 * q) + M
    BY <1>0, <1>2, <1>3
  <1>6. s % M = r1 /\ last % M = r2 /\ mid % M = 0
    <2>1. (M * b + r2) % M = r2 /\ (M * (2 * q) + r1) % M = r1
      <3> DEFINE c == 2 * q
      <3>1. /\ c \in Nat /\ b \in Nat /\ r1 \in Nat /\ r2 \in Nat
            /\ M \in Nat \ {0} /\ r1 < M /\ r2 < M
        BY <1>2, <1>3, <1>5
      <3> HIDE DEF M, b, c
      <3>2. (M * b + r2) % M = r2 /\ (M * c + r1) % M = r1
        BY <3>1, DivModUnique
      <3> QED
        BY <3>2 DEF c
    <2>2. mid % M = 0
      <3> HIDE DEF M, b
      <3> QED
        BY <1>3, Multiples
    <2> QED
      BY <1>5, <2>1, <2>2
  <1> HIDE DEF mid, b, mask
  <1>7. ClearLowBits(last, mask) = mid
    <2>1. LowBits(last, mask) = r2
      BY <1>4, <1>6 DEF LowBits
    <2> QED
      BY <1>2, <1>3, <1>5, <2>1 DEF ClearLowBits
  <1> DEFINE x == mask - LowBits(s, mask)
             l == BitLen(x)
             P == Pow2[l]
  <1>8. x = M - 1 - r1 /\ x = mid - s - 1 /\ x \in Nat /\ x < M
    <2>1. LowBits(s, mask) = r1
      BY <1>4, <1>6 DEF LowBits
    <2> DEFINE a == M * (2 * q)
    <2>2. s = a + r1 /\ mid = a + M /\ a \in Nat
      BY <1>3, <1>5
    <2> HIDE DEF a, M
    <2> QED
      BY <1>2, <1>3, <1>4, <1>5, <2>1, <2>2
  <1> HIDE DEF x
  <1>9. x \in Word
    <2>1. M <= Pow2[W]
      BY <1>0, <1>3, Pow2Grows
    <2> QED
      BY <1>0, <1>3, <1>8, <2>1, WordFacts
  <1>10. l \in 0 .. W /\ x < Pow2[l] /\ (l # 0 => Pow2[l - 1] <= x)
    BY <1>9, BitLenFacts
  <1> HIDE DEF l
  <1>11. l \in Nat /\ P \in Nat \ {0} /\ (l # 0 => l - 1 \in Nat /\ Pow2[l - 1] \in Nat)
    BY <1>0, <1>10, Pow2Type
  <1>12. l <= j
    <2> SUFFICES ASSUME j < l PROVE FALSE
      BY <1>3, <1>11
    <2>1. l # 0 /\ j <= l - 1
      BY <1>3, <1>11
    <2>2. Pow2[j] <= Pow2[l - 1]
      BY <1>3, <1>11, <2>1, Pow2Grows
    <2> QED
      BY <1>3, <1>8, <1>10, <1>11, <2>1, <2>2
  <1>13. s < mid /\ mid - s <= P /\ (l # 0 => Pow2[l - 1] < mid - s)
    BY <1>0, <1>3, <1>8, <1>10, <1>11
  <1>14. PICK t \in Nat : mid = P * t
    <2>1. mid % P = 0
      BY <1>3, <1>6, <1>11, <1>12, MultiplesOfSmaller
    <2> HIDE DEF P
    <2> QED
      BY <1>3, <1>11, <2>1, Multiples
  <1>15. t # 0 /\ t - 1 \in Nat
    BY <1>0, <1>11, <1>13, <1>14
  <1>16. mid - P = P * (t - 1) /\ P <= mid
    <2>1. P * t = P * (t - 1) + P /\ P * (t - 1) \in Nat
      BY <1>11, <1>14, <1>15
    <2> HIDE DEF P
    <2> QED
      BY <1>11, <1>14, <2>1
  <1>17. s % P = s - (mid - P)
    <2> DEFINE u == s - (mid - P)
               c == t - 1
    <2>1. u \in Nat /\ u < P /\ c \in Nat
      BY <1>0, <1>3, <1>11, <1>13, <1>15, <1>16
    <2>2. s = P * c + u
      BY <1>0, <1>3, <1>11, <1>16
    <2> HIDE DEF u, c, P
    <2>3. (P * c + u) % P = u
      BY <1>11, <2>1, DivModUnique
    <2> QED
      BY <2>2, <2>3 DEF u
  <1>18. ClearLowBits(s, Minus(ShiftedOne(l), 1)) = mid - P
    <2>1. Minus(ShiftedOne(l), 1) = P - 1
      BY <1>10, MaskIs
    <2>2. P - 1 + 1 = P
      BY <1>11
    <2>3. LowBits(s, Minus(ShiftedOne(l), 1)) = s % P
      BY <2>1, <2>2 DEF LowBits
    <2> QED
      BY <1>0, <1>3, <1>11, <1>17, <2>3 DEF ClearLowBits
  <1>19. SubtreesForInterval(s, e) =
            [start1 |-> mid - P, end1 |-> mid, start2 |-> mid, end2 |-> e]
    <2>1. ~(e - s <= 1)
      BY <1>0
    <2>2. SubtreesForInterval(s, e) =
             [start1 |-> ClearLowBits(s, Minus(ShiftedOne(l), 1)),
              end1 |-> ClearLowBits(last, mask), start2 |-> ClearLowBits(last, mask),
              end2 |-> e]
      BY <1>5, <2>1 DEF SubtreesForInterval, l, x, mask, last
    <2> QED
      BY <1>7, <1>18, <2>2
  <1>20. mid < e /\ e - mid <= M
    BY <1>0, <1>1, <1>2, <1>3, <1>5
  <1>21. mid % Pow2[j] = 0 /\ Pow2[l] <= mid
    BY <1>6, <1>16
  <1> QED
    BY <1>3, <1>10, <1>12, <1>13, <1>19, <1>20, <1>21

-----------------------------------------------------------------------------

\* CoverIsTight, of any interval.
IsTightCover(c, s, e) ==
    /\ IsSubtree(c.start1, c.end1) /\ IsSubtree(c.start2, c.end2)
    /\ s < e => \A x \in 0 .. s : x > c.start1 => ~IsSubtree(x, c.end1)
    /\ c.start1 <= s /\ s <= c.end1
    /\ c.end1 = c.start2 /\ c.start2 <= e /\ c.end2 = e
    /\ c.end1 - c.start1 <= BitCeil(e - s)
    /\ c.end2 - c.start2 <= BitCeil(e - s)

LEMMA TightCover ==
    ASSUME NEW s \in Word, NEW e \in Word, s <= e
    PROVE  /\ IsTightCover(SubtreesForInterval(s, e), s, e)
           /\ SubtreesForInterval(s, e) \in
                 [start1 : Word, end1 : Word, start2 : Word, end2 : Word]
  <1> DEFINE d == e - s
  <1>0. W \in Nat /\ s \in Nat /\ e \in Nat /\ d \in Nat /\ d \in Word
    BY WordFacts
  <1>1. CASE d <= 1
    <2>1. SubtreesForInterval(s, e) = [start1 |-> s, end1 |-> e, start2 |-> e, end2 |-> e]
      BY <1>1 DEF SubtreesForInterval
    <2>2. BitCeil(d) = 1 /\ BitCeil(e - e) = 1 /\ s % 1 = 0 /\ e % 1 = 0
      BY <1>0, <1>1 DEF BitCeil
    <2>3. IsSubtree(s, e) /\ IsSubtree(e, e)
      BY <1>0, <2>2 DEF IsSubtree
    <2> QED
      BY <1>0, <1>1, <2>1, <2>2, <2>3 DEF IsTightCover
  <1>2. CASE d > 1
    <2>1. PICK j \in 0 .. W, l \in 0 .. W, mid \in Nat :
             /\ SubtreesForInterval(s, e) =
                   [start1 |-> mid - Pow2[l], end1 |-> mid, start2 |-> mid, end2 |-> e]
             /\ mid % Pow2[j] = 0 /\ l <= j
             /\ s < mid /\ mid < e /\ e - mid <= Pow2[j]
             /\ mid - s <= Pow2[l] /\ (l # 0 => Pow2[l - 1] < mid - s)
             /\ Pow2[l] <= mid
      BY <1>2, CoverIs
    <2> DEFINE P == Pow2[l]
               left == mid - P
    <2>2. /\ j \in Nat /\ l \in Nat /\ P \in Nat \ {0} /\ left \in Nat /\ mid - left = P
          /\ Pow2[j] \in Nat /\ mid % P = 0
          /\ (l # 0 => l - 1 \in Nat /\ Pow2[l - 1] \in Nat)
      BY <1>0, <2>1, Pow2Type, MultiplesOfSmaller
    <2> HIDE DEF left
    <2>3. PICK t \in Nat : mid = P * t
      <3> HIDE DEF P
      <3> QED
        BY <2>2, Multiples
    <2>4. t - 1 \in Nat /\ left = P * (t - 1)
      <3>1. t # 0
        BY <1>0, <2>1, <2>2, <2>3
      <3>2. P * t = P * (t - 1) + P /\ P * (t - 1) \in Nat
        BY <2>2, <3>1
      <3> HIDE DEF P
      <3> QED
        BY <2>2, <2>3, <3>1, <3>2 DEF left
    \* The sizes that the left subtree could have are rounded up to its own.
    <2>5. ASSUME NEW y \in Nat, mid - s <= y, y <= P PROVE BitCeil(y) = P
      <3>1. l # 0 => Pow2[l - 1] < y
        BY <1>0, <2>1, <2>2, <2>5
      <3> QED
        BY <2>1, <2>2, <2>5, <3>1, BitCeilIs
    <2>6. IsSubtree(left, mid)
      <3>1. BitCeil(mid - left) = P
        BY <1>0, <2>1, <2>2, <2>5
      <3>2. left % P = 0
        <4> HIDE DEF P
        <4> QED
          BY <2>2, <2>4, Multiples
      <3> QED
        BY <2>1, <2>2, <3>1, <3>2 DEF IsSubtree
    <2>7. IsSubtree(mid, e)
      <3>1. e - mid \in Word /\ e - mid \in Nat
        BY <1>0, <2>1, WordFacts
      <3>2. PICK k \in 0 .. W : /\ BitCeil(e - mid) = Pow2[k] /\ e - mid <= Pow2[k]
                                /\ k # 0 => Pow2[k - 1] < e - mid
        BY <3>1, BitCeilFacts
      <3>3. k <= j
        <4> SUFFICES ASSUME j < k PROVE FALSE
          BY <1>0, <2>2
        <4>1. k # 0 /\ k - 1 \in Nat /\ j <= k - 1
          BY <1>0, <2>2
        <4>2. Pow2[j] <= Pow2[k - 1] /\ Pow2[k - 1] \in Nat
          BY <2>2, <4>1, Pow2Grows, Pow2Type
        <4> QED
          BY <2>1, <2>2, <3>1, <3>2, <4>1, <4>2
      <3>4. mid % Pow2[k] = 0
        BY <1>0, <2>1, <2>2, <3>3, MultiplesOfSmaller
      <3> QED
        BY <2>1, <1>0, <3>2, <3>4 DEF IsSubtree
    <2>8. ASSUME NEW x \in 0 .. s, x > left PROVE ~IsSubtree(x, mid)
      <3> DEFINE u == x - left
                 c == t - 1
      <3>1. BitCeil(mid - x) = P
        BY <1>0, <2>1, <2>2, <2>5, <2>8
      <3>2. u \in Nat /\ u # 0 /\ u < P /\ c \in Nat /\ x = P * c + u
        <4> HIDE DEF P
        <4> QED
          BY <1>0, <2>1, <2>2, <2>4, <2>8
      <3> HIDE DEF u, c, P
      <3>3. (P * c + u) % P = u
        BY <2>2, <3>2, DivModUnique
      <3> QED
        BY <3>1, <3>2, <3>3 DEF IsSubtree
    <2>9. mid - left <= BitCeil(d) /\ e - mid <= BitCeil(d)
      <3>1. PICK k \in 0 .. W : BitCeil(d) = Pow2[k] /\ d <= Pow2[k]
        BY <1>0, BitCeilFacts
      <3>2. k \in Nat /\ Pow2[k] \in Nat
        BY <1>0, Pow2Type
      <3>3. l <= k
        <4> SUFFICES ASSUME k < l PROVE FALSE
          BY <2>2, <3>2
        <4>1. l # 0 /\ k <= l - 1
          BY <2>2, <3>2
        <4>2. Pow2[k] <= Pow2[l - 1]
          BY <2>2, <3>2, <4>1, Pow2Grows
        <4> QED
          BY <1>0, <2>1, <2>2, <3>1, <3>2, <4>1, <4>2
      <3>4. P <= Pow2[k]
        BY <2>2, <3>2, <3>3, Pow2Grows
      <3> QED
        BY <1>0, <2>1, <2>2, <3>1, <3>2, <3>4
    <2>10. left <= s /\ left \in Word /\ mid \in Word
      BY <1>0, <2>1, <2>2, WordFacts
    <2>11. SubtreesForInterval(s, e) =
              [start1 |-> left, end1 |-> mid, start2 |-> mid, end2 |-> e]
      BY <2>1 DEF left
    <2>12. IsTightCover(SubtreesForInterval(s, e), s, e)
      BY <1>0, <2>1, <2>6, <2>7, <2>8, <2>9, <2>10, <2>11 DEF IsTightCover
    <2> QED
      BY <2>10, <2>11, <2>12
  <1> QED
    BY <1>0, <1>1, <1>2

-----------------------------------------------------------------------------

\* Powers of two outgrow their exponents.
LEMMA BelowPow2 == \A n \in Nat : n < Pow2[n]
  <1> DEFINE S == {n \in Nat : n < Pow2[n]}
  <1>1. 0 \in S
    BY Pow2Equations
  <1>2. \A n \in Nat : n \in S => n + 1 \in S
    BY Pow2Equations
  <1> HIDE DEF S
  <1>3. Nat \subseteq S
    BY <1>1, <1>2, NatInductionOnSets
  <1> QED
    BY <1>3 DEF S

\* Where a log of n entries is split.
LEMMA SplitIs ==
    ASSUME NEW n \in Nat, NEW k \in Nat, Pow2[k] < n, n <= Pow2[k + 1]
    PROVE  Split(n) = Pow2[k]
  <1> DEFINE Around(j) == Pow2[j] < n /\ n <= Pow2[j + 1]
  <1>1. k \in 0 .. n /\ Around(k)
    BY BelowPow2, Pow2Type
  <1>2. ASSUME NEW j \in 0 .. n, Around(j) PROVE j = k
    <2>1. j \in Nat /\ j + 1 \in Nat /\ k + 1 \in Nat
      OBVIOUS
    <2>2. /\ j + 1 <= k => Pow2[j + 1] <= Pow2[k]
          /\ k + 1 <= j => Pow2[k + 1] <= Pow2[j]
      BY <2>1, Pow2Grows
    <2>3. /\ Pow2[j] \in Nat /\ Pow2[k] \in Nat
          /\ Pow2[j + 1] \in Nat /\ Pow2[k + 1] \in Nat
      BY <2>1, Pow2Type
    <2>4. ~(j + 1 <= k) /\ ~(k + 1 <= j)
      BY <1>2, <2>2, <2>3
    <2> QED
      BY <2>1, <2>4
  <1> HIDE DEF Around
  <1>3. (CHOOSE j \in 0 .. n : Around(j)) = k
    BY <1>1, <1>2
  <1>4. Split(n) = Pow2[CHOOSE j \in 0 .. n : Around(j)]
    BY Zenon DEF Split, Around
  <1> QED
    BY <1>3, <1>4

\* Both parts of a split log are smaller.
LEMMA SplitFacts ==
    ASSUME NEW n \in Nat, n > 1
    PROVE  /\ \E k \in Nat : Split(n) = Pow2[k] /\ Pow2[k] < n /\ n <= Pow2[k + 1]
           /\ Split(n) \in 1 .. n - 1
  <1> DEFINE T == {j \in Nat : n <= Pow2[j + 1]}
  <1>1. n \in T
    BY BelowPow2, Pow2Equations, Pow2Type
  <1>2. PICK k \in T : \A j \in T : k <= j
    BY <1>1, HasLeast
  <1>3. Pow2[k] < n
    <2>1. CASE k = 0
      BY <2>1, Pow2Equations
    <2>2. CASE k # 0
      <3>1. k - 1 \in Nat /\ (k - 1) + 1 = k
        BY <2>2
      <3>2. k - 1 \notin T
        BY <1>2, <3>1
      <3> QED
        BY <3>1, <3>2, Pow2Type
    <2> QED
      BY <2>1, <2>2
  <1>4. Split(n) = Pow2[k]
    BY <1>3, SplitIs
  <1> QED
    BY <1>3, <1>4, Pow2Type

-----------------------------------------------------------------------------

\* The row for the intervals of n entries of the tables that MTH and Path are
\* read from, made of the rows for fewer entries: the hashes when i is no index,
\* the inclusion proofs of entry i otherwise.
Row(X, i, g, n) ==
    IF i = -1
    THEN [s \in Nat |->
            IF n = 0 THEN HashEmpty
            ELSE IF n = 1 THEN HashLeaf(X[s + 1])
            ELSE HashNode(g[Split(n)][s], g[n - Split(n)][s + Split(n)])]
    ELSE [s \in Nat |->
            IF n <= 1 THEN <<>>
            ELSE IF i < s + Split(n)
            THEN Append(g[Split(n)][s], MTH(X, s + Split(n), s + n))
            ELSE Append(g[n - Split(n)][s + Split(n)], MTH(X, s, s + Split(n)))]

\* A table of the rows up to m.
IsTable(X, i, g, m) == DOMAIN g = 0 .. m /\ \A n \in 0 .. m : g[n] = Row(X, i, g, n)

\* A row reads smaller rows only, so that ...
LEMMA RowDependsOnSmaller ==
    ASSUME NEW X, NEW i, NEW g, NEW h, NEW n \in Nat,
           \A k \in Nat : k < n => g[k] = h[k]
    PROVE  Row(X, i, g, n) = Row(X, i, h, n)
  <1>1. CASE n > 1
    <2>1. /\ Split(n) \in Nat /\ Split(n) < n
          /\ n - Split(n) \in Nat /\ n - Split(n) < n
      BY <1>1, SplitFacts
    <2>2. g[Split(n)] = h[Split(n)] /\ g[n - Split(n)] = h[n - Split(n)]
      BY <2>1
    <2> QED
      BY <2>2 DEF Row
  <1>2. CASE n <= 1
    <2>1. ~(n > 1) /\ (n = 0 \/ n = 1)
      BY <1>2
    <2> QED
      BY <1>2, <2>1 DEF Row
  <1> QED
    BY <1>1, <1>2

\* ... there is one table of each height, ...
LEMMA TablesAgree ==
    ASSUME NEW X, NEW i, NEW m \in Nat, NEW n \in Nat, NEW g, NEW h,
           IsTable(X, i, g, m), IsTable(X, i, h, n)
    PROVE  \A k \in Nat : k <= m /\ k <= n => g[k] = h[k]
  <1> DEFINE S == {k \in Nat : \A j \in 0 .. k : j <= m /\ j <= n => g[j] = h[j]}
  <1>1. ASSUME NEW k \in Nat, k <= m, k <= n, \A j \in Nat : j < k => g[j] = h[j]
        PROVE  g[k] = h[k]
    <2>1. g[k] = Row(X, i, g, k) /\ h[k] = Row(X, i, h, k)
      BY <1>1 DEF IsTable
    <2> QED
      BY <1>1, <2>1, RowDependsOnSmaller
  <1>2. 0 \in S
    <2>1. g[0] = h[0]
      BY <1>1
    <2> QED
      BY <2>1
  <1>3. ASSUME NEW k \in Nat, k \in S PROVE k + 1 \in S
    <2>1. ASSUME k + 1 <= m, k + 1 <= n PROVE g[k + 1] = h[k + 1]
      <3>1. \A j \in Nat : j < k + 1 => g[j] = h[j]
        BY <1>3, <2>1
      <3> QED
        BY <1>1, <2>1, <3>1
    <2>2. ASSUME NEW j \in 0 .. k + 1, j <= m, j <= n PROVE g[j] = h[j]
      <3>1. j \in 0 .. k \/ j = k + 1
        OBVIOUS
      <3> QED
        BY <1>3, <2>1, <2>2, <3>1
    <2> QED
      BY <2>2
  <1> HIDE DEF S
  <1>4. Nat \subseteq S
    BY <1>2, <1>3, NatInductionOnSets
  <1> QED
    BY <1>4 DEF S

\* ... and there is one, ...
LEMMA TablesExist == ASSUME NEW X, NEW i PROVE \A m \in Nat : \E g : IsTable(X, i, g, m)
  <1> DEFINE S == {m \in Nat : \E g : IsTable(X, i, g, m)}
  <1>1. 0 \in S
    <2> DEFINE g == [n \in 0 .. 0 |-> Row(X, i, <<>>, 0)]
    <2>1. g[0] = Row(X, i, <<>>, 0)
      OBVIOUS
    <2>2. Row(X, i, <<>>, 0) = Row(X, i, g, 0)
      <3> HIDE DEF g
      <3> QED
        BY RowDependsOnSmaller
    <2>3. IsTable(X, i, g, 0)
      BY <2>1, <2>2 DEF IsTable
    <2> QED
      BY <2>3
  <1>2. ASSUME NEW m \in Nat, m \in S
        PROVE  m + 1 \in S
    <2>1. PICK g : IsTable(X, i, g, m)
      BY <1>2
    <2> DEFINE h == [n \in 0 .. m + 1 |-> IF n <= m THEN g[n] ELSE Row(X, i, g, m + 1)]
    <2>2. \A n \in Nat : n <= m => h[n] = g[n]
      OBVIOUS
    <2>3. h[m + 1] = Row(X, i, g, m + 1) /\ DOMAIN h = 0 .. m + 1
      OBVIOUS
    <2> HIDE DEF h
    <2>4. ASSUME NEW n \in 0 .. m + 1 PROVE h[n] = Row(X, i, h, n)
      <3>1. n \in Nat
        OBVIOUS
      <3>2. h[n] = Row(X, i, g, n)
        BY <2>1, <2>2, <2>3, <3>1 DEF IsTable
      <3>3. \A k \in Nat : k < n => g[k] = h[k]
        BY <2>2, <3>1
      <3>4. Row(X, i, g, n) = Row(X, i, h, n)
        BY <3>1, <3>3, RowDependsOnSmaller
      <3> QED
        BY <3>2, <3>4
    <2>5. IsTable(X, i, h, m + 1)
      BY <2>3, <2>4 DEF IsTable
    <2> QED
      BY <2>5
  <1> HIDE DEF S
  <1>3. Nat \subseteq S
    BY <1>1, <1>2, NatInductionOnSets
  <1> QED
    BY <1>3 DEF S

\* ... which has a limit: the function MTH and Path choose exists.
LEMMA WholeTableExists == ASSUME NEW X, NEW i PROVE \E f : f = [n \in Nat |-> Row(X, i, f, n)]
  <1> DEFINE table(n) == CHOOSE g : IsTable(X, i, g, n)
             f == [n \in Nat |-> table(n)[n]]
  <1>1. \A n \in Nat : IsTable(X, i, table(n), n)
    BY TablesExist
  <1> HIDE DEF table
  <1>2. ASSUME NEW n \in Nat PROVE f[n] = Row(X, i, f, n)
    <2>1. f[n] = Row(X, i, table(n), n)
      BY <1>1 DEF IsTable
    <2>2. ASSUME NEW k \in Nat, k < n PROVE table(n)[k] = f[k]
      <3>1. IsTable(X, i, table(n), n) /\ IsTable(X, i, table(k), k)
        BY <1>1
      <3>2. table(n)[k] = table(k)[k]
        BY <2>2, <3>1, TablesAgree
      <3> QED
        BY <3>2
    <2> HIDE DEF f
    <2>3. Row(X, i, table(n), n) = Row(X, i, f, n)
      BY <2>2, RowDependsOnSmaller
    <2> QED
      BY <2>1, <2>3
  <1>3. f = [n \in Nat |-> f[n]]
    OBVIOUS
  <1> HIDE DEF f
  <1>4. f = [n \in Nat |-> Row(X, i, f, n)]
    BY <1>2, <1>3
  <1> QED
    BY <1>4

\* The equations of MTH.
LEMMA MTHTable ==
    ASSUME NEW X
    PROVE  \E f : /\ f = [n \in Nat |-> Row(X, -1, f, n)]
                  /\ \A a, b : MTH(X, a, b) = f[b - a][a]
  <1> DEFINE IsHashes(f) ==
               f = [n \in Nat |->
                     [s \in Nat |->
                        IF n = 0 THEN HashEmpty
                        ELSE IF n = 1 THEN HashLeaf(X[s + 1])
                        ELSE HashNode(f[Split(n)][s], f[n - Split(n)][s + Split(n)])]]
             f == CHOOSE f : IsHashes(f)
  <1>1. \E g : g = [n \in Nat |-> Row(X, -1, g, n)]
    BY WholeTableExists
  <1>2. ASSUME NEW g PROVE IsHashes(g) <=> g = [n \in Nat |-> Row(X, -1, g, n)]
    BY DEF Row
  <1>3. \A a, b : MTH(X, a, b) = f[b - a][a]
    BY DEF MTH
  <1> HIDE DEF IsHashes
  <1>4. IsHashes(f)
    BY <1>1, <1>2
  <1> HIDE DEF f
  <1> QED
    BY <1>2, <1>3, <1>4

LEMMA MTHEquations ==
    ASSUME NEW X, NEW a \in Nat
    PROVE  /\ MTH(X, a, a) = HashEmpty
           /\ MTH(X, a, a + 1) = HashLeaf(X[a + 1])
           /\ \A n \in Nat : n > 1 =>
                 MTH(X, a, a + n) = HashNode(MTH(X, a, a + Split(n)),
                                             MTH(X, a + Split(n), a + n))
  <1>1. PICK f : /\ f = [n \in Nat |-> Row(X, -1, f, n)]
                 /\ \A x, y : MTH(X, x, y) = f[y - x][x]
    BY MTHTable
  <1>2. ASSUME NEW n \in Nat
        PROVE  f[n][a] = IF n = 0 THEN HashEmpty
                         ELSE IF n = 1 THEN HashLeaf(X[a + 1])
                         ELSE HashNode(f[Split(n)][a], f[n - Split(n)][a + Split(n)])
    <2>1. f[n] = Row(X, -1, f, n)
      BY <1>1
    <2> QED
      BY <2>1 DEF Row
  <1>3. MTH(X, a, a) = f[0][a] /\ MTH(X, a, a + 1) = f[1][a]
    <2>1. a - a = 0 /\ (a + 1) - a = 1
      OBVIOUS
    <2> QED
      BY <1>1, <2>1
  <1>4. MTH(X, a, a) = HashEmpty /\ MTH(X, a, a + 1) = HashLeaf(X[a + 1])
    BY <1>2, <1>3
  <1>5. ASSUME NEW n \in Nat, n > 1
        PROVE  MTH(X, a, a + n) = HashNode(MTH(X, a, a + Split(n)),
                                           MTH(X, a + Split(n), a + n))
    <2>1. Split(n) \in Nat
      BY <1>5, SplitFacts
    <2> DEFINE p == Split(n)
    <2>2. f[n][a] = HashNode(f[p][a], f[n - p][a + p])
      BY <1>2, <1>5
    <2> HIDE DEF p
    <2>3. (a + n) - a = n /\ (a + p) - a = p /\ (a + n) - (a + p) = n - p
      BY <2>1 DEF p
    <2>4. /\ MTH(X, a, a + n) = f[n][a] /\ MTH(X, a, a + p) = f[p][a]
          /\ MTH(X, a + p, a + n) = f[n - p][a + p]
      BY <1>1, <2>3, Zenon
    <2> QED
      BY <2>2, <2>4 DEF p
  <1> QED
    BY <1>4, <1>5

\* Append, for the provers to leave alone.
Longer(p, h) == Append(p, h)

\* The equations of Path.
PathIs(X, i, a, n) ==
    /\ n <= 1 => Path(X, i, a, a + n) = <<>>
    /\ n > 1 /\ i < a + Split(n) =>
          Path(X, i, a, a + n) = Longer(Path(X, i, a, a + Split(n)),
                                        MTH(X, a + Split(n), a + n))
    /\ n > 1 /\ i >= a + Split(n) =>
          Path(X, i, a, a + n) = Longer(Path(X, i, a + Split(n), a + n),
                                        MTH(X, a, a + Split(n)))

LEMMA PathEquations ==
    ASSUME NEW X, NEW i \in Nat, NEW a \in Nat, NEW n \in Nat
    PROVE  PathIs(X, i, a, n)
  <1> DEFINE IsPaths(f) ==
               f = [k \in Nat |->
                     [s \in Nat |->
                        IF k <= 1 THEN <<>>
                        ELSE IF i < s + Split(k)
                        THEN Append(f[Split(k)][s], MTH(X, s + Split(k), s + k))
                        ELSE Append(f[k - Split(k)][s + Split(k)],
                                    MTH(X, s, s + Split(k)))]]
             f == CHOOSE f : IsPaths(f)
  <1>1. \E g : g = [k \in Nat |-> Row(X, i, g, k)]
    BY WholeTableExists
  <1>2. ASSUME NEW g PROVE IsPaths(g) <=> g = [k \in Nat |-> Row(X, i, g, k)]
    <2>1. i # -1
      OBVIOUS
    <2> QED
      BY <2>1 DEF Row
  <1>3. \A x, y : Path(X, i, x, y) = f[y - x][x]
    BY DEF Path
  <1> HIDE DEF IsPaths
  <1>4. IsPaths(f)
    BY <1>1, <1>2
  <1> HIDE DEF f
  <1>5. f[n][a] = IF n <= 1 THEN <<>>
                  ELSE IF i < a + Split(n)
                  THEN Append(f[Split(n)][a], MTH(X, a + Split(n), a + n))
                  ELSE Append(f[n - Split(n)][a + Split(n)], MTH(X, a, a + Split(n)))
    <2>1. f[n] = Row(X, i, f, n) /\ i # -1
      BY <1>2, <1>4
    <2> QED
      BY <2>1 DEF Row
  <1>6. Path(X, i, a, a + n) = f[n][a]
    <2>1. (a + n) - a = n
      OBVIOUS
    <2> QED
      BY <1>3, <2>1
  <1>7. CASE n <= 1
    <2>1. f[n][a] = <<>> /\ ~(n > 1)
      BY <1>5, <1>7
    <2> QED
      BY <1>6, <1>7, <2>1 DEF PathIs
  <1>8. CASE n > 1
    <2> DEFINE p == Split(n)
    <2>1. p \in Nat
      BY <1>8, SplitFacts
    <2>2. /\ i < a + p => f[n][a] = Longer(f[p][a], MTH(X, a + p, a + n))
          /\ i >= a + p => f[n][a] = Longer(f[n - p][a + p], MTH(X, a, a + p))
      <3>1. ~(n <= 1) /\ ~(i < a + p /\ i >= a + p)
        BY <1>8, <2>1
      <3> QED
        BY <1>5, <3>1 DEF Longer
    <2> HIDE DEF p
    <2>3. (a + p) - a = p /\ (a + n) - (a + p) = n - p
      BY <2>1
    <2>4. Path(X, i, a, a + p) = f[p][a] /\ Path(X, i, a + p, a + n) = f[n - p][a + p]
      BY <1>3, <2>3, Zenon
    <2>5. ~(n <= 1)
      BY <1>8
    <2> QED
      BY <1>6, <2>2, <2>4, <2>5, Zenon DEF p, PathIs
  <1> QED
    BY <1>7, <1>8

\* The equations one by one.
LEMMA PathLeft ==
    ASSUME NEW X, NEW i \in Nat, NEW a \in Nat, NEW n \in Nat, n > 1, i < a + Split(n)
    PROVE  Path(X, i, a, a + n) = Longer(Path(X, i, a, a + Split(n)),
                                         MTH(X, a + Split(n), a + n))
  <1>1. PathIs(X, i, a, n)
    BY PathEquations
  <1> QED
    BY <1>1 DEF PathIs

LEMMA PathRight ==
    ASSUME NEW X, NEW i \in Nat, NEW a \in Nat, NEW n \in Nat, n > 1, i >= a + Split(n)
    PROVE  Path(X, i, a, a + n) = Longer(Path(X, i, a + Split(n), a + n),
                                         MTH(X, a, a + Split(n)))
  <1>1. PathIs(X, i, a, n)
    BY PathEquations
  <1> QED
    BY <1>1 DEF PathIs

-----------------------------------------------------------------------------

\* Shifting once more halves.
LEMMA Halving ==
    ASSUME NEW x \in Nat, NEW l \in Nat
    PROVE  x \div Pow2[l + 1] = (x \div Pow2[l]) \div 2
  <1> DEFINE P == Pow2[l]
             f == x \div P
             q == f \div 2
             r == P * (f % 2) + (x % P)
  <1>1. P \in Nat \ {0} /\ Pow2[l + 1] = 2 * P
    BY Pow2Equations, Pow2Type
  <1> HIDE DEF P
  <1>2. f \in Nat /\ x % P \in Nat /\ x % P < P /\ x = P * f + (x % P)
    BY <1>1, DivMod
  <1> HIDE DEF f
  <1>3. q \in Nat /\ f % 2 \in 0 .. 1 /\ f = 2 * q + (f % 2)
    BY <1>2
  <1>4. P * f = (2 * P) * q + P * (f % 2) /\ P * (f % 2) \in Nat /\ P * (f % 2) <= P
    <2>1. P * (2 * q + (f % 2)) = (2 * P) * q + P * (f % 2)
      BY <1>1, <1>3
    <2>2. f % 2 = 0 \/ f % 2 = 1
      BY <1>3
    <2> QED
      BY <1>1, <1>3, <2>1, <2>2
  <1>5. x = (2 * P) * q + r /\ r \in Nat /\ r < 2 * P
    <2> HIDE DEF q
    <2> DEFINE a == (2 * P) * q
               b == P * (f % 2)
    <2>1. a \in Nat
      BY <1>1, <1>3
    <2> HIDE DEF a, b
    <2> QED
      BY <1>1, <1>2, <1>3, <1>4, <2>1 DEF a, b
  <1> HIDE DEF q, r
  <1> DEFINE M == 2 * P
  <1>6. M \in Nat \ {0}
    BY <1>1
  <1>7. x = M * q + r /\ r < M
    BY <1>5
  <1> HIDE DEF M
  <1>8. x \div M = q
    BY <1>3, <1>5, <1>6, <1>7, DivModUnique
  <1>9. Pow2[l + 1] = M
    BY <1>1 DEF M
  <1> QED
    BY <1>8, <1>9, Zenon DEF q, f, P

-----------------------------------------------------------------------------

\* The node of level l of the subtree [s, e) that entry i is below, its hash,
\* the proof of the entry in it, and the hash of the node beside it.
At(x, s, l) == (x - s) \div Pow2[l]
Lo(i, s, l) == s + Pow2[l] * At(i, s, l)
Hi(i, s, e, l) == IF Lo(i, s, l) + Pow2[l] < e THEN Lo(i, s, l) + Pow2[l] ELSE e
HashAt(X, i, s, e, l) == MTH(X, Lo(i, s, l), Hi(i, s, e, l))
PathAt(X, i, s, e, l) == Path(X, i, Lo(i, s, l), Hi(i, s, e, l))
Sibling(X, i, s, e, l) ==
    IF At(i, s, l) % 2 = 1
    THEN MTH(X, Lo(i, s, l) - Pow2[l], Lo(i, s, l))
    ELSE MTH(X, Lo(i, s, l) + Pow2[l], Hi(i, s, e, l + 1))

\* A node whose left child is complete.
IsSplitAt(a, c, b) ==
    /\ a \in Nat /\ b \in Nat /\ c \in Nat
    /\ \E l \in Nat : c = a + Pow2[l] /\ c < b /\ b <= a + Pow2[l + 1]

\* It is where the draft splits.
LEMMA SplitAt ==
    ASSUME NEW a, NEW b, NEW c, IsSplitAt(a, c, b)
    PROVE  a \in Nat /\ b - a \in Nat /\ b - a > 1 /\ a + (b - a) = b /\ a + Split(b - a) = c
  <1>0. PICK l \in Nat : c = a + Pow2[l] /\ c < b /\ b <= a + Pow2[l + 1]
    BY DEF IsSplitAt
  <1>1. /\ Pow2[l] \in Nat \ {0} /\ Pow2[l + 1] \in Nat
        /\ a \in Nat /\ b \in Nat /\ c \in Nat
    BY Pow2Type DEF IsSplitAt
  <1>2. b - a \in Nat /\ b - a > 1 /\ a + (b - a) = b
        /\ Pow2[l] < b - a /\ b - a <= Pow2[l + 1]
    BY <1>0, <1>1
  <1> QED
    BY <1>0, <1>1, <1>2, SplitIs

\* Its hash and its proofs are made of those of its children.
LEMMA HashOfSplit ==
    ASSUME NEW X, NEW a, NEW b, NEW c, IsSplitAt(a, c, b)
    PROVE  MTH(X, a, b) = HashNode(MTH(X, a, c), MTH(X, c, b))
  <1> DEFINE n == b - a
  <1>1. n \in Nat /\ n > 1 /\ a + Split(n) = c /\ a + n = b /\ a \in Nat
    BY SplitAt
  <1> HIDE DEF n
  <1>2. MTH(X, a, a + n) = HashNode(MTH(X, a, a + Split(n)), MTH(X, a + Split(n), a + n))
    BY <1>1, MTHEquations
  <1> QED
    BY <1>1, <1>2, Zenon

LEMMA PathOfSplit ==
    ASSUME NEW X, NEW i \in Nat, NEW a, NEW b, NEW c, IsSplitAt(a, c, b)
    PROVE  /\ i < c => Path(X, i, a, b) = Longer(Path(X, i, a, c), MTH(X, c, b))
           /\ i >= c => Path(X, i, a, b) = Longer(Path(X, i, c, b), MTH(X, a, c))
  <1> DEFINE n == b - a
  <1>1. n \in Nat /\ n > 1 /\ a + Split(n) = c /\ a + n = b /\ a \in Nat
    BY SplitAt
  <1> HIDE DEF n
  <1>2. ASSUME i < a + Split(n)
        PROVE  Path(X, i, a, a + n) = Longer(Path(X, i, a, a + Split(n)),
                                             MTH(X, a + Split(n), a + n))
    BY <1>1, <1>2, PathLeft
  <1>3. ASSUME i >= a + Split(n)
        PROVE  Path(X, i, a, a + n) = Longer(Path(X, i, a + Split(n), a + n),
                                             MTH(X, a, a + Split(n)))
    BY <1>1, <1>3, PathRight
  <1> QED
    BY <1>1, <1>2, <1>3, Zenon

\* A node has the entry in it, lies in the subtree, and is cut off by the end of
\* the subtree only when it is the last of its level.
LEMMA NodeFacts ==
    ASSUME NEW i \in Nat, NEW s \in Nat, NEW e \in Nat, s <= i, i < e, NEW l \in Nat
    PROVE  /\ At(i, s, l) \in Nat /\ At(e - 1, s, l) \in Nat
           /\ At(i, s, l) <= At(e - 1, s, l)
           /\ Lo(i, s, l) \in Nat /\ Hi(i, s, e, l) \in Nat
           /\ s <= Lo(i, s, l) /\ Lo(i, s, l) <= i
           /\ i < Hi(i, s, e, l) /\ Hi(i, s, e, l) <= e
           /\ Hi(i, s, e, l) <= Lo(i, s, l) + Pow2[l]
           /\ i < Lo(i, s, l) + Pow2[l]
           /\ At(i, s, l) < At(e - 1, s, l) =>
                 Lo(i, s, l) + Pow2[l] < e
           /\ At(i, s, l) = At(e - 1, s, l) =>
                 e <= Lo(i, s, l) + Pow2[l]
  <1> DEFINE P == Pow2[l]
             f == (i - s) \div P
             n == (e - 1 - s) \div P
             u == (i - s) % P
             v == (e - 1 - s) % P
  <1>1. P \in Nat \ {0} /\ i - s \in Nat /\ e - 1 - s \in Nat
    BY Pow2Type
  <1> HIDE DEF P
  <1>2. /\ f \in Nat /\ u \in Nat /\ u < P /\ i - s = P * f + u
        /\ n \in Nat /\ v \in Nat /\ v < P /\ e - 1 - s = P * n + v
    BY <1>1, DivMod
  <1> HIDE DEF f, n, u, v
  <1> DEFINE a == P * f
             b == P * n
  <1>3. /\ a \in Nat /\ b \in Nat
        /\ f < n => a + P <= b
        /\ f = n => a = b
        /\ n < f => b + P <= a
    <2>1. f < n => P * (f + 1) <= P * n
      BY <1>1, <1>2
    <2>2. n < f => P * (n + 1) <= P * f
      BY <1>1, <1>2
    <2>3. P * (f + 1) = P * f + P /\ P * (n + 1) = P * n + P
      BY <1>1, <1>2
    <2> QED
      BY <1>1, <1>2, <2>1, <2>2, <2>3
  <1>4. Lo(i, s, l) = s + a /\ i - s = a + u /\ e - 1 - s = b + v
    BY <1>2 DEF Lo, At, P, f
  <1> HIDE DEF a, b
  <1>5. f <= n
    BY <1>1, <1>2, <1>3, <1>4
  <1>6. /\ s + a \in Nat /\ s <= s + a /\ s + a <= i /\ i < s + a + P
        /\ f < n => s + a + P < e
        /\ f = n => e <= s + a + P
    BY <1>1, <1>2, <1>3, <1>4
  <1>7. Hi(i, s, e, l) = IF s + a + P < e THEN s + a + P ELSE e
    BY <1>4 DEF Hi, P
  <1>8. f = At(i, s, l) /\ n = At(e - 1, s, l) /\ P = Pow2[l]
    BY DEF At, f, n, P
  <1> QED
    BY <1>1, <1>2, <1>4, <1>5, <1>6, <1>7, <1>8

\* The node of the next level is made of this one and the one beside it, if
\* there is one.
LEMMA NodeAbove ==
    ASSUME NEW i \in Nat, NEW s \in Nat, NEW e \in Nat, s <= i, i < e, NEW l \in Nat,
           NEW P, P = Pow2[l], NEW lo, lo = Lo(i, s, l), NEW hi, hi = Hi(i, s, e, l),
           NEW up, up = Hi(i, s, e, l + 1), NEW f, f = At(i, s, l), NEW n, n = At(e - 1, s, l)
    PROVE  /\ f % 2 = 0 \/ f % 2 = 1
           /\ f = n \/ f < n
           /\ f % 2 = 1 => Lo(i, s, l + 1) = lo - P /\ up = hi /\ IsSplitAt(lo - P, lo, hi)
           /\ f % 2 = 0 /\ f < n =>
                 /\ Lo(i, s, l + 1) = lo /\ hi = lo + P
                 /\ IsSplitAt(lo, hi, up) /\ up <= lo + 2 * P
           /\ f % 2 = 0 /\ f = n => Lo(i, s, l + 1) = lo /\ up = hi /\ up = e
  <1> DEFINE g == f \div 2
  <1>1. P \in Nat \ {0} /\ Pow2[l + 1] = 2 * P /\ i - s \in Nat /\ l + 1 \in Nat
    BY Pow2Equations, Pow2Type
  <1>2. f \in Nat /\ n \in Nat /\ f <= n /\ lo = s + P * f
    BY NodeFacts DEF Lo
  <1>3. Lo(i, s, l + 1) = s + (2 * P) * g /\ g \in Nat
    BY <1>1, <1>2, Halving DEF Lo, At
  <1>4. /\ lo \in Nat /\ hi \in Nat /\ s <= lo /\ lo <= i /\ i < hi /\ hi <= e
        /\ hi <= lo + P
        /\ (f < n => lo + P < e) /\ (f = n => e <= lo + P)
        /\ hi = IF lo + P < e THEN lo + P ELSE e
    BY NodeFacts DEF Hi
  <1>5. up = IF Lo(i, s, l + 1) + 2 * P < e THEN Lo(i, s, l + 1) + 2 * P ELSE e
    BY <1>1 DEF Hi
  <1>6. ASSUME f % 2 = 1
        PROVE  Lo(i, s, l + 1) = lo - P /\ up = hi /\ IsSplitAt(lo - P, lo, hi)
    <2>1. f = 2 * g + 1
      BY <1>2, <1>6
    <2>2. P * f = (2 * P) * g + P
      BY <1>1, <1>2, <1>3, <2>1
    <2> DEFINE b == (2 * P) * g
    <2>3. b \in Nat
      BY <1>1, <1>3
    <2> HIDE DEF b
    <2>4. Lo(i, s, l + 1) = lo - P /\ lo - P \in Nat
      BY <1>1, <1>2, <1>3, <2>2, <2>3 DEF b
    <2>5. up = hi
      BY <1>1, <1>4, <1>5, <2>4
    <2>6. lo = (lo - P) + Pow2[l] /\ lo < hi /\ hi <= (lo - P) + Pow2[l + 1]
      BY <1>1, <1>4, <2>4
    <2>7. IsSplitAt(lo - P, lo, hi)
      BY <1>4, <2>4, <2>6 DEF IsSplitAt
    <2> QED
      BY <2>4, <2>5, <2>7
  <1>7. ASSUME f % 2 = 0 PROVE Lo(i, s, l + 1) = lo
    <2>1. f = 2 * g
      BY <1>2, <1>7
    <2>2. P * f = (2 * P) * g
      BY <1>1, <1>2, <1>3, <2>1
    <2> QED
      BY <1>2, <1>3, <2>2
  <1>8. ASSUME f % 2 = 0, f < n
        PROVE  hi = lo + P /\ IsSplitAt(lo, hi, up) /\ up <= lo + 2 * P
    <2>1. hi = lo + P /\ hi < up /\ up <= lo + 2 * P /\ up \in Nat
      BY <1>1, <1>4, <1>5, <1>7, <1>8
    <2>2. hi = lo + Pow2[l] /\ up <= lo + Pow2[l + 1]
      BY <1>1, <2>1
    <2>3. IsSplitAt(lo, hi, up)
      BY <1>4, <2>1, <2>2 DEF IsSplitAt
    <2> QED
      BY <2>1, <2>3
  <1>9. ASSUME f % 2 = 0, f = n PROVE up = hi /\ up = e
    BY <1>1, <1>4, <1>5, <1>7, <1>9
  <1>10. (f % 2 = 0 \/ f % 2 = 1) /\ (f = n \/ f < n)
    BY <1>2
  <1> QED
    BY <1>6, <1>7, <1>8, <1>9, <1>10

\* From a level to the next.
LEMMA NodeStep ==
    ASSUME NEW X, NEW i \in Nat, NEW s \in Nat, NEW e \in Nat, s <= i, i < e, NEW l \in Nat
    PROVE  /\ At(i, s, l) % 2 = 1 =>
                 /\ PathAt(X, i, s, e, l + 1)
                       = Longer(PathAt(X, i, s, e, l), Sibling(X, i, s, e, l))
                 /\ HashAt(X, i, s, e, l + 1)
                       = HashNode(Sibling(X, i, s, e, l), HashAt(X, i, s, e, l))
           /\ At(i, s, l) % 2 = 0 /\ At(i, s, l) < At(e - 1, s, l) =>
                 /\ PathAt(X, i, s, e, l + 1)
                       = Longer(PathAt(X, i, s, e, l), Sibling(X, i, s, e, l))
                 /\ HashAt(X, i, s, e, l + 1)
                       = HashNode(HashAt(X, i, s, e, l), Sibling(X, i, s, e, l))
           /\ At(i, s, l) % 2 = 0 /\ At(i, s, l) = At(e - 1, s, l) =>
                 /\ PathAt(X, i, s, e, l + 1) = PathAt(X, i, s, e, l)
                 /\ HashAt(X, i, s, e, l + 1) = HashAt(X, i, s, e, l)
  <1> DEFINE P == Pow2[l]
             lo == Lo(i, s, l)
             hi == Hi(i, s, e, l)
             up == Hi(i, s, e, l + 1)
             f == At(i, s, l)
             n == At(e - 1, s, l)
  <1>1. /\ f % 2 = 1 => Lo(i, s, l + 1) = lo - P /\ up = hi /\ IsSplitAt(lo - P, lo, hi)
        /\ f % 2 = 0 /\ f < n =>
              Lo(i, s, l + 1) = lo /\ hi = lo + P /\ IsSplitAt(lo, hi, up)
        /\ f % 2 = 0 /\ f = n => Lo(i, s, l + 1) = lo /\ up = hi
    BY NodeAbove
  <1>2. lo \in Nat /\ hi \in Nat /\ lo <= i /\ i < hi
    BY NodeFacts
  <1>3. PathAt(X, i, s, e, l) = Path(X, i, lo, hi) /\ HashAt(X, i, s, e, l) = MTH(X, lo, hi)
    BY DEF PathAt, HashAt
  <1>4. /\ PathAt(X, i, s, e, l + 1) = Path(X, i, Lo(i, s, l + 1), up)
        /\ HashAt(X, i, s, e, l + 1) = MTH(X, Lo(i, s, l + 1), up)
    BY DEF PathAt, HashAt
  <1>5. Sibling(X, i, s, e, l) = IF f % 2 = 1 THEN MTH(X, lo - P, lo) ELSE MTH(X, lo + P, up)
    BY DEF Sibling
  <1>0. f \in Nat /\ n \in Nat
    BY NodeFacts
  <1> HIDE DEF P, lo, hi, up, f, n
  <1>6. ~(f % 2 = 1 /\ f % 2 = 0) /\ ~(f < n /\ f = n)
    BY <1>0
  <1>7. CASE f % 2 = 1
    <2> DEFINE a == lo - P
    <2>1. IsSplitAt(a, lo, hi) /\ i >= lo
      BY <1>1, <1>2, <1>7
    <2> HIDE DEF a
    <2>2. /\ MTH(X, a, hi) = HashNode(MTH(X, a, lo), MTH(X, lo, hi))
          /\ Path(X, i, a, hi) = Longer(Path(X, i, lo, hi), MTH(X, a, lo))
      BY <2>1, HashOfSplit, PathOfSplit
    <2> QED
      BY <1>1, <1>3, <1>4, <1>5, <1>6, <1>7, <2>2, Zenon DEF a, f
  <1>8. CASE f % 2 = 0 /\ f < n
    <2>1. IsSplitAt(lo, hi, up) /\ i < hi
      BY <1>1, <1>2, <1>8
    <2>2. /\ MTH(X, lo, up) = HashNode(MTH(X, lo, hi), MTH(X, hi, up))
          /\ Path(X, i, lo, up) = Longer(Path(X, i, lo, hi), MTH(X, hi, up))
      BY <2>1, HashOfSplit, PathOfSplit
    <2> QED
      BY <1>1, <1>3, <1>4, <1>5, <1>6, <1>8, <2>2, Zenon DEF f, n
  <1>9. CASE f % 2 = 0 /\ f = n
    BY <1>1, <1>3, <1>4, <1>6, <1>9, Zenon DEF f, n
  <1>10. CASE ~(f % 2 = 1) /\ ~(f % 2 = 0 /\ f < n) /\ ~(f % 2 = 0 /\ f = n)
    BY <1>10, Zenon DEF f, n
  <1> QED
    BY <1>7, <1>8, <1>9, <1>10

\* At the bottom is the entry.
LEMMA NodeBottom ==
    ASSUME NEW X, NEW i \in Nat, NEW s \in Nat, NEW e \in Nat, s <= i, i < e
    PROVE  /\ At(i, s, 0) = i - s /\ At(e - 1, s, 0) = e - 1 - s
           /\ PathAt(X, i, s, e, 0) = <<>> /\ HashAt(X, i, s, e, 0) = HashLeaf(X[i + 1])
  <1>1. At(i, s, 0) = i - s /\ At(e - 1, s, 0) = e - 1 - s
    BY Pow2Equations DEF At
  <1>2. Lo(i, s, 0) = i /\ Hi(i, s, e, 0) = i + 1
    BY Pow2Equations DEF Lo, Hi, At
  <1>3. Path(X, i, i, i + 1) = <<>> /\ MTH(X, i, i + 1) = HashLeaf(X[i + 1])
    <2>1. PathIs(X, i, i, 1)
      BY PathEquations
    <2>2. Path(X, i, i, i + 1) = <<>>
      BY <2>1 DEF PathIs
    <2> QED
      BY <2>2, MTHEquations
  <1>4. PathAt(X, i, s, e, 0) = <<>> /\ HashAt(X, i, s, e, 0) = HashLeaf(X[i + 1])
    BY <1>2, <1>3, Zenon DEF PathAt, HashAt
  <1> QED
    BY <1>1, <1>4

\* At the top is the whole subtree.
LEMMA NodeTop ==
    ASSUME NEW X, NEW i \in Nat, NEW s \in Nat, NEW e \in Nat, s <= i, i < e,
           NEW l \in Nat, At(e - 1, s, l) = 0
    PROVE  /\ PathAt(X, i, s, e, l) = Path(X, i, s, e)
           /\ HashAt(X, i, s, e, l) = MTH(X, s, e)
  <1> DEFINE f == At(i, s, l)
             P == Pow2[l]
  <1>1. f = 0 /\ P \in Nat
    <2>1. f \in Nat /\ f <= At(e - 1, s, l)
      BY NodeFacts
    <2> HIDE DEF f
    <2> QED
      BY <2>1, Pow2Type
  <1>2. Lo(i, s, l) = s + P * f
    BY DEF Lo
  <1> HIDE DEF f
  <1>3. Lo(i, s, l) = s
    BY <1>1, <1>2
  <1>4. e <= Lo(i, s, l) + Pow2[l]
    BY <1>1, NodeFacts DEF f
  <1>5. Hi(i, s, e, l) = e
    BY <1>1, <1>3, <1>4 DEF Hi
  <1> QED
    BY <1>3, <1>5, Zenon DEF PathAt, HashAt

-----------------------------------------------------------------------------

\* A valid subtree that is not empty.
IsAligned(s, e, k) ==
    /\ s \in Nat /\ e \in Nat /\ k \in Nat
    /\ s % Pow2[k] = 0 /\ s < e /\ e <= s + Pow2[k]

\* Such subtrees are the valid ones.
LEMMA ValidIsAligned ==
    ASSUME NEW s \in Word, NEW e \in Word, s < e
    PROVE  IsValidSubtree(s, e) <=> \E k \in 0 .. W : IsAligned(s, e, k)
  <1>0. W \in Nat /\ s \in Nat /\ e \in Nat /\ e - s \in Nat /\ e - s \in Word /\ e - s # 0
    BY WordFacts
  <1>1. PICK k \in 0 .. W : /\ BitCeil(e - s) = Pow2[k] /\ e - s <= Pow2[k]
                            /\ k # 0 => Pow2[k - 1] < e - s
    BY <1>0, BitCeilFacts
  <1>2. k \in Nat /\ Pow2[k] \in Nat
    BY <1>0, Pow2Type
  <1>3. IsValidSubtree(s, e) <=> s % Pow2[k] = 0
    BY <1>0, <1>1, ValidSubtreeIs DEF IsSubtree
  <1>4. ASSUME s % Pow2[k] = 0 PROVE IsAligned(s, e, k)
    BY <1>0, <1>1, <1>2, <1>4 DEF IsAligned
  <1>5. ASSUME NEW j \in 0 .. W, IsAligned(s, e, j) PROVE s % Pow2[k] = 0
    <2>1. j \in Nat /\ Pow2[j] \in Nat /\ s % Pow2[j] = 0 /\ e - s <= Pow2[j]
      BY <1>0, <1>5, Pow2Type DEF IsAligned
    <2>2. k <= j
      <3> SUFFICES ASSUME j < k PROVE FALSE
        BY <1>2, <2>1
      <3>1. k # 0 /\ k - 1 \in Nat /\ j <= k - 1
        BY <1>2, <2>1
      <3>2. Pow2[j] <= Pow2[k - 1] /\ Pow2[k - 1] \in Nat
        BY <2>1, <3>1, Pow2Grows, Pow2Type
      <3> QED
        BY <1>0, <1>1, <2>1, <3>1, <3>2
    <2> QED
      BY <1>0, <1>2, <2>1, <2>2, MultiplesOfSmaller
  <1> QED
    BY <1>3, <1>4, <1>5

\* The nodes of a subtree are nodes of the tree.
LEMMA Absolute ==
    ASSUME NEW s, NEW e, NEW k, IsAligned(s, e, k), NEW x \in Nat, s <= x, x < e,
           NEW l \in Nat
    PROVE  /\ s \div Pow2[l] \in Nat
           /\ x \div Pow2[l] = (s \div Pow2[l]) + At(x, s, l)
           /\ At(x, s, l) # 0 =>
                 /\ l < k /\ s = Pow2[l] * (s \div Pow2[l]) /\ (s \div Pow2[l]) % 2 = 0
  <1> DEFINE P == Pow2[l]
             R == Pow2[k]
             d == x - s
             f == d \div P
             u == d % P
  <1>0. /\ s \in Nat /\ e \in Nat /\ k \in Nat /\ P \in Nat \ {0} /\ R \in Nat \ {0}
        /\ d \in Nat /\ d < R
    BY Pow2Type DEF IsAligned
  <1>1. f \in Nat /\ u \in Nat /\ u < P /\ d = P * f + u
    BY <1>0, DivMod
  <1>2. PICK t \in Nat : s = R * t
    <2> HIDE DEF R
    <2>1. s % R = 0
      BY DEF IsAligned, R
    <2> QED
      BY <1>0, <2>1, Multiples
  <1>3. At(x, s, l) = f
    BY DEF At
  <1> HIDE DEF f, u
  <1>4. CASE l < k
    <2>1. l + 1 \in Nat /\ l + 1 <= k /\ Pow2[l + 1] = 2 * P
      BY <1>0, <1>4, Pow2Equations
    <2>2. PICK q \in Nat \ {0} : R = (2 * P) * q
      BY <1>0, <2>1, Pow2Divides
    <2> HIDE DEF P, R
    <2> DEFINE v == q * t
               c == 2 * v
               g == c + f
    <2>3. s = P * c /\ v \in Nat
      BY <1>0, <1>2, <2>2
    <2> HIDE DEF v
    <2>4. c \in Nat /\ g \in Nat /\ c % 2 = 0
      BY <1>1, <2>3
    <2>5. P * g = P * c + P * f
      <3> HIDE DEF c
      <3> QED
        BY <1>0, <1>1, <2>4
    <2> DEFINE a == P * c
               b == P * f
    <2>6. a \in Nat /\ b \in Nat
      BY <1>0, <1>1, <2>4
    <2> HIDE DEF c, g, d
    <2>7. x = P * g + u
      <3>1. x = s + d
        BY <1>0 DEF d
      <3> HIDE DEF a, b
      <3>2. s = a /\ d = b + u /\ P * g = a + b
        BY <1>1, <2>3, <2>5 DEF a, b
      <3> QED
        BY <1>1, <2>6, <3>1, <3>2
    <2>8. x \div P = g
      BY <1>0, <1>1, <2>4, <2>7, DivModUnique
    <2>9. s \div P = c
      <3>1. (P * c + 0) \div P = c
        BY <1>0, <2>4, DivModUnique
      <3>2. P * c + 0 = s
        BY <1>0, <2>3
      <3> QED
        BY <3>1, <3>2
    <2> QED
      BY <1>3, <1>4, <2>3, <2>4, <2>8, <2>9 DEF g, P
  <1>5. CASE k <= l
    <2>1. PICK q \in Nat \ {0} : P = R * q
      BY <1>0, <1>5, Pow2Divides
    <2> HIDE DEF P, R
    <2>2. d < P
      <3>1. R * 1 <= R * q
        BY <1>0, <2>1
      <3> QED
        BY <1>0, <2>1, <3>1
    <2>3. f = 0
      <3>1. (P * 0 + d) \div P = 0
        <4> HIDE DEF d
        <4> QED
          BY <1>0, <2>2, DivModUnique
      <3>2. P * 0 + d = d
        BY <1>0
      <3> QED
        BY <3>1, <3>2 DEF f
    <2> DEFINE a == t \div q
               b == t % q
               r == R * b
    <2>4. a \in Nat /\ b \in Nat /\ b < q /\ t = q * a + b
      BY <1>2, <2>1, DivMod
    <2> HIDE DEF a, b, d
    <2>5. r \in Nat /\ r + R <= P
      <3>1. R * (b + 1) <= R * q
        BY <1>0, <2>1, <2>4
      <3>2. R * (b + 1) = R * b + R
        BY <1>0, <2>4
      <3> QED
        BY <1>0, <2>1, <2>4, <3>1, <3>2
    <2>6. s = P * a + r
      <3>1. R * (q * a + b) = (R * q) * a + R * b
        BY <1>0, <2>1, <2>4
      <3> QED
        BY <1>2, <2>1, <2>4, <3>1
    <2> DEFINE m == r + d
               pa == P * a
    <2>7. m \in Nat /\ m < P /\ r < P
      BY <1>0, <2>5
    <2>8. pa \in Nat
      BY <1>0, <2>4
    <2> HIDE DEF r, pa
    <2>9. x = P * a + m
      <3>1. x = s + d
        BY <1>0 DEF d
      <3>2. s = pa + r
        BY <2>6 DEF pa
      <3>3. x = pa + (r + d)
        BY <1>0, <2>5, <2>8, <3>1, <3>2
      <3> QED
        BY <3>3 DEF pa
    <2> HIDE DEF m
    <2>10. x \div P = a /\ s \div P = a
      BY <1>0, <2>4, <2>5, <2>6, <2>7, <2>9, DivModUnique
    <2> QED
      BY <1>3, <2>3, <2>4, <2>10 DEF P
  <1> QED
    BY <1>0, <1>4, <1>5

\* Multiples of a number.
LEMMA SmallMultiple ==
    ASSUME NEW x \in Nat, NEW m \in Nat \ {0}, x % m = 0, x # 0
    PROVE  m <= x
  <1>1. PICK q \in Nat : x = m * q
    BY Multiples
  <1>2. q # 0 /\ m * 1 <= m * q
    BY <1>1
  <1> QED
    BY <1>1, <1>2

LEMMA SumOfMultiples ==
    ASSUME NEW x \in Nat, NEW y \in Nat, NEW m \in Nat \ {0}, x % m = 0
    PROVE  y % m = 0 <=> (x + y) % m = 0
  <1>1. PICK p \in Nat : x = m * p
    BY Multiples
  <1>2. ASSUME y % m = 0 PROVE (x + y) % m = 0
    <2>1. PICK q \in Nat : y = m * q
      BY <1>2, Multiples
    <2> DEFINE z == p + q
               w == x + y
    <2>2. w = m * z /\ z \in Nat /\ w \in Nat
      BY <1>1, <2>1
    <2> HIDE DEF z, w
    <2>3. w % m = 0
      BY <2>2, Multiples
    <2> QED
      BY <2>3 DEF w
  <1>3. ASSUME (x + y) % m = 0 PROVE y % m = 0
    <2>1. PICK q \in Nat : x + y = m * q
      BY <1>3, Multiples
    <2>2. p <= q
      <3>1. q < p => m * (q + 1) <= m * p /\ m * (q + 1) = m * q + m
        BY <1>1, <2>1
      <3> QED
        BY <1>1, <2>1, <3>1
    <2>3. y = m * (q - p) /\ q - p \in Nat
      <3>1. m * q = m * p + m * (q - p)
        BY <2>2
      <3> QED
        BY <1>1, <2>1, <2>2, <3>1
    <2> QED
      BY <2>3, Multiples
  <1> QED
    BY <1>2, <1>3

\* The loop of SubtreeHash starts at a complete node of the subtree at its right
\* edge.
LEMMA EdgeLevelIs ==
    ASSUME NEW s \in Word, NEW e \in Word, NEW k \in 0 .. W, IsAligned(s, e, k)
    PROVE  /\ EdgeLevel(s, e - 1) \in 0 .. k
           /\ Pow2[EdgeLevel(s, e - 1)] <= e - s
           /\ s % Pow2[EdgeLevel(s, e - 1)] = 0
           /\ e % Pow2[EdgeLevel(s, e - 1)] = 0
  <1> DEFINE M == Pow2[W]
             d == e - s
             y == 2 * M - e - s
             x == y % M
             Tz(n) == x % Pow2[n] = 0 /\ x % Pow2[n + 1] # 0
             n == EdgeLevel(s, e - 1)
  <1>0. /\ W \in Nat /\ k \in Nat /\ s \in Nat /\ e \in Nat /\ e < M /\ s < e
        /\ M \in Nat \ {0} /\ d \in Nat /\ d # 0 /\ d <= Pow2[k] /\ y \in Nat
        /\ Pow2[k] \in Nat /\ s % Pow2[k] = 0
    BY WordFacts, Pow2Type DEF IsAligned
  <1>1. Minus(Complement(e - 1), s) = x
    <2>1. M - 1 - (e - 1) - s + M = y
      BY <1>0
    <2> QED
      BY <2>1 DEF Minus, Complement
  <1>2. n = CHOOSE j \in 0 .. W : Tz(j)
    BY <1>1, Zenon DEF EdgeLevel, TrailingZeros
  <1> DEFINE q == y \div M
  <1> HIDE DEF n, d
  <1>3. x \in Nat /\ x < M /\ q \in Nat /\ y = M * q + x
    BY <1>0, DivMod
  <1> HIDE DEF x, q
  \* x is -(s + e), and so -2s less than d.
  <1>4. ASSUME NEW j \in Nat, j <= W, j <= k + 1
        PROVE  (x + d) % Pow2[j] = 0
    <2> DEFINE Q == Pow2[j]
    <2>1. Q \in Nat \ {0} /\ M % Q = 0
      <3>1. Pow2[j] \in Nat \ {0}
        BY Pow2Type
      <3>2. PICK z \in Nat \ {0} : Pow2[W] = Pow2[j] * z
        BY <1>0, <1>4, Pow2Divides
      <3> QED
        BY <1>0, <3>1, <3>2, Multiples
    <2>2. (2 * s) % Q = 0
      <3>1. PICK t \in Nat : s = Pow2[k] * t
        BY <1>0, Multiples, Pow2Type, ZenonT(60)
      <3>2. PICK z \in Nat \ {0} : Pow2[k + 1] = Pow2[j] * z
        BY <1>0, <1>4, Pow2Divides
      <3>3. 2 * s = Pow2[k + 1] * t /\ 2 * s \in Nat
        BY <1>0, <3>1, Pow2Equations
      <3>4. 2 * s = Q * (z * t) /\ z * t \in Nat
        BY <2>1, <3>1, <3>2, <3>3
      <3> QED
        BY <2>1, <3>3, <3>4, Multiples
    <2> HIDE DEF Q
    <2>3. (M * q) % Q = 0 /\ (2 * M) % Q = 0 /\ M * q \in Nat /\ 2 * M \in Nat
      <3>1. PICK z \in Nat : M = Q * z
        BY <1>0, <2>1, Multiples
      <3> DEFINE b == z * q
                 c == 2 * z
                 v == M * q
                 w == 2 * M
      <3>2. v = Q * b /\ w = Q * c /\ b \in Nat /\ c \in Nat /\ v \in Nat /\ w \in Nat
        BY <1>0, <1>3, <2>1, <3>1
      <3> HIDE DEF b, c, v, w, M
      <3>3. v % Q = 0 /\ w % Q = 0
        BY <2>1, <3>2, Multiples
      <3> QED
        BY <3>2, <3>3 DEF v, w
    <2> DEFINE mq == M * q
               ss == 2 * s
               mm == 2 * M
    <2>4. mq + (ss + (x + d)) = mm
      <3> HIDE DEF mq
      <3>1. y = mq + x /\ mq \in Nat /\ x \in Nat
        BY <1>3, <2>3 DEF mq
      <3>2. s \in Nat /\ e \in Nat /\ M \in Nat
        BY <1>0
      <3> HIDE DEF M
      <3> QED
        BY <3>1, <3>2 DEF d
    <2>5. mq \in Nat /\ ss \in Nat /\ x + d \in Nat /\ ss + (x + d) \in Nat
      BY <1>0, <1>3, <2>3
    <2> HIDE DEF mq, ss, mm
    <2>6. (ss + (x + d)) % Q = 0
      BY <2>1, <2>3, <2>4, <2>5, SumOfMultiples DEF mq, mm
    <2>7. ss % Q = 0
      BY <2>2 DEF ss
    <2> HIDE DEF M
    <2> QED
      BY <2>1, <2>5, <2>6, <2>7, SumOfMultiples DEF Q
  <1>5. \A j \in Nat : Pow2[j] \in Nat \ {0}
    BY Pow2Type
  <1>15. ASSUME NEW j \in Nat, NEW a \in Nat, NEW b \in Nat, a % Pow2[j] = 0
         PROVE  b % Pow2[j] = 0 <=> (a + b) % Pow2[j] = 0
    <2> DEFINE Q == Pow2[j]
    <2>1. Q \in Nat \ {0} /\ a % Q = 0
      BY <1>5, <1>15
    <2> HIDE DEF Q
    <2>2. b % Q = 0 <=> (a + b) % Q = 0
      BY <2>1, SumOfMultiples
    <2> QED
      BY <2>2 DEF Q
  <1>6. x # 0
    <2> SUFFICES ASSUME x = 0 PROVE FALSE
      OBVIOUS
    <2>1. CASE k + 1 <= W
      <3>1. d % Pow2[k + 1] = 0
        BY <1>0, <1>4, <2>1
      <3>2. Pow2[k + 1] <= d
        BY <1>0, <1>5, <3>1, SmallMultiple
      <3> QED
        BY <1>0, <3>2, Pow2Equations, Pow2Type
    <2>2. CASE k = W
      <3>1. d % Pow2[W] = 0
        BY <1>0, <1>4, <2>2
      <3>2. M <= d
        BY <1>0, <1>5, <3>1, SmallMultiple
      <3> QED
        BY <1>0, <3>2 DEF d
    <2> QED
      BY <1>0, <2>1, <2>2
  <1>7. \E j \in 0 .. W : Tz(j)
    <2> DEFINE T == {j \in Nat : x % Pow2[j] # 0}
    <2>1. W \in T
      <3>1. (M * 0 + x) % M = x
        <4>1. M \in Nat \ {0} /\ x \in Nat /\ x < M /\ 0 \in Nat
          BY <1>0, <1>3
        <4> HIDE DEF M
        <4> QED
          BY <4>1, DivModUnique
      <3>2. M * 0 + x = x
        BY <1>0, <1>3
      <3> QED
        BY <1>0, <1>6, <3>1, <3>2
    <2>2. PICK j \in T : \A h \in T : j <= h
      BY <2>1, HasLeast
    <2>3. j # 0
      BY <1>3, <2>2, Pow2Equations
    <2>4. j - 1 \in Nat /\ j - 1 \in 0 .. W /\ j - 1 \notin T /\ (j - 1) + 1 = j
      BY <1>0, <2>1, <2>2, <2>3
    <2> QED
      BY <2>2, <2>4
  <1> HIDE DEF Tz
  <1>8. n \in 0 .. W /\ Tz(n)
    BY <1>2, <1>7
  <1>9. n \in Nat /\ x % Pow2[n] = 0
    BY <1>0, <1>8 DEF Tz
  <1>10. n <= k
    <2> SUFFICES ASSUME k < n PROVE FALSE
      BY <1>0, <1>9
    <2>1. k + 1 \in Nat /\ k + 1 <= n /\ k + 1 <= W
      BY <1>0, <1>8, <1>9
    <2>2. x % Pow2[k + 1] = 0 /\ (x + d) % Pow2[k + 1] = 0
      BY <1>3, <1>4, <1>9, <2>1, MultiplesOfSmaller
    <2>3. d % Pow2[k + 1] = 0
      BY <1>0, <1>3, <2>1, <2>2, <1>15
    <2>4. Pow2[k + 1] <= d
      BY <1>0, <1>5, <2>1, <2>3, SmallMultiple
    <2> QED
      BY <1>0, <2>4, Pow2Equations, Pow2Type
  <1>11. d % Pow2[n] = 0
    <2>1. (x + d) % Pow2[n] = 0
      BY <1>0, <1>4, <1>8, <1>9, <1>10
    <2> QED
      BY <1>0, <1>3, <1>9, <2>1, <1>15
  <1>12. Pow2[n] <= d
    BY <1>0, <1>5, <1>9, <1>11, SmallMultiple
  <1>13. s % Pow2[n] = 0
    BY <1>0, <1>9, <1>10, MultiplesOfSmaller
  <1>14. e % Pow2[n] = 0
    <2>1. (s + d) % Pow2[n] = 0
      BY <1>0, <1>9, <1>11, <1>13, <1>15
    <2>2. s + d = e
      BY <1>0 DEF d
    <2> QED
      BY <2>1, <2>2
  <1> QED
    BY <1>0, <1>9, <1>10, <1>12, <1>13, <1>14 DEF n, d

-----------------------------------------------------------------------------

\* A sequence, of whatever.
IsSequence(p) == \E S : p \in Seq(S)

\* What appending does.
LEMMA LongerFacts ==
    ASSUME NEW p, IsSequence(p), NEW h
    PROVE  /\ Len(p) \in Nat
           /\ IsSequence(Longer(p, h)) /\ Len(Longer(p, h)) = Len(p) + 1
           /\ Longer(p, h)[Len(p) + 1] = h
           /\ \A k \in 1 .. Len(p) : Longer(p, h)[k] = p[k]
           /\ Longer(p, h) = p \o <<h>>
  <1>1. PICK S : p \in Seq(S)
    BY DEF IsSequence
  <1> DEFINE T == S \cup {h}
  <1>2. p \in Seq(T) /\ h \in T
    BY <1>1
  <1> HIDE DEF T
  <1>3. Append(p, h) \in Seq(T)
    BY <1>2
  <1>4. /\ Len(p) \in Nat /\ Len(Append(p, h)) = Len(p) + 1
        /\ Append(p, h)[Len(p) + 1] = h
        /\ \A k \in 1 .. Len(p) : Append(p, h)[k] = p[k]
    BY <1>2
  <1>5. Append(p, h) = p \o <<h>>
    BY <1>2
  <1> QED
    BY <1>3, <1>4, <1>5, Zenon DEF Longer, IsSequence

\* Sequences are equal element by element.
LEMMA SequencesEqual ==
    ASSUME NEW p, NEW q, IsSequence(p), IsSequence(q), Len(p) = Len(q),
           \A k \in 1 .. Len(p) : p[k] = q[k]
    PROVE  p = q
  <1>1. PICK S : p \in Seq(S)
    BY DEF IsSequence
  <1>2. PICK T : q \in Seq(T)
    BY DEF IsSequence
  <1> DEFINE R == S \cup T
  <1>3. p \in Seq(R) /\ q \in Seq(R)
    BY <1>1, <1>2
  <1> HIDE DEF R
  <1> QED
    BY <1>3

\* q is what is left of p when m elements have been taken from its front.
Rest(q, p, m) ==
    /\ IsSequence(q) /\ IsSequence(p) /\ m \in Nat
    /\ Len(p) = m + Len(q)
    /\ \A k \in 1 .. Len(q) : q[k] = p[m + k]

\* An element is taken from the front, until there is none.
LEMMA RestFacts ==
    ASSUME NEW q, NEW p, NEW m, Rest(q, p, m)
    PROVE  /\ Len(p) \in Nat /\ m \in Nat
           /\ q = <<>> => m = Len(p)
           /\ q # <<>> => m < Len(p) /\ Head(q) = p[m + 1] /\ Rest(Tail(q), p, m + 1)
  <1>1. PICK S : q \in Seq(S)
    BY DEF Rest, IsSequence
  <1>2. PICK T : p \in Seq(T)
    BY DEF Rest, IsSequence
  <1>3. /\ Len(p) \in Nat /\ Len(q) \in Nat /\ m \in Nat /\ Len(p) = m + Len(q)
        /\ \A k \in 1 .. Len(q) : q[k] = p[m + k]
    BY <1>1, <1>2 DEF Rest
  <1>4. q = <<>> => m = Len(p)
    BY <1>3
  <1>5. ASSUME q # <<>>
        PROVE  m < Len(p) /\ Head(q) = p[m + 1] /\ Rest(Tail(q), p, m + 1)
    <2>1. /\ Len(q) # 0 /\ Head(q) = q[1] /\ Tail(q) \in Seq(S)
          /\ Len(Tail(q)) = Len(q) - 1
          /\ \A k \in 1 .. Len(Tail(q)) : Tail(q)[k] = q[k + 1]
      BY <1>1, <1>5
    <2>2. \A k \in 1 .. Len(Tail(q)) : Tail(q)[k] = p[(m + 1) + k]
      <3> TAKE k \in 1 .. Len(Tail(q))
      <3>1. k + 1 \in 1 .. Len(q) /\ m + (k + 1) = (m + 1) + k
        BY <1>3, <2>1
      <3> QED
        BY <1>3, <2>1, <3>1
    <2>3. Len(p) = (m + 1) + Len(Tail(q)) /\ m + 1 \in Nat
      BY <1>3, <2>1
    <2>4. Rest(Tail(q), p, m + 1)
      BY <1>2, <2>1, <2>2, <2>3 DEF Rest, IsSequence
    <2> QED
      BY <1>3, <2>1, <2>4
  <1> QED
    BY <1>3, <1>4, <1>5

\* At first all of it is left.
LEMMA RestAll ==
    ASSUME NEW p, IsSequence(p)
    PROVE  Rest(p, p, 0)
  <1>1. PICK S : p \in Seq(S)
    BY DEF IsSequence
  <1> QED
    BY <1>1 DEF Rest, IsSequence

-----------------------------------------------------------------------------

\* A proof is a sequence, and does not get shorter from level to level.
LEMMA PathsAreSequences ==
    ASSUME NEW X, NEW i \in Nat, NEW s \in Nat, NEW e \in Nat, s <= i, i < e
    PROVE  \A l \in Nat : IsSequence(PathAt(X, i, s, e, l))
  <1> DEFINE S == {l \in Nat : IsSequence(PathAt(X, i, s, e, l))}
  <1>1. 0 \in S
    <2>1. <<>> \in Seq({})
      OBVIOUS
    <2> QED
      BY <2>1, NodeBottom DEF IsSequence
  <1>2. ASSUME NEW l \in Nat, l \in S PROVE l + 1 \in S
    <2> DEFINE p == PathAt(X, i, s, e, l)
               h == Sibling(X, i, s, e, l)
    <2>1. IsSequence(p)
      BY <1>2
    <2>2. PathAt(X, i, s, e, l + 1) = Longer(p, h) \/ PathAt(X, i, s, e, l + 1) = p
      <3>1. /\ At(i, s, l) \in Nat /\ At(e - 1, s, l) \in Nat
            /\ At(i, s, l) <= At(e - 1, s, l)
        BY NodeFacts
      <3>2. \/ At(i, s, l) % 2 = 1
            \/ At(i, s, l) % 2 = 0 /\ At(i, s, l) < At(e - 1, s, l)
            \/ At(i, s, l) % 2 = 0 /\ At(i, s, l) = At(e - 1, s, l)
        BY <3>1
      <3> QED
        BY <3>2, NodeStep
    <2>3. IsSequence(Longer(p, h))
      BY <2>1, LongerFacts
    <2> QED
      BY <2>1, <2>2, <2>3
  <1> HIDE DEF S
  <1>3. Nat \subseteq S
    BY <1>1, <1>2, NatInductionOnSets
  <1> QED
    BY <1>3 DEF S

\* Every level with a sibling makes the proof longer.
LEMMA PathStep ==
    ASSUME NEW X, NEW i \in Nat, NEW s \in Nat, NEW e \in Nat, s <= i, i < e, NEW l \in Nat
    PROVE  /\ Len(PathAt(X, i, s, e, l)) \in Nat /\ Len(PathAt(X, i, s, e, l + 1)) \in Nat
           /\ Len(PathAt(X, i, s, e, l)) <= Len(PathAt(X, i, s, e, l + 1))
           /\ At(i, s, l) % 2 = 1 \/ At(i, s, l) < At(e - 1, s, l) =>
                 Len(PathAt(X, i, s, e, l)) < Len(PathAt(X, i, s, e, l + 1))
  <1> DEFINE p == PathAt(X, i, s, e, l)
             q == PathAt(X, i, s, e, l + 1)
             h == Sibling(X, i, s, e, l)
             f == At(i, s, l)
             n == At(e - 1, s, l)
  <1>1. IsSequence(p)
    BY PathsAreSequences
  <1>2. f \in Nat /\ n \in Nat /\ f <= n
    BY NodeFacts
  <1>3. (f % 2 = 1 => q = Longer(p, h)) /\ (f % 2 = 0 /\ f < n => q = Longer(p, h))
        /\ (f % 2 = 0 /\ f = n => q = p)
    BY NodeStep
  <1> HIDE DEF p, q, h, f, n
  <1>4. Len(p) \in Nat /\ Len(Longer(p, h)) = Len(p) + 1
    BY <1>1, LongerFacts
  <1>5. CASE f % 2 = 1 \/ f < n
    <2>1. q = Longer(p, h)
      BY <1>2, <1>3, <1>5
    <2> QED
      BY <1>4, <2>1 DEF p, q, f, n
  <1>6. CASE ~(f % 2 = 1 \/ f < n)
    <2>1. q = p
      BY <1>2, <1>3, <1>6
    <2> QED
      BY <1>4, <1>6, <2>1 DEF p, q, f, n
  <1> QED
    BY <1>5, <1>6

\* Below the top, the proof is not complete.
LEMMA PathGrows ==
    ASSUME NEW X, NEW i \in Nat, NEW s \in Nat, NEW e \in Nat, s <= i, i < e, NEW l \in Nat,
           At(e - 1, s, l) # 0
    PROVE  Len(PathAt(X, i, s, e, l)) < Len(Path(X, i, s, e))
  <1> DEFINE L(j) == Len(PathAt(X, i, s, e, j))
             last == e - 1
             T == {j \in Nat : l < j /\ At(last, s, j) = 0}
  <1>1. \A j \in Nat : L(j) \in Nat /\ L(j) <= L(j + 1)
    BY PathStep
  <1>2. ASSUME NEW d \in Nat PROVE L(l) <= L(l + d)
    <2> DEFINE S == {x \in Nat : L(l) <= L(l + x)}
    <2> HIDE DEF L
    <2>1. 0 \in S
      BY <1>1
    <2>2. ASSUME NEW x \in Nat, x \in S PROVE x + 1 \in S
      <3>1. L(l + x) \in Nat /\ L(l + x) <= L((l + x) + 1) /\ L(l) \in Nat
            /\ L((l + x) + 1) \in Nat
        BY <1>1
      <3>2. L(l) <= L((l + x) + 1)
        BY <2>2, <3>1
      <3>3. (l + x) + 1 = l + (x + 1)
        OBVIOUS
      <3> QED
        BY <3>2, <3>3
    <2> HIDE DEF S
    <2>3. Nat \subseteq S
      BY <2>1, <2>2, NatInductionOnSets
    <2> QED
      BY <2>3 DEF S
  <1>3. last \in Nat /\ last - s \in Nat
    OBVIOUS
  <1>4. l + e \in T
    <2> DEFINE d == last - s
               P == Pow2[l + e]
    <2>1. P \in Nat \ {0} /\ d < P /\ d \in Nat /\ 0 \in Nat /\ l < l + e
      BY BelowPow2, Pow2Type
    <2>2. At(last, s, l + e) = d \div P
      BY DEF At
    <2> HIDE DEF d, P
    <2>3. (P * 0 + d) \div P = 0 /\ P * 0 + d = d
      BY <2>1, DivModUnique
    <2> QED
      BY <2>1, <2>2, <2>3
  <1>5. PICK t \in T : \A j \in T : t <= j
    BY <1>4, HasLeast
  <1> DEFINE u == t - 1
  <1>6. u \in Nat /\ u + 1 = t /\ l <= u
    OBVIOUS
  <1>7. At(last, s, u) # 0
    <2>1. u \notin T
      BY <1>5, <1>6
    <2> QED
      BY <1>6, <2>1
  <1>8. At(last, s, u + 1) = At(last, s, u) \div 2
    BY <1>3, <1>6, Halving DEF At
  <1>9. /\ At(i, s, u) \in Nat /\ At(last, s, u) \in Nat /\ At(i, s, u) <= At(last, s, u)
    BY <1>6, NodeFacts
  <1>10. At(last, s, u) = 1
    <2>1. At(last, s, u) \div 2 = 0
      BY <1>5, <1>6, <1>8
    <2> QED
      BY <1>7, <1>9, <2>1
  <1>11. At(i, s, u) % 2 = 1 \/ At(i, s, u) < At(last, s, u)
    BY <1>9, <1>10
  <1>12. L(u) < L(u + 1)
    BY <1>6, <1>11, PathStep
  <1>13. L(l) <= L(u)
    <2>1. u - l \in Nat /\ l + (u - l) = u
      BY <1>6
    <2> HIDE DEF L, u
    <2> QED
      BY <1>2, <2>1
  <1>14. L(t) = Len(Path(X, i, s, e))
    <2>1. t \in Nat /\ At(last, s, t) = 0
      BY <1>5
    <2> QED
      BY <2>1, NodeTop
  <1>15. L(l) < L(t)
    <2>1. L(l) \in Nat /\ L(u) \in Nat /\ L(u + 1) \in Nat
      BY <1>1, <1>6
    <2>2. L(l) < L(u + 1)
      <3> HIDE DEF L, u
      <3> QED
        BY <2>1, <1>12, <1>13
    <2> QED
      BY <2>2, <1>6
  <1> QED
    BY <1>14, <1>15

-----------------------------------------------------------------------------

\* Where the code splits is where the draft does.
LEMMA SplitOfIs ==
    ASSUME NEW a \in Word, NEW b \in Word, NEW c, IsSplitAt(a, c, b)
    PROVE  SplitOf(a, b) = c
  <1> DEFINE n == b - a
             k == BitLen(n - 1)
  <1>1. W \in Nat /\ a \in Nat /\ b \in Nat /\ b < Pow2[W]
    BY WordFacts
  <1>2. n \in Nat /\ n > 1 /\ a + Split(n) = c
    BY SplitAt
  <1>3. n - 1 \in Word /\ n - 1 \in Nat /\ n - 1 # 0
    BY <1>1, <1>2, WordFacts
  <1>4. k \in 0 .. W /\ n - 1 < Pow2[k] /\ (k # 0 => Pow2[k - 1] <= n - 1)
    BY <1>3, BitLenFacts
  <1>5. SplitOf(a, b) = a + ShiftedOne(k - 1)
    BY DEF SplitOf
  <1> HIDE DEF n, k
  <1>6. k # 0
    BY <1>2, <1>4, Pow2Equations
  <1>7. k - 1 \in Nat /\ (k - 1) + 1 = k /\ k - 1 < W /\ k \in Nat
    BY <1>1, <1>4, <1>6
  <1>8. Pow2[k - 1] \in Nat /\ Pow2[k] \in Nat
    BY <1>7, Pow2Type
  <1>9. Split(n) = Pow2[k - 1]
    <2>1. Pow2[k - 1] < n /\ n <= Pow2[(k - 1) + 1]
      BY <1>2, <1>4, <1>6, <1>7, <1>8
    <2> QED
      BY <1>2, <1>7, <2>1, SplitIs
  <1>10. ShiftedOne(k - 1) = Pow2[k - 1]
    <2>1. Pow2[k - 1] < Pow2[W] /\ Pow2[W] \in Nat \ {0}
      <3> DEFINE j == k - 1
      <3>1. j \in Nat /\ j + 1 \in Nat /\ j + 1 <= W
        BY <1>1, <1>7
      <3> HIDE DEF j
      <3>2. Pow2[j + 1] <= Pow2[W] /\ Pow2[j + 1] = 2 * Pow2[j]
        BY <1>1, <3>1, Pow2Equations, Pow2Grows
      <3>3. Pow2[j] \in Nat \ {0} /\ Pow2[W] \in Nat \ {0}
        BY <1>1, <3>1, Pow2Type
      <3> QED
        BY <3>2, <3>3 DEF j
    <2> QED
      BY <1>8, <2>1 DEF ShiftedOne
  <1> QED
    BY <1>2, <1>5, <1>9, <1>10

AnyWindow == [lo : Word, hi : Word, start : Word, end : Word, known : BOOLEAN]

\* The fields of a window.
IsWindow(w, lo, hi, s, e, known) ==
    w \in AnyWindow /\ w.lo = lo /\ w.hi = hi /\ w.start = s /\ w.end = e /\ w.known = known

\* What the numbers of a window are.
LEMMA WindowFacts ==
    ASSUME NEW w \in Windows
    PROVE  /\ w \in AnyWindow
           /\ w.lo \in Word /\ w.hi \in Word /\ w.start \in Word /\ w.end \in Word
           /\ w.known \in BOOLEAN
           /\ w.lo \in Nat /\ w.hi \in Nat /\ w.start \in Nat /\ w.end \in Nat
           /\ w.lo <= w.start /\ w.start < w.end /\ w.end <= w.hi
           /\ w.hi - w.lo \in Nat /\ w.hi - w.lo > 0
  <1>1. /\ w \in AnyWindow
        /\ w.lo \in Word /\ w.hi \in Word /\ w.start \in Word /\ w.end \in Word
        /\ w.known \in BOOLEAN
        /\ w.lo <= w.start /\ w.start < w.end /\ w.end <= w.hi
    BY DEF Windows, AnyWindow
  <1>2. w.lo \in Nat /\ w.hi \in Nat /\ w.start \in Nat /\ w.end \in Nat
    BY <1>1, WordFacts
  <1> QED
    BY <1>1, <1>2

\* A window is its fields.
LEMMA WindowsEqual ==
    ASSUME NEW v, NEW w, NEW lo, NEW hi, NEW s, NEW e, NEW known,
           IsWindow(v, lo, hi, s, e, known), IsWindow(w, lo, hi, s, e, known)
    PROVE  v = w
  BY DEF IsWindow, AnyWindow

\* The three parts a window can go on in.
LEMMA ChildFields ==
    ASSUME NEW w \in AnyWindow, NEW c \in Word, w.start < w.end
    PROVE  /\ w.end <= c => IsWindow(ChildOf(w, c), w.lo, c, w.start, w.end, w.known)
           /\ c <= w.start => IsWindow(ChildOf(w, c), c, w.hi, w.start, w.end, w.known)
           /\ w.start < c /\ c < w.end => IsWindow(ChildOf(w, c), c, w.hi, c, w.end, FALSE)
  <1>1. w.start \in Nat /\ w.end \in Nat /\ c \in Nat
    BY WordFacts DEF AnyWindow
  <1>2. ASSUME w.end <= c PROVE IsWindow(ChildOf(w, c), w.lo, c, w.start, w.end, w.known)
    <2>1. ~(c <= w.start) /\ ~(w.start < c /\ c < w.end)
      BY <1>1, <1>2
    <2>2. ChildOf(w, c) = [w EXCEPT !.hi = c]
      BY <1>2, <2>1 DEF ChildOf
    <2> QED
      BY <2>2 DEF IsWindow, AnyWindow
  <1>3. ASSUME c <= w.start PROVE IsWindow(ChildOf(w, c), c, w.hi, w.start, w.end, w.known)
    <2>1. ~(w.end <= c) /\ ~(w.start < c /\ c < w.end)
      BY <1>1, <1>3
    <2>2. ChildOf(w, c) = [w EXCEPT !.lo = c]
      BY <1>3, <2>1 DEF ChildOf
    <2> QED
      BY <2>2 DEF IsWindow, AnyWindow
  <1>4. ASSUME w.start < c, c < w.end
        PROVE  IsWindow(ChildOf(w, c), c, w.hi, c, w.end, FALSE)
    <2>1. ~(w.end <= c) /\ ~(c <= w.start)
      BY <1>1, <1>4
    <2>2. ChildOf(w, c) = [w EXCEPT !.lo = c, !.start = c, !.known = FALSE]
      BY <1>4, <2>1 DEF ChildOf
    <2> QED
      BY <2>2 DEF IsWindow, AnyWindow
  <1> QED
    BY <1>2, <1>3, <1>4

\* The window is the subtree.
IsWhole(w) == w.start = w.lo /\ w.end = w.hi

\* The window the proof goes on in, and what is added to the proof there.
Child(w) == ChildOf(w, SplitOf(w.lo, w.hi))
Beside(T, w) == SiblingHash(T, w, SplitOf(w.lo, w.hi))

\* The proof goes on in a smaller window.
LEMMA ChildIsSmaller ==
    ASSUME NEW w \in Windows, ~IsWhole(w)
    PROVE  Child(w) \in Windows /\ Child(w).hi - Child(w).lo < w.hi - w.lo
  <1> DEFINE c == SplitOf(w.lo, w.hi)
             n == w.hi - w.lo
             a == w.lo
             b == w.hi
             s == w.start
             e == w.end
             v == w.known
  <1>1. /\ a \in Word /\ b \in Word /\ s \in Word /\ e \in Word /\ w \in AnyWindow
        /\ a \in Nat /\ b \in Nat /\ s \in Nat /\ e \in Nat
        /\ a <= s /\ s < e /\ e <= b /\ v \in BOOLEAN
    BY WindowFacts
  <1>2. n \in Nat /\ n > 1
    BY <1>1 DEF IsWhole
  <1>3. c \in Word /\ c \in Nat /\ a < c /\ c < b
    <2> HIDE DEF n
    <2>1. PICK k \in Nat : Split(n) = Pow2[k] /\ Pow2[k] < n /\ n <= Pow2[k + 1]
      BY <1>2, SplitFacts
    <2>2. Pow2[k] \in Nat \ {0} /\ Pow2[k + 1] \in Nat
      BY Pow2Type
    <2>3. IsSplitAt(a, a + Pow2[k], b)
      BY <1>1, <1>2, <2>1, <2>2 DEF n, IsSplitAt
    <2>4. c = a + Pow2[k]
      BY <1>1, <2>3, SplitOfIs
    <2>5. a + Pow2[k] \in Nat /\ a < a + Pow2[k] /\ a + Pow2[k] < b /\ b < Pow2[W]
          /\ Pow2[W] \in Nat
      BY <1>1, <2>1, <2>2, WordFacts DEF n
    <2> HIDE DEF a, b, c
    <2> QED
      BY <1>1, <2>4, <2>5, WordFacts
  <1> DEFINE d == Child(w)
  <1>4. \/ IsWindow(d, a, c, s, e, v) /\ e <= c
        \/ IsWindow(d, c, b, s, e, v) /\ c <= s
        \/ IsWindow(d, c, b, c, e, FALSE) /\ s < c /\ c < e
    <2>1. e <= c \/ c <= s \/ (s < c /\ c < e)
      BY <1>1, <1>3
    <2> QED
      BY <1>1, <1>3, <2>1, ChildFields DEF Child
  <1>5. w.hi - w.lo = b - a
    OBVIOUS
  <1> HIDE DEF a, b, c, d, e, s, v
  <1>6. ASSUME NEW lo, NEW hi, NEW st, d \in AnyWindow, d.lo = lo, d.hi = hi,
               d.start = st, d.end = e,
               lo \in Word, hi \in Word, lo <= st, st < e, e <= hi, lo >= a, hi <= b,
               lo > a \/ hi < b
        PROVE  d \in Windows /\ d.hi - d.lo < b - a
    <2>1. lo \in Nat /\ hi \in Nat
      BY <1>6, WordFacts
    <2>2. d \in Windows
      BY <1>6 DEF Windows, AnyWindow
    <2> QED
      BY <1>1, <1>6, <2>1, <2>2
  <1>7. d \in Windows /\ d.hi - d.lo < b - a
    <2>1. CASE IsWindow(d, a, c, s, e, v) /\ e <= c
      BY <1>1, <1>3, <1>6, <2>1 DEF IsWindow
    <2>2. CASE IsWindow(d, c, b, s, e, v) /\ c <= s
      BY <1>1, <1>3, <1>6, <2>2 DEF IsWindow
    <2>3. CASE IsWindow(d, c, b, c, e, FALSE) /\ s < c /\ c < e
      BY <1>1, <1>3, <1>6, <2>3 DEF IsWindow
    <2> QED
      BY <1>4, <2>1, <2>2, <2>3
  <1> QED
    BY <1>5, <1>7 DEF d

Subproof(T, g, w) ==
    IF IsWhole(w)
    THEN IF w.known THEN <<>> ELSE <<SubtreeHash(T, w.lo, w.hi)>>
    ELSE Longer(g[Child(w)], Beside(T, w))

\* The function subtreeSubproof chooses exists: up to any size of the window,
\* and no window is wider than a word.
LEMMA SubproofsExist ==
    ASSUME NEW T
    PROVE  \E g : g = [w \in Windows |-> Subproof(T, g, w)]
  <1> DEFINE Narrow(m) == {w \in Windows : w.hi - w.lo <= m}
             S == {m \in Nat : \E g : \A w \in Narrow(m) : g[w] = Subproof(T, g, w)}
  <1>1. \A w \in Windows : w.lo \in Nat /\ w.hi \in Nat /\ w.hi - w.lo \in Nat /\ w.hi - w.lo > 0
    BY WindowFacts
  <1>2. 0 \in S
    BY <1>1
  <1>3. ASSUME NEW m \in Nat, m \in S PROVE m + 1 \in S
    <2>1. PICK g : \A w \in Narrow(m) : g[w] = Subproof(T, g, w)
      BY <1>3
    <2> DEFINE h == [w \in Windows |-> IF w.hi - w.lo <= m THEN g[w] ELSE Subproof(T, g, w)]
    <2>2. ASSUME NEW w \in Narrow(m + 1) PROVE h[w] = Subproof(T, h, w)
      <3>1. h[w] = Subproof(T, g, w)
        BY <2>1
      <3>2. CASE IsWhole(w)
        BY <3>1, <3>2 DEF Subproof
      <3>3. CASE ~IsWhole(w)
        <4>1. Child(w) \in Windows /\ Child(w).hi - Child(w).lo < w.hi - w.lo
          BY <3>3, ChildIsSmaller
        <4>2. Child(w) \in Narrow(m)
          BY <1>1, <4>1
        <4>3. h[Child(w)] = g[Child(w)]
          BY <4>2
        <4> HIDE DEF h
        <4> QED
          BY <3>1, <3>3, <4>3 DEF Subproof
      <3> QED
        BY <3>2, <3>3
    <2> HIDE DEF h
    <2> QED
      BY <2>2
  <1> HIDE DEF S
  <1>4. Nat \subseteq S
    BY <1>2, <1>3, NatInductionOnSets
  <1>5. PICK g : \A w \in Narrow(Pow2[W]) : g[w] = Subproof(T, g, w)
    BY <1>4, WordFacts DEF S
  <1>6. \A w \in Windows : w \in Narrow(Pow2[W])
    <2> TAKE w \in Windows
    <2>1. w.lo \in Nat /\ w.hi \in Nat /\ w.hi < Pow2[W] /\ Pow2[W] \in Nat
      BY WordFacts DEF Windows
    <2> QED
      BY <2>1
  <1> HIDE DEF Narrow
  <1> DEFINE h == [w \in Windows |-> g[w]]
  <1>7. ASSUME NEW w \in Windows PROVE h[w] = Subproof(T, h, w)
    <2>1. h[w] = Subproof(T, g, w)
      BY <1>5, <1>6
    <2>2. ~IsWhole(w) => h[Child(w)] = g[Child(w)]
      BY ChildIsSmaller
    <2> HIDE DEF h
    <2> QED
      BY <2>1, <2>2 DEF Subproof
  <1>8. h = [w \in Windows |-> h[w]]
    OBVIOUS
  <1> HIDE DEF h
  <1>9. h = [w \in Windows |-> Subproof(T, h, w)]
    BY <1>7, <1>8
  <1> QED
    BY <1>9

\* The equations of subtreeSubproof.
LEMMA SubproofIs ==
    ASSUME NEW T, NEW w \in Windows
    PROVE  subtreeSubproof(T, w) =
              IF IsWhole(w)
              THEN IF w.known THEN <<>> ELSE <<SubtreeHash(T, w.lo, w.hi)>>
              ELSE Longer(subtreeSubproof(T, Child(w)), Beside(T, w))
  <1> DEFINE IsSubproofs(g) ==
               g = [v \in Windows |->
                     IF v.start = v.lo /\ v.end = v.hi
                     THEN IF v.known THEN <<>> ELSE <<SubtreeHash(T, v.lo, v.hi)>>
                     ELSE Append(g[ChildOf(v, SplitOf(v.lo, v.hi))],
                                 SiblingHash(T, v, SplitOf(v.lo, v.hi)))]
             f == CHOOSE g : IsSubproofs(g)
  <1>1. ASSUME NEW g PROVE IsSubproofs(g) <=> g = [v \in Windows |-> Subproof(T, g, v)]
    BY DEF Subproof, Child, Beside, IsWhole, Longer
  <1>2. \A v : subtreeSubproof(T, v) = f[v]
    BY DEF subtreeSubproof
  <1>3. \E g : g = [v \in Windows |-> Subproof(T, g, v)]
    BY SubproofsExist
  <1> HIDE DEF IsSubproofs
  <1>4. IsSubproofs(f)
    BY <1>1, <1>3
  <1> HIDE DEF f
  <1>5. f[w] = Subproof(T, f, w)
    BY <1>1, <1>4
  <1> QED
    BY <1>2, <1>5, Zenon DEF Subproof

-----------------------------------------------------------------------------

\* The state of a verification.
IsState(v, f, s, t, ok, x, y) ==
    /\ DOMAIN v = {"fn", "sn", "tn", "ok", "fr", "sr"}
    /\ v.fn = f /\ v.sn = s /\ v.tn = t /\ v.ok = ok /\ v.fr = x /\ v.sr = y

Shifted(v, k) ==
    [v EXCEPT !.fn = @ \div Pow2[k], !.sn = @ \div Pow2[k], !.tn = @ \div Pow2[k]]

\* What halving and shifting do to a state.
LEMMA HalvedIs ==
    ASSUME NEW v, NEW f, NEW s, NEW t, NEW ok, NEW x, NEW y, IsState(v, f, s, t, ok, x, y)
    PROVE  IsState(Halved(v), f \div 2, s \div 2, t \div 2, ok, x, y)
  BY DEF IsState, Halved

LEMMA ShiftedIs ==
    ASSUME NEW v, NEW f, NEW s, NEW t, NEW ok, NEW x, NEW y, IsState(v, f, s, t, ok, x, y),
           NEW k
    PROVE  IsState(Shifted(v, k), f \div Pow2[k], s \div Pow2[k], t \div Pow2[k], ok, x, y)
  BY DEF IsState, Shifted

\* Shifting until the middle index is odd.
LEMMA ShiftUntilOdd ==
    ASSUME NEW v, NEW k \in 0 .. W, (Shifted(v, k)).sn % 2 = 1,
           \A j \in 0 .. W : (Shifted(v, j)).sn % 2 = 1 => k <= j
    PROVE  ShiftUntil(OddSn, v) = Shifted(v, k)
  <1> DEFINE shifted == [j \in 0 .. W |-> Shifted(v, j)]
             Least(i) == OddSn(shifted[i]) /\ \A j \in 0 .. W : OddSn(shifted[j]) => i <= j
  <1>1. ShiftUntil(OddSn, v) = shifted[CHOOSE i \in 0 .. W : Least(i)]
    BY DEF ShiftUntil, Shifted
  <1>2. \A i \in 0 .. W : OddSn(shifted[i]) <=> (Shifted(v, i)).sn % 2 = 1
    BY DEF OddSn
  <1>3. Least(k) /\ \A i \in 0 .. W : Least(i) => i = k
    BY <1>2
  <1> HIDE DEF Least
  <1>4. (CHOOSE i \in 0 .. W : Least(i)) = k
    BY <1>3
  <1> QED
    BY <1>1, <1>4

\* The state before anything is read, and whether it need not be shifted any
\* further.
Begin(s, e, n, h) ==
    [fn |-> s, sn |-> e - 1, tn |-> n - 1, ok |-> TRUE, fr |-> h, sr |-> h]

Aligns(s, e, l) == s \div Pow2[l] = (e - 1) \div Pow2[l]

Settles(s, e, n, l) == Aligns(s, e, l) \/ (e # n /\ ((e - 1) \div Pow2[l]) % 2 = 0)

\* The level the verification starts at.
IsStart(s, e, n, k) == /\ k \in 0 .. W /\ Settles(s, e, n, k)
                       /\ \A j \in 0 .. W : Settles(s, e, n, j) => k <= j

\* It always starts somewhere.
LEMMA StartExists ==
    ASSUME NEW s \in Word, NEW e \in Word, NEW n, s < e
    PROVE  \E k : IsStart(s, e, n, k)
  <1> DEFINE T == {k \in 0 .. W : Settles(s, e, n, k)}
  <1>1. /\ W \in Nat /\ s \in Nat /\ e \in Nat /\ e - 1 \in Nat /\ Pow2[W] \in Nat \ {0}
        /\ s < Pow2[W] /\ e - 1 < Pow2[W]
    BY WordFacts
  <1>2. s \div Pow2[W] = 0 /\ (e - 1) \div Pow2[W] = 0
    <2>1. \A x \in Nat : x < Pow2[W] => Pow2[W] * 0 + x = x
      BY <1>1
    <2> QED
      BY <1>1, <2>1, DivModUnique
  <1>3. W \in T /\ T \subseteq Nat
    BY <1>1, <1>2 DEF Settles, Aligns
  <1> HIDE DEF T
  <1>4. PICK k \in T : \A j \in T : k <= j
    BY <1>3, HasLeast
  <1> QED
    BY <1>4 DEF T, IsStart

\* The run of the verification on a sequence of hashes.
Run(v, q) ==
    LET after[i \in 0 .. Len(q)] == IF i = 0 THEN v ELSE Absorb(after[i - 1], q[i])
    IN  after[Len(q)]

\* What a verification finds that starts at v with proof p.
Final(v, p, known) ==
    LET w == IF known THEN v
             ELSE [v EXCEPT !.ok = p # <<>>,
                            !.fr = IF p # <<>> THEN p[1] ELSE @,
                            !.sr = IF p # <<>> THEN p[1] ELSE @]
    IN  Run(w, IF known \/ p = <<>> THEN p ELSE Tail(p))

\* The definition of the reference in these terms.
LEMMA VerifiesIs ==
    ASSUME NEW s \in Nat, NEW e \in Nat, NEW n \in Nat, s < e, e <= n, NEW p, NEW h, NEW root,
           NEW k, IsStart(s, e, n, k)
    PROVE  LET z == Final(Shifted(Begin(s, e, n, h), k), p, Aligns(s, e, k))
           IN  ConsistencyVerifies(s, e, n, p, h, root)
                  <=> z.ok /\ z.tn = 0 /\ z.fr = h /\ z.sr = root
  <1> DEFINE v0 == Begin(s, e, n, h)
             Aligned(v) == v.fn = v.sn
             Settled(v) == v.fn = v.sn \/ v.sn % 2 = 0
             v1 == IF v0.sn = v0.tn THEN ShiftUntil(Aligned, v0) ELSE ShiftUntil(Settled, v0)
             Result(v) == Final(v, p, Aligned(v))
  <1>1. s # e
    OBVIOUS
  <1>2. ConsistencyVerifies(s, e, n, p, h, root)
           <=> Result(v1).ok /\ Result(v1).tn = 0 /\ Result(v1).fr = h /\ Result(v1).sr = root
    BY <1>1, Zenon DEF ConsistencyVerifies, Final, Run, Begin
  <1>3. IsState(v0, s, e - 1, n - 1, TRUE, h, h)
    BY DEF Begin, IsState
  <1> HIDE DEF v0
  <1>4. v0.sn = v0.tn <=> e = n
    BY <1>3 DEF IsState
  <1>5. \A j \in 0 .. W : /\ (Shifted(v0, j)).fn = s \div Pow2[j]
                          /\ (Shifted(v0, j)).sn = (e - 1) \div Pow2[j]
    BY <1>3, ShiftedIs DEF IsState
  <1> DEFINE shifted == [j \in 0 .. W |-> Shifted(v0, j)]
  <1>6. \A j \in 0 .. W : /\ Aligned(shifted[j]) <=> Aligns(s, e, j)
                          /\ e # n => (Settled(shifted[j]) <=> Settles(s, e, n, j))
                          /\ e = n => (Aligned(shifted[j]) <=> Settles(s, e, n, j))
    <2> TAKE j \in 0 .. W
    <2>1. shifted[j] = Shifted(v0, j)
      OBVIOUS
    <2>2. shifted[j].fn = s \div Pow2[j] /\ shifted[j].sn = (e - 1) \div Pow2[j]
      BY <1>5, <2>1
    <2> HIDE DEF shifted
    <2> DEFINE a == s \div Pow2[j]
               b == (e - 1) \div Pow2[j]
    <2>3. /\ Aligned(shifted[j]) <=> a = b
          /\ Settled(shifted[j]) <=> a = b \/ b % 2 = 0
      BY <2>2, Zenon
    <2>4. /\ Aligns(s, e, j) <=> a = b
          /\ Settles(s, e, n, j) <=> a = b \/ (e # n /\ b % 2 = 0)
      BY Zenon DEF Aligns, Settles
    <2> HIDE DEF Aligned, Settled, a, b
    <2> QED
      BY <2>3, <2>4
  <1>7. v1 = Shifted(v0, k)
    <2>1. CASE e = n
      <3> DEFINE Least(i) == Aligned(shifted[i]) /\ \A j \in 0 .. W : Aligned(shifted[j]) => i <= j
      <3>1. ShiftUntil(Aligned, v0) = shifted[CHOOSE i \in 0 .. W : Least(i)]
        BY DEF ShiftUntil, Shifted
      <3> HIDE DEF Aligned, shifted
      <3>2. Least(k) /\ \A i \in 0 .. W : Least(i) => i = k
        BY <1>6, <2>1 DEF IsStart
      <3> HIDE DEF Least
      <3>3. (CHOOSE i \in 0 .. W : Least(i)) = k
        BY <3>2 DEF IsStart
      <3>4. shifted[k] = Shifted(v0, k)
        BY DEF IsStart, shifted
      <3> QED
        BY <1>4, <2>1, <3>1, <3>3, <3>4, Zenon
    <2>2. CASE e # n
      <3> DEFINE Least(i) == Settled(shifted[i]) /\ \A j \in 0 .. W : Settled(shifted[j]) => i <= j
      <3>1. ShiftUntil(Settled, v0) = shifted[CHOOSE i \in 0 .. W : Least(i)]
        BY DEF ShiftUntil, Shifted
      <3> HIDE DEF Settled, shifted
      <3>2. Least(k) /\ \A i \in 0 .. W : Least(i) => i = k
        BY <1>6, <2>2 DEF IsStart
      <3> HIDE DEF Least
      <3>3. (CHOOSE i \in 0 .. W : Least(i)) = k
        BY <3>2 DEF IsStart
      <3>4. shifted[k] = Shifted(v0, k)
        BY DEF IsStart, shifted
      <3> QED
        BY <1>4, <2>2, <3>1, <3>3, <3>4, Zenon
    <2> QED
      BY <2>1, <2>2
  <1>8. Aligned(Shifted(v0, k)) = Aligns(s, e, k)
    <2>1. (Shifted(v0, k)).fn = s \div Pow2[k] /\ (Shifted(v0, k)).sn = (e - 1) \div Pow2[k]
      BY <1>5 DEF IsStart
    <2> QED
      BY <2>1, Zenon DEF Aligns
  <1> HIDE DEF v1, Aligned
  <1>9. Result(v1) = Final(Shifted(v0, k), p, Aligns(s, e, k))
    BY <1>7, <1>8, Zenon
  <1> HIDE DEF Result
  <1> QED
    BY <1>2, <1>9, Zenon DEF v0

\* The run on a longer sequence.
IsRun(g, v, q, m) ==
    g = [i \in 0 .. m |-> IF i = 0 THEN v ELSE Absorb(g[i - 1], q[i])]

\* There is a run on any number of hashes, so that ...
LEMMA RunsExist == ASSUME NEW v, NEW q PROVE \A m \in Nat : \E g : IsRun(g, v, q, m)
  <1> DEFINE S == {m \in Nat : \E g : IsRun(g, v, q, m)}
  <1>1. 0 \in S
    <2> DEFINE g == [i \in 0 .. 0 |-> v]
    <2>1. IsRun(g, v, q, 0)
      BY DEF IsRun
    <2> QED
      BY <2>1
  <1>2. ASSUME NEW m \in Nat, m \in S PROVE m + 1 \in S
    <2>1. PICK g : IsRun(g, v, q, m)
      BY <1>2
    <2> DEFINE h == [i \in 0 .. m + 1 |-> IF i <= m THEN g[i] ELSE Absorb(g[m], q[m + 1])]
    <2>2. \A i \in 0 .. m : h[i] = g[i]
      OBVIOUS
    <2>3. h[m + 1] = Absorb(g[m], q[m + 1]) /\ h = [i \in 0 .. m + 1 |-> h[i]]
      OBVIOUS
    <2> HIDE DEF h
    <2>4. ASSUME NEW i \in 0 .. m + 1
          PROVE  h[i] = IF i = 0 THEN v ELSE Absorb(h[i - 1], q[i])
      <3>1. CASE i = m + 1
        <4>1. i # 0 /\ i - 1 = m /\ m \in 0 .. m
          BY <3>1
        <4> QED
          BY <2>2, <2>3, <3>1, <4>1
      <3>2. CASE i # m + 1
        <4>1. i \in 0 .. m /\ (i # 0 => i - 1 \in 0 .. m)
          BY <3>2
        <4>2. g[i] = IF i = 0 THEN v ELSE Absorb(g[i - 1], q[i])
          BY <2>1, <4>1 DEF IsRun
        <4> QED
          BY <2>2, <4>1, <4>2
      <3> QED
        BY <3>1, <3>2
    <2>5. IsRun(h, v, q, m + 1)
      BY <2>3, <2>4 DEF IsRun
    <2> QED
      BY <2>5
  <1> HIDE DEF S
  <1>3. Nat \subseteq S
    BY <1>1, <1>2, NatInductionOnSets
  <1> QED
    BY <1>3 DEF S

\* ... the run is one.
LEMMA RunIs ==
    ASSUME NEW v, NEW q, IsSequence(q)
    PROVE  \E g : IsRun(g, v, q, Len(q)) /\ Run(v, q) = g[Len(q)]
  <1> DEFINE g == CHOOSE g : IsRun(g, v, q, Len(q))
  <1>1. Len(q) \in Nat
    BY DEF IsSequence
  <1>2. IsRun(g, v, q, Len(q))
    BY <1>1, RunsExist
  <1>3. Run(v, q) = g[Len(q)]
    BY Zenon DEF Run, IsRun
  <1> QED
    BY <1>2, <1>3

\* With no hash to read, nothing happens.
LEMMA RunEmpty == ASSUME NEW v PROVE Run(v, <<>>) = v
  <1>1. IsSequence(<<>>) /\ Len(<<>>) = 0
    <2>1. <<>> \in Seq({})
      OBVIOUS
    <2> QED
      BY <2>1 DEF IsSequence
  <1>2. PICK g : IsRun(g, v, <<>>, 0) /\ Run(v, <<>>) = g[0]
    BY <1>1, RunIs
  <1> QED
    BY <1>2 DEF IsRun

LEMMA RunLonger ==
    ASSUME NEW v, NEW q, IsSequence(q), NEW c
    PROVE  Run(v, Longer(q, c)) = Absorb(Run(v, q), c)
  <1> DEFINE u == Longer(q, c)
             m == Len(q)
  <1>1. /\ m \in Nat /\ IsSequence(u) /\ Len(u) = m + 1 /\ u[m + 1] = c
        /\ \A i \in 1 .. m : u[i] = q[i]
    BY LongerFacts, ZenonT(60)
  <1>2. PICK g : IsRun(g, v, q, m) /\ Run(v, q) = g[m]
    BY RunIs
  <1>3. PICK h : IsRun(h, v, u, m + 1) /\ Run(v, u) = h[m + 1]
    BY <1>1, RunIs
  <1> HIDE DEF u, m
  <1> DEFINE S == {i \in Nat : i <= m => h[i] = g[i]}
  <1>4. 0 \in S
    BY <1>1, <1>2, <1>3 DEF IsRun
  <1>5. ASSUME NEW i \in Nat, i \in S PROVE i + 1 \in S
    <2>1. ASSUME i + 1 <= m PROVE h[i + 1] = g[i + 1]
      <3>1. /\ i + 1 \in 0 .. m /\ i + 1 \in 0 .. m + 1 /\ i + 1 # 0 /\ (i + 1) - 1 = i
            /\ i + 1 \in 1 .. m
        BY <1>1, <2>1
      <3>2. /\ h[i + 1] = Absorb(h[(i + 1) - 1], u[i + 1])
            /\ g[i + 1] = Absorb(g[(i + 1) - 1], q[i + 1])
        BY <1>2, <1>3, <3>1 DEF IsRun
      <3>3. h[i] = g[i]
        BY <1>1, <1>5, <2>1
      <3> QED
        BY <1>1, <3>1, <3>2, <3>3
    <2> QED
      BY <2>1
  <1>6. h[m] = g[m]
    <2> HIDE DEF S
    <2>1. m \in S
      BY <1>1, <1>4, <1>5, NatInductionOnSets
    <2> QED
      BY <1>1, <2>1 DEF S
  <1>7. h[m + 1] = Absorb(h[m], u[m + 1])
    <2>1. m + 1 \in 0 .. m + 1 /\ m + 1 # 0 /\ (m + 1) - 1 = m
      BY <1>1
    <2> QED
      BY <1>3, <2>1 DEF IsRun
  <1> QED
    BY <1>1, <1>2, <1>3, <1>6, <1>7, Zenon DEF u

\* The last hash of a proof is the last one read.
LEMMA FinalLonger ==
    ASSUME NEW v, NEW p, IsSequence(p), NEW c, NEW known, known \/ p # <<>>
    PROVE  Final(v, Longer(p, c), known) = Absorb(Final(v, p, known), c)
  <1>1. CASE known
    <2>1. \A q : Final(v, q, known) = Run(v, q)
      BY <1>1 DEF Final
    <2> QED
      BY <2>1, RunLonger
  <1>2. CASE ~known
    <2> DEFINE u == Longer(p, c)
    <2>1. p # <<>>
      BY <1>2
    <2>2. u # <<>> /\ u[1] = p[1] /\ Tail(u) = Longer(Tail(p), c) /\ IsSequence(Tail(p))
      <3>1. PICK S : p \in Seq(S)
        BY DEF IsSequence
      <3> DEFINE T == S \cup {c}
      <3>2. p \in Seq(T) /\ c \in T
        BY <3>1
      <3> HIDE DEF T
      <3>3. /\ Append(p, c) # <<>> /\ Append(p, c)[1] = p[1] /\ Tail(p) \in Seq(T)
            /\ Tail(Append(p, c)) = Append(Tail(p), c)
        BY <2>1, <3>2
      <3> QED
        BY <3>3 DEF IsSequence, Longer
    <2> HIDE DEF u
    <2> DEFINE w == [v EXCEPT !.ok = TRUE, !.fr = p[1], !.sr = p[1]]
    <2>3. Final(v, p, known) = Run(w, Tail(p))
      BY <1>2, <2>1 DEF Final
    <2>4. Final(v, u, known) = Run(w, Tail(u))
      BY <1>2, <2>2 DEF Final
    <2> HIDE DEF w
    <2>5. Run(w, Longer(Tail(p), c)) = Absorb(Run(w, Tail(p)), c)
      BY <2>2, RunLonger
    <2> QED
      BY <2>2, <2>3, <2>4, <2>5, Zenon DEF u
  <1> QED
    BY <1>1, <1>2

\* Taking in the hash of a node on the right.
LEMMA AbsorbRight ==
    ASSUME NEW v, NEW f \in Nat, NEW s \in Nat, NEW t \in Nat, NEW x, NEW y, NEW c,
           IsState(v, f, s, t, TRUE, x, y), t # 0, s % 2 = 0, s # t
    PROVE  IsState(Absorb(v, c), f \div 2, s \div 2, t \div 2, TRUE, x, HashNode(y, c))
  <1> DEFINE u == [v EXCEPT !.sr = HashNode(@, c)]
  <1>1. IsState(u, f, s, t, TRUE, x, HashNode(y, c))
    BY DEF IsState
  <1>2. Absorb(v, c) = Halved(u)
    <2>1. v.ok /\ v.tn # 0 /\ ~(v.sn % 2 = 1 \/ v.sn = v.tn)
      BY DEF IsState
    <2> QED
      BY <2>1, Zenon DEF Absorb
  <1> HIDE DEF u
  <1> QED
    BY <1>1, <1>2, HalvedIs

\* Taking in the hash of a node on the left, at the next level that has one.
LEMMA AbsorbLeft ==
    ASSUME NEW v, NEW f \in Nat, NEW s \in Nat, NEW t \in Nat, NEW x, NEW y, NEW c,
           IsState(v, f, s, t, TRUE, x, y), t # 0, s % 2 = 1 \/ s = t,
           NEW k \in 0 .. W, (s \div Pow2[k]) % 2 = 1,
           \A j \in 0 .. W : (s \div Pow2[j]) % 2 = 1 => k <= j
    PROVE  IsState(Absorb(v, c), (f \div Pow2[k]) \div 2, (s \div Pow2[k]) \div 2,
                   (t \div Pow2[k]) \div 2, TRUE,
                   IF f < s THEN HashNode(c, x) ELSE x, HashNode(c, y))
  <1> DEFINE u == [v EXCEPT !.fr = IF v.fn < v.sn THEN HashNode(c, @) ELSE @,
                            !.sr = HashNode(c, @)]
             front == IF f < s THEN HashNode(c, x) ELSE x
  <1>1. IsState(u, f, s, t, TRUE, front, HashNode(c, y))
    BY DEF IsState
  <1>2. Absorb(v, c) = Halved(ShiftUntil(OddSn, u))
    <2>1. v.ok /\ v.tn # 0 /\ (v.sn % 2 = 1 \/ v.sn = v.tn)
      BY DEF IsState
    <2> QED
      BY <2>1, Zenon DEF Absorb
  <1> HIDE DEF u, front
  <1>3. \A j \in 0 .. W : (Shifted(u, j)).sn = s \div Pow2[j]
    BY <1>1, ShiftedIs DEF IsState
  <1>4. ShiftUntil(OddSn, u) = Shifted(u, k)
    BY <1>3, ShiftUntilOdd
  <1>5. IsState(Shifted(u, k), f \div Pow2[k], s \div Pow2[k], t \div Pow2[k], TRUE, front,
                HashNode(c, y))
    BY <1>1, ShiftedIs
  <1>6. IsState(Halved(Shifted(u, k)), (f \div Pow2[k]) \div 2, (s \div Pow2[k]) \div 2,
                (t \div Pow2[k]) \div 2, TRUE, front, HashNode(c, y))
    BY <1>5, HalvedIs
  <1> QED
    BY <1>2, <1>4, <1>6, Zenon DEF front

\* Shifting twice.
LEMMA ShiftsAdd ==
    ASSUME NEW x \in Nat, NEW j \in Nat
    PROVE  \A k \in Nat : (x \div Pow2[j]) \div Pow2[k] = x \div Pow2[j + k]
  <1> DEFINE y == x \div Pow2[j]
             S == {k \in Nat : y \div Pow2[k] = x \div Pow2[j + k]}
  <1>1. y \in Nat
    BY Pow2Type, DivMod
  <1> HIDE DEF y
  <1>2. 0 \in S
    <2>1. y \div Pow2[0] = y /\ j + 0 = j
      BY <1>1, Pow2Equations
    <2> QED
      BY <2>1 DEF y
  <1>3. ASSUME NEW k \in Nat, k \in S PROVE k + 1 \in S
    <2>1. y \div Pow2[k + 1] = (y \div Pow2[k]) \div 2
      BY <1>1, Halving
    <2>2. x \div Pow2[(j + k) + 1] = (x \div Pow2[j + k]) \div 2
      BY Halving
    <2>3. (j + k) + 1 = j + (k + 1) /\ k + 1 \in Nat
      OBVIOUS
    <2> QED
      BY <1>3, <2>1, <2>2, <2>3
  <1> HIDE DEF S
  <1>4. Nat \subseteq S
    BY <1>2, <1>3, NatInductionOnSets
  <1> QED
    BY <1>4 DEF S, y

-----------------------------------------------------------------------------

\* Numbers that agree after some shifts agree after more.
LEMMA ShiftsAgree ==
    ASSUME NEW x \in Nat, NEW y \in Nat, NEW j \in Nat, NEW l \in Nat, j <= l,
           x \div Pow2[j] = y \div Pow2[j]
    PROVE  x \div Pow2[l] = y \div Pow2[l]
  <1> DEFINE i == l - j
  <1>1. i \in Nat /\ j + i = l
    OBVIOUS
  <1> HIDE DEF i
  <1>2. (x \div Pow2[j]) \div Pow2[i] = x \div Pow2[j + i]
    BY <1>1, ShiftsAdd
  <1>3. (y \div Pow2[j]) \div Pow2[i] = y \div Pow2[j + i]
    BY <1>1, ShiftsAdd
  <1> QED
    BY <1>1, <1>2, <1>3, Zenon

\* The entries of an aligned subtree agree above its height.
LEMMA AlignedAgree ==
    ASSUME NEW s \in Nat, NEW x \in Nat, NEW k \in Nat, s <= x, x + 1 <= s + Pow2[k],
           s % Pow2[k] = 0, NEW l \in Nat, k <= l
    PROVE  s \div Pow2[l] = x \div Pow2[l]
  <1> DEFINE Q == Pow2[k]
  <1>1. Q \in Nat \ {0}
    BY Pow2Type
  <1>2. PICK p \in Nat : s = Q * p
    BY <1>1, Multiples
  <1>3. x - s \in Nat /\ x - s < Q
    BY <1>1
  <1> HIDE DEF Q
  <1>4. s \div Q = p /\ x \div Q = p
    <2>1. (Q * p + 0) \div Q = p /\ (Q * p + (x - s)) \div Q = p
      BY <1>1, <1>3, DivModUnique, SMTT(30)
    <2>2. Q * p + 0 = s /\ Q * p + (x - s) = x
      BY <1>1, <1>2
    <2> QED
      BY <2>1, <2>2
  <1>5. s \div Pow2[k] = x \div Pow2[k]
    BY <1>4 DEF Q
  <1> QED
    BY <1>5, ShiftsAgree

\* Products grow with their factors.
LEMMA ProductsGrow ==
    ASSUME NEW P \in Nat \ {0}, NEW a \in Nat, NEW b \in Nat
    PROVE  P * a \in Nat /\ P * b \in Nat /\ (a < b => P * a + P <= P * b)
  <1>1. P * a \in Nat /\ P * b \in Nat
    OBVIOUS
  <1>2. ASSUME a < b PROVE P * a + P <= P * b
    <2>1. P * (a + 1) <= P * b
      BY <1>2
    <2>2. P * (a + 1) = P * a + P
      OBVIOUS
    <2> QED
      BY <1>1, <2>1, <2>2
  <1> QED
    BY <1>1, <1>2

\* A number at the next level, and some levels up.
LEMMA AtUp ==
    ASSUME NEW y \in Nat, NEW l \in Nat
    PROVE  /\ At(y, 0, l) \in Nat
           /\ At(y, 0, l + 1) = At(y, 0, l) \div 2
           /\ \A i \in Nat : At(y, 0, l) \div Pow2[i] = At(y, 0, l + i)
  <1>1. y - 0 = y
    OBVIOUS
  <1>2. \A i : At(y, 0, i) = y \div Pow2[i]
    BY <1>1, Zenon DEF At
  <1>3. y \div Pow2[l] \in Nat /\ y \div Pow2[l + 1] = (y \div Pow2[l]) \div 2
    BY Halving, Pow2Type, DivMod
  <1>4. \A i \in Nat : (y \div Pow2[l]) \div Pow2[i] = y \div Pow2[l + i]
    BY ShiftsAdd
  <1> QED
    BY <1>2, <1>3, <1>4, Zenon

-----------------------------------------------------------------------------

\* The hash of the j-th complete node of a level.
FullHash(X, i, j) == MTH(X, Pow2[i] * j, Pow2[i] * (j + 1))

\* The nodes of a level that are in a log of that size.
LEMMA Complete ==
    ASSUME NEW size \in Nat, NEW l \in Nat, NEW j \in Nat
    PROVE  j \in 0 .. (size \div Pow2[l]) - 1 <=> Pow2[l] * (j + 1) <= size
  <1> DEFINE P == Pow2[l]
             q == size \div P
             rest == size % P
  <1>1. P \in Nat \ {0} /\ size \in Nat
    BY Pow2Type
  <1> HIDE DEF P
  <1>2. q \in Nat /\ rest \in Nat /\ rest < P /\ size = P * q + rest
    BY <1>1, DivMod
  <1> HIDE DEF q, rest
  <1>3. j + 1 <= q => P * (j + 1) <= P * q
    BY <1>1, <1>2
  <1>4. q < j + 1 => P * (q + 1) <= P * (j + 1)
    BY <1>1, <1>2
  <1>5. P * (q + 1) = P * q + P /\ P * q \in Nat /\ P * (j + 1) \in Nat
    BY <1>1, <1>2
  <1>6. j + 1 <= q <=> P * (j + 1) <= size
    <2> DEFINE a == P * q
               b == P * (j + 1)
               c == P * (q + 1)
    <2>1. /\ a \in Nat /\ b \in Nat /\ c = a + P /\ size = a + rest
          /\ (j + 1 <= q => b <= a) /\ (q < j + 1 => c <= b)
      BY <1>2, <1>3, <1>4, <1>5
    <2> HIDE DEF a, b, c
    <2>2. j + 1 <= q <=> b <= size
      BY <1>1, <1>2, <2>1
    <2> QED
      BY <2>2 DEF b
  <1>7. j \in 0 .. q - 1 <=> j + 1 <= q
    BY <1>2
  <1> QED
    BY <1>6, <1>7 DEF q, P

\* A complete node is made of its two children.
LEMMA FullHashOfChildren ==
    ASSUME NEW X, NEW i \in Nat, NEW j \in Nat
    PROVE  FullHash(X, i + 1, j) = HashNode(FullHash(X, i, 2 * j), FullHash(X, i, 2 * j + 1))
  <1> DEFINE P == Pow2[i]
             a == P * (2 * j)
             c == P * (2 * j + 1)
             b == P * (2 * j + 1 + 1)
  <1>1. P \in Nat \ {0} /\ Pow2[i + 1] = 2 * P
    BY Pow2Equations, Pow2Type
  <1> HIDE DEF P
  <1>2. a \in Nat /\ c = a + P /\ b = a + 2 * P
    BY <1>1
  <1>3. (2 * P) * j = a /\ (2 * P) * (j + 1) = b
    BY <1>1
  <1> HIDE DEF a, b, c
  <1>4. IsSplitAt(a, c, b)
    <2>1. c \in Nat /\ b \in Nat /\ c = a + Pow2[i] /\ c < b /\ b <= a + Pow2[i + 1]
      BY <1>1, <1>2 DEF P
    <2> QED
      BY <1>2, <2>1 DEF IsSplitAt
  <1>5. MTH(X, a, b) = HashNode(MTH(X, a, c), MTH(X, c, b))
    BY <1>4, HashOfSplit
  <1>6. FullHash(X, i + 1, j) = MTH(X, a, b)
    BY <1>1, <1>3 DEF FullHash
  <1>7. FullHash(X, i, 2 * j) = MTH(X, a, c) /\ FullHash(X, i, 2 * j + 1) = MTH(X, c, b)
    BY Zenon DEF FullHash, a, b, c, P
  <1> QED
    BY <1>5, <1>6, <1>7

\* The tree's levels, as NewStaticMerkleTree computes them.
LevelFrom(X, f, i) ==
    [j \in 0 .. Len(X) \div Pow2[i] - 1 |->
        IF i = 0 THEN HashLeaf(X[j + 1])
        ELSE HashNode(f[i - 1][2 * j], f[i - 1][2 * j + 1])]

\* All of them.
FullLevel(X, i) == [j \in 0 .. Len(X) \div Pow2[i] - 1 |-> FullHash(X, i, j)]

\* A level built from the one below has the hashes of its complete nodes.
LEMMA LevelIsFull ==
    ASSUME NEW X, Len(X) \in Nat, NEW i \in Nat, NEW f, i # 0 => f[i - 1] = FullLevel(X, i - 1)
    PROVE  LevelFrom(X, f, i) = FullLevel(X, i)
  <1>1. CASE i = 0
    <2>1. ASSUME NEW j \in 0 .. Len(X) \div Pow2[0] - 1
          PROVE  HashLeaf(X[j + 1]) = FullHash(X, 0, j)
      <3>1. j \in Nat /\ Pow2[0] * j = j /\ Pow2[0] * (j + 1) = j + 1
        BY Pow2Equations
      <3> QED
        BY <3>1, MTHEquations DEF FullHash
    <2> QED
      BY <1>1, <2>1 DEF LevelFrom, FullLevel
  <1>2. CASE i # 0
    <2> DEFINE h == i - 1
    <2>1. h \in Nat /\ h + 1 = i
      BY <1>2
    <2>2. ASSUME NEW j \in 0 .. Len(X) \div Pow2[i] - 1
          PROVE  HashNode(f[h][2 * j], f[h][2 * j + 1]) = FullHash(X, i, j)
      <3>1. j \in Nat /\ Pow2[i] * (j + 1) <= Len(X)
        BY Complete
      <3> HIDE DEF h
      <3>2. /\ Pow2[h] * (2 * j + 1) <= Len(X)
            /\ Pow2[h] * (2 * j + 1 + 1) <= Len(X)
        <4> DEFINE P == Pow2[h]
        <4>1. P \in Nat /\ Pow2[i] = 2 * P /\ Len(X) \in Nat
          BY <2>1, Pow2Equations, Pow2Type
        <4> HIDE DEF P
        <4>2. /\ P * (2 * j + 1) = P * (2 * j + 1 + 1) - P
              /\ P * (2 * j + 1 + 1) = (2 * P) * (j + 1)
          BY <3>1, <4>1
        <4> DEFINE a == P * (2 * j + 1)
                   b == P * (2 * j + 1 + 1)
        <4>3. a = b - P /\ b <= Len(X) /\ b \in Nat
          BY <3>1, <4>1, <4>2
        <4> HIDE DEF a, b
        <4>4. a <= Len(X)
          BY <4>1, <4>3
        <4> QED
          BY <4>3, <4>4 DEF a, b, P
      <3>3. /\ 2 * j \in Nat /\ 2 * j + 1 \in Nat
            /\ 2 * j \in 0 .. Len(X) \div Pow2[h] - 1
            /\ 2 * j + 1 \in 0 .. Len(X) \div Pow2[h] - 1
        BY <2>1, <3>1, <3>2, Complete
      <3>4. f[h] = FullLevel(X, h)
        BY <1>2 DEF h
      <3>5. f[h][2 * j] = FullHash(X, h, 2 * j) /\ f[h][2 * j + 1] = FullHash(X, h, 2 * j + 1)
        BY <3>3, <3>4 DEF FullLevel
      <3> QED
        BY <2>1, <3>1, <3>5, FullHashOfChildren
    <2> QED
      BY <1>2, <2>2 DEF LevelFrom, FullLevel
  <1> QED
    BY <1>1, <1>2

\* The static tree is made of these levels.
LEMMA LevelsAre ==
    ASSUME NEW X, Len(X) \in Nat
    PROVE  /\ DOMAIN NewStaticMerkleTree(X) = 0 .. W
           /\ \A i \in 0 .. W : NewStaticMerkleTree(X)[i] = FullLevel(X, i)
  <1> DEFINE IsLevels(f) ==
               f = [i \in 0 .. W |->
                     [j \in 0 .. Len(X) \div Pow2[i] - 1 |->
                        IF i = 0 THEN HashLeaf(X[j + 1])
                        ELSE HashNode(f[i - 1][2 * j], f[i - 1][2 * j + 1])]]
             g == [i \in 0 .. W |-> FullLevel(X, i)]
             T == NewStaticMerkleTree(X)
  <1>0. W \in Nat
    BY WordFacts
  <1>1. ASSUME NEW f PROVE IsLevels(f) <=> f = [i \in 0 .. W |-> LevelFrom(X, f, i)]
    BY DEF LevelFrom
  <1>2. T = CHOOSE f : IsLevels(f)
    BY DEF NewStaticMerkleTree
  <1> HIDE DEF IsLevels, T
  <1>3. IsLevels(g)
    <2>1. ASSUME NEW i \in 0 .. W PROVE g[i] = LevelFrom(X, g, i)
      <3>1. i \in Nat /\ g[i] = FullLevel(X, i)
        OBVIOUS
      <3>2. i # 0 => i - 1 \in 0 .. W
        BY <1>0
      <3>3. i # 0 => g[i - 1] = FullLevel(X, i - 1)
        BY <3>2
      <3> HIDE DEF g
      <3> QED
        BY <3>1, <3>3, LevelIsFull
    <2>2. g = [i \in 0 .. W |-> g[i]]
      OBVIOUS
    <2> HIDE DEF g
    <2> QED
      BY <1>1, <2>1, <2>2
  <1>4. IsLevels(T)
    BY <1>2, <1>3
  <1>5. T = [i \in 0 .. W |-> LevelFrom(X, T, i)]
    BY <1>1, <1>4
  <1>6. DOMAIN T = 0 .. W /\ \A i \in 0 .. W : T[i] = LevelFrom(X, T, i)
    BY <1>5
  <1>7. \A i \in 0 .. W : T[i] = FullLevel(X, i)
    <2> DEFINE S == {i \in Nat : i <= W => T[i] = FullLevel(X, i)}
    <2>1. 0 \in S
      <3>1. 0 \in 0 .. W /\ 0 \in Nat
        BY <1>0
      <3>2. T[0] = FullLevel(X, 0)
        BY <1>6, <3>1, LevelIsFull
      <3> QED
        BY <3>2
    <2>2. ASSUME NEW i \in Nat, i \in S PROVE i + 1 \in S
      <3> SUFFICES ASSUME i + 1 <= W PROVE T[i + 1] = FullLevel(X, i + 1)
        OBVIOUS
      <3>1. i + 1 \in 0 .. W /\ i + 1 \in Nat /\ (i + 1) - 1 = i
        BY <1>0
      <3>2. T[i] = FullLevel(X, i)
        BY <1>0, <2>2
      <3> QED
        BY <1>6, <3>1, <3>2, LevelIsFull
    <2> HIDE DEF S
    <2>3. Nat \subseteq S
      BY <2>1, <2>2, NatInductionOnSets
    <2> QED
      BY <1>0, <2>3 DEF S
  <1> QED
    BY <1>6, <1>7 DEF T
=============================================================================
