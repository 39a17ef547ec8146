---------------------------- MODULE OutputProofs ----------------------------
(***************************************************************************)
(* For every word width, tile height, radix, number of digits and choice   *)
(* of logs: the output directory holds the log of its checkpoint, and no   *)
(* file is in the way of another one's directory.  First the names: what a *)
(* tile's path says of the tile, and that a reader arrives at the path the *)
(* writer chose.  Then the lists that are cut into tiles, which only grow. *)
(* Last the runs.                                                          *)
(***************************************************************************)
EXTENDS Output, SubtreeProofs, SequenceTheorems, FiniteSetTheorems

LEMMA PowerEquations ==
    ASSUME NEW b \in Nat
    PROVE  /\ Power(b) \in [Nat -> Nat]
           /\ Power(b)[0] = 1
           /\ \A k \in Nat : Power(b)[k + 1] = b * Power(b)[k]
  <1> DEFINE G == [x \in Nat \X Nat |-> b * x[2]]
             IsPower(g) == g = [n \in Nat |-> IF n = 0 THEN 1 ELSE b * g[n - 1]]
             P == Power(b)
  <1>1. G \in [Nat \X Nat -> Nat] /\ 1 \in Nat
    OBVIOUS
  <1>2. \A n, v \in Nat : G[<<n, v>>] = b * v
    OBVIOUS
  <1> HIDE DEF G
  <1>3. PICK f : IsStepwise(Nat, 1, G, f)
    BY <1>1, StepsExist
  <1>4. /\ f \in [Nat -> Nat] /\ f[0] = 1
        /\ \A n \in Nat \ {0} : f[n] = G[<<n, f[n - 1]>>]
    BY <1>3 DEF IsStepwise
  <1>5. IsPower(f)
    <2>1. ASSUME NEW n \in Nat PROVE f[n] = IF n = 0 THEN 1 ELSE b * f[n - 1]
      <3>1. n # 0 => n - 1 \in Nat /\ f[n - 1] \in Nat
        BY <1>4
      <3> QED
        BY <1>2, <1>4, <3>1
    <2> QED
      BY <1>4, <2>1
  <1>6. P = CHOOSE g : IsPower(g)
    BY DEF Power
  <1> HIDE DEF P
  <1>7. IsPower(P)
    <2> HIDE DEF IsPower
    <2> QED
      BY <1>5, <1>6
  <1>8. P[0] = 1
    BY <1>7
  <1>9. \A k \in Nat : P[k + 1] = b * P[k]
    <2> TAKE k \in Nat
    <2>1. k + 1 \in Nat /\ k + 1 # 0 /\ (k + 1) - 1 = k
      OBVIOUS
    <2> QED
      BY <1>7, <2>1
  <1>10. \A k \in Nat : P[k] \in Nat
    <2> DEFINE S == {k \in Nat : P[k] \in Nat}
    <2>1. 0 \in S
      BY <1>8
    <2>2. \A k \in Nat : k \in S => k + 1 \in S
      BY <1>9
    <2> HIDE DEF S
    <2>3. Nat \subseteq S
      BY <2>1, <2>2, NatInductionOnSets
    <2> QED
      BY <2>3 DEF S
  <1>11. P \in [Nat -> Nat]
    BY <1>7, <1>10
  <1> QED
    BY <1>8, <1>9, <1>11 DEF P

\* A power of a base that is at least two is no less than the base.
LEMMA PowerType ==
    ASSUME NEW b \in Nat \ {0, 1}
    PROVE  /\ \A k \in Nat : Power(b)[k] \in Nat \ {0}
           /\ \A k \in Nat \ {0} : Power(b)[k] >= b
  <1> DEFINE P == Power(b)
             S == {k \in Nat : P[k] \in Nat \ {0}}
  <1>0. P[0] = 1 /\ \A k \in Nat : P[k] \in Nat /\ P[k + 1] = b * P[k]
    BY PowerEquations
  <1> HIDE DEF P
  <1>1. 0 \in S
    BY <1>0
  <1>2. \A k \in Nat : k \in S => k + 1 \in S
    BY <1>0
  <1> HIDE DEF S
  <1>3. Nat \subseteq S
    BY <1>1, <1>2, NatInductionOnSets
  <1>4. \A k \in Nat : P[k] \in Nat \ {0}
    BY <1>3 DEF S
  <1>5. \A k \in Nat \ {0} : P[k] >= b
    <2> TAKE k \in Nat \ {0}
    <2>1. k - 1 \in Nat /\ (k - 1) + 1 = k
      OBVIOUS
    <2>2. P[k] = b * P[k - 1] /\ P[k - 1] \in Nat \ {0}
      BY <1>0, <1>4, <2>1
    <2>3. b * P[k - 1] >= b * 1
      BY <2>2
    <2> QED
      BY <2>2, <2>3
  <1> QED
    BY <1>4, <1>5 DEF P

LEMMA BaseType == Base \in Nat \ {0, 1} /\ Digits \in Nat \ {0}
  <1>1. Radix \in Nat \ {0, 1} /\ Digits \in Nat \ {0}
    BY TileAssumption
  <1>2. Power(Radix)[Digits] \in Nat \ {0} /\ Power(Radix)[Digits] >= Radix
    BY <1>1, PowerType
  <1> QED
    BY <1>1, <1>2 DEF Base

\* The digits of a number in a base: all but the last, and the last.
LEMMA Quotients ==
    ASSUME NEW n \in Nat
    PROVE  /\ n \div Base \in Nat /\ n % Base \in Nat /\ n % Base < Base
           /\ n = Base * (n \div Base) + (n % Base)
           /\ n # 0 => n \div Base < n
  <1>1. Base \in Nat \ {0} /\ Base >= 2
    BY BaseType
  <1>2. /\ n \div Base \in Nat /\ n % Base \in Nat /\ n % Base < Base
        /\ n = Base * (n \div Base) + (n % Base)
    BY <1>1, DivMod
  <1>3. n # 0 => n \div Base < n
    <2> SUFFICES ASSUME n # 0, ~(n \div Base < n) PROVE FALSE
      OBVIOUS
    <2> DEFINE q == n \div Base
    <2>1. q \in Nat /\ q >= n /\ n > 0
      BY <1>2
    <2> HIDE DEF q
    <2>2. Base * q >= 2 * q
      BY <1>1, <2>1
    <2>3. Base * q <= n
      BY <1>1, <1>2, <2>1 DEF q
    <2>4. Base * q \in Nat
      BY <1>1, <2>1
    <2> QED
      BY <2>1, <2>2, <2>3, <2>4
  <1> QED
    BY <1>1, <1>2, <1>3

\* Dividing twice.
LEMMA QuotientOfQuotient ==
    ASSUME NEW n \in Nat, NEW a \in Nat \ {0}, NEW b \in Nat \ {0}
    PROVE  (n \div a) \div b = n \div (a * b)
  <1> DEFINE q == n \div a
             r == n % a
             s == q \div b
             t == q % b
             u == a * t + r
  <1>1. q \in Nat /\ r \in Nat /\ r < a /\ n = a * q + r
    BY DivMod
  <1> HIDE DEF q, r
  <1>2. s \in Nat /\ t \in Nat /\ t < b /\ q = b * s + t
    BY <1>1, DivMod
  <1> HIDE DEF s, t
  <1>3. a * (b * s + t) = (a * b) * s + a * t /\ a * t \in Nat /\ a * b \in Nat \ {0}
    BY <1>2
  <1>4. u \in Nat /\ n = (a * b) * s + u
    BY <1>1, <1>2, <1>3
  <1>5. u < a * b
    <2>1. a * (t + 1) <= a * b
      BY <1>2
    <2>2. a * (t + 1) = a * t + a
      BY <1>2
    <2> QED
      BY <1>1, <1>3, <2>1, <2>2
  <1> DEFINE c == a * b
  <1>6. c \in Nat \ {0} /\ u < c /\ n = c * s + u
    BY <1>3, <1>4, <1>5
  <1> HIDE DEF c, u
  <1>7. n \div c = s
    BY <1>2, <1>4, <1>6, DivModUnique
  <1> QED
    BY <1>7 DEF c, s, q

-----------------------------------------------------------------------------

\* The components of a path that are numbers.
Numeral == [x : BOOLEAN, width : Nat, value : Nat, p : BOOLEAN]

\* A directory of digits, and the last digits.
Dir(d) == [Padded(d) EXCEPT !.x = TRUE]
Last(d, partial) == [Padded(d) EXCEPT !.p = partial]

LEMMA NumeralsAre ==
    /\ \A d \in Nat : /\ Dir(d) \in Numeral /\ Dir(d).value = d
                      /\ Dir(d).x = TRUE /\ Dir(d).p = FALSE
    /\ \A d \in Nat, b \in BOOLEAN : /\ Last(d, b) \in Numeral /\ Last(d, b).value = d
                                     /\ Last(d, b).x = FALSE /\ Last(d, b).p = b
  <1>1. Digits \in Nat
    BY BaseType
  <1> QED
    BY <1>1 DEF Numeral, Dir, Last, Padded, Number

LEMMA NumeralsEqual ==
    \A c, d \in Numeral :
        c.x = d.x /\ c.width = d.width /\ c.value = d.value /\ c.p = d.p => c = d
  BY DEF Numeral

LEMMA LastIsPlain ==
    ASSUME NEW d \in Nat
    PROVE  [Padded(d) EXCEPT !.x = FALSE] = Last(d, FALSE)
  <1> DEFINE c == [Padded(d) EXCEPT !.x = FALSE]
             e == [Padded(d) EXCEPT !.p = FALSE]
  <1>1. Digits \in Nat
    BY BaseType
  <1>2. c \in Numeral /\ c.x = FALSE /\ c.width = Digits /\ c.value = d /\ c.p = FALSE
    BY <1>1 DEF Numeral, Padded, Number
  <1>3. e \in Numeral /\ e.x = FALSE /\ e.width = Digits /\ e.value = d /\ e.p = FALSE
    BY <1>1 DEF Numeral, Padded, Number
  <1> HIDE DEF c, e
  <1>4. c = e
    BY <1>2, <1>3, NumeralsEqual
  <1> QED
    BY <1>4 DEF c, e, Last

LEMMA IndexDirsAre ==
    /\ \A n \in Nat : indexDirs[n] \in Seq(Numeral)
    /\ indexDirs[0] = <<>>
    /\ \A n \in Nat \ {0} : indexDirs[n] = Append(indexDirs[n \div Base], Dir(n % Base))
  <1> DEFINE p == [n \in Nat |-> n \div Base]
             G == [x \in Nat \X Seq(Numeral) |-> Append(x[2], Dir(x[1] % Base))]
  <1>1. p \in [Nat -> Nat]
    BY Quotients
  <1>2. \A n \in Nat : n # 0 => p[n] < n
    BY Quotients
  <1>3. \A n \in Nat : Dir(n % Base) \in Numeral
    BY Quotients, NumeralsAre
  <1>4. G \in [Nat \X Seq(Numeral) -> Seq(Numeral)]
    BY <1>3
  <1>5. <<>> \in Seq(Numeral)
    OBVIOUS
  <1>6. \A n \in Nat, s \in Seq(Numeral) : G[<<n, s>>] = Append(s, Dir(n % Base))
    OBVIOUS
  <1>7. \A n \in Nat : p[n] = n \div Base
    OBVIOUS
  <1> HIDE DEF p, G
  <1>8. PICK f : IsRecursive(Seq(Numeral), <<>>, p, G, f)
    BY <1>1, <1>2, <1>4, <1>5, RecursionExists
  <1>9. /\ f \in [Nat -> Seq(Numeral)] /\ f[0] = <<>>
        /\ \A n \in Nat \ {0} : f[n] = G[<<n, f[p[n]]>>]
    BY <1>8 DEF IsRecursive
  <1>10. ASSUME NEW n \in Nat
         PROVE  f[n] = IF n = 0 THEN <<>> ELSE Append(f[n \div Base], Dir(n % Base))
    <2>1. n \div Base \in Nat
      BY Quotients
    <2>2. f[n \div Base] \in Seq(Numeral)
      BY <1>9, <2>1
    <2> QED
      BY <1>6, <1>7, <1>9, <2>1, <2>2
  <1>11. f = [n \in Nat |-> IF n = 0 THEN <<>> ELSE Append(f[n \div Base], Dir(n % Base))]
    BY <1>9, <1>10
  <1>12. indexDirs = [n \in Nat |-> IF n = 0 THEN <<>>
                         ELSE Append(indexDirs[n \div Base], Dir(n % Base))]
    BY <1>11, Zenon DEF indexDirs, Dir
  <1>13. indexDirs[0] = <<>>
    BY <1>12
  <1>14. \A n \in Nat \ {0} :
            indexDirs[n] = Append(indexDirs[n \div Base], Dir(n % Base))
    BY <1>12
  <1>15. \A n \in Nat : indexDirs[n] \in Seq(Numeral)
    <2> DEFINE S == {k \in Nat : \A n \in 0 .. k : indexDirs[n] \in Seq(Numeral)}
    <2>1. 0 \in S
      <3>1. \A n \in 0 .. 0 : n = 0
        OBVIOUS
      <3>2. indexDirs[0] \in Seq(Numeral)
        BY <1>5, <1>13
      <3> QED
        BY <3>1, <3>2
    <2>2. ASSUME NEW k \in Nat, k \in S PROVE k + 1 \in S
      <3>1. ASSUME NEW n \in 0 .. k + 1 PROVE indexDirs[n] \in Seq(Numeral)
        <4>1. CASE n <= k
          BY <2>2, <4>1
        <4>2. CASE n = k + 1
          <5>1. n \in Nat \ {0} /\ n \div Base \in 0 .. k
            BY <4>2, Quotients
          <5>2. indexDirs[n \div Base] \in Seq(Numeral)
            BY <2>2, <5>1
          <5>3. indexDirs[n] = Append(indexDirs[n \div Base], Dir(n % Base))
            BY <1>14, <5>1
          <5> QED
            BY <1>3, <5>1, <5>2, <5>3
        <4> QED
          BY <4>1, <4>2
      <3> QED
        BY <3>1
    <2> HIDE DEF S
    <2>3. Nat \subseteq S
      BY <2>1, <2>2, NatInductionOnSets
    <2>4. \A n \in Nat : n \in 0 .. n
      OBVIOUS
    <2> QED
      BY <2>3, <2>4 DEF S
  <1> QED
    BY <1>13, <1>14, <1>15

\* Strong induction, on sets of numbers.
LEMMA StrongInduction ==
    ASSUME NEW S, \A n \in Nat : (\A k \in 0 .. n - 1 : k \in S) => n \in S
    PROVE  Nat \subseteq S
  <1> DEFINE U == {m \in Nat : \A k \in 0 .. m : k \in S}
  <1>1. 0 \in U
    <2>1. \A k \in 0 .. 0 - 1 : k \in S
      OBVIOUS
    <2>2. 0 \in S
      BY <2>1
    <2> QED
      BY <2>2
  <1>2. ASSUME NEW m \in Nat, m \in U PROVE m + 1 \in U
    <2>1. \A k \in 0 .. (m + 1) - 1 : k \in S
      BY <1>2
    <2>2. m + 1 \in S
      BY <2>1
    <2> QED
      BY <1>2, <2>2
  <1> HIDE DEF U
  <1>3. Nat \subseteq U
    BY <1>1, <1>2, NatInductionOnSets
  <1>4. \A n \in Nat : n \in 0 .. n
    OBVIOUS
  <1> QED
    BY <1>3, <1>4 DEF U

\* Every one is marked as a directory.
LEMMA DirsAreMarked ==
    \A n \in Nat : \A j \in 1 .. Len(indexDirs[n]) : indexDirs[n][j].x = TRUE
  <1> DEFINE Marked(s) == \A j \in 1 .. Len(s) : s[j].x = TRUE
             S == {n \in Nat : Marked(indexDirs[n])}
  <1>1. ASSUME NEW n \in Nat, \A k \in 0 .. n - 1 : k \in S PROVE n \in S
    <2>1. CASE n = 0
      BY <2>1, IndexDirsAre
    <2>2. CASE n # 0
      <3> DEFINE s == indexDirs[n \div Base]
                 d == Dir(n % Base)
                 t == Append(s, d)
      <3>1. n \div Base \in 0 .. n - 1
        BY <2>2, Quotients
      <3>2. s \in Seq(Numeral) /\ Marked(s)
        BY <1>1, <3>1, IndexDirsAre
      <3>3. d \in Numeral /\ d.x = TRUE
        BY Quotients, NumeralsAre
      <3>4. indexDirs[n] = t
        BY <2>2, IndexDirsAre
      <3> HIDE DEF s, d
      <3>5. Len(t) = Len(s) + 1 /\ Len(s) \in Nat /\ t[Len(s) + 1] = d
            /\ \A j \in 1 .. Len(s) : t[j] = s[j]
        BY <3>2, <3>3
      <3>6. Marked(t)
        BY <3>2, <3>3, <3>5
      <3> QED
        BY <3>4, <3>6
    <2> QED
      BY <2>1, <2>2
  <1> HIDE DEF S
  <1>2. Nat \subseteq S
    BY <1>1, StrongInduction
  <1> QED
    BY <1>2 DEF S

\* No two numbers have the same directories.
LEMMA DirsDiffer ==
    \A n \in Nat : \A m \in Nat : indexDirs[n] = indexDirs[m] => n = m
  <1> DEFINE S == {n \in Nat : \A m \in Nat : indexDirs[n] = indexDirs[m] => n = m}
  <1>1. ASSUME NEW n \in Nat, \A k \in 0 .. n - 1 : k \in S PROVE n \in S
    <2> SUFFICES ASSUME NEW m \in Nat, indexDirs[n] = indexDirs[m] PROVE n = m
      OBVIOUS
    <2>1. \A k \in Nat \ {0} : /\ Len(indexDirs[k]) # 0
                               /\ indexDirs[k] = Append(indexDirs[k \div Base], Dir(k % Base))
                               /\ indexDirs[k \div Base] \in Seq(Numeral)
                               /\ k \div Base \in Nat /\ k % Base \in Nat
                               /\ Dir(k % Base) \in Numeral
                               /\ Dir(k % Base).value = k % Base
      <3> TAKE k \in Nat \ {0}
      <3>1. /\ indexDirs[k] = Append(indexDirs[k \div Base], Dir(k % Base))
            /\ indexDirs[k \div Base] \in Seq(Numeral)
            /\ k \div Base \in Nat /\ k % Base \in Nat
            /\ Dir(k % Base) \in Numeral
            /\ Dir(k % Base).value = k % Base
        BY IndexDirsAre, Quotients, NumeralsAre
      <3>2. Len(indexDirs[k]) # 0
        BY <3>1
      <3> QED
        BY <3>1, <3>2
    <2>2. Len(indexDirs[0]) = 0
      BY IndexDirsAre
    <2>3. CASE n = 0 \/ m = 0
      BY <2>1, <2>2, <2>3
    <2>4. CASE n # 0 /\ m # 0
      <3> DEFINE a == indexDirs[n \div Base]
                 b == indexDirs[m \div Base]
                 d == Dir(n % Base)
                 e == Dir(m % Base)
      <3>1. a \in Seq(Numeral) /\ b \in Seq(Numeral) /\ d \in Numeral /\ e \in Numeral
            /\ Append(a, d) = Append(b, e)
        BY <2>1, <2>4
      <3>2. a = b /\ d = e
        <4> HIDE DEF a, b, d, e
        <4> QED
          BY <3>1, AppendProperties, SMT
      <3>3. n \div Base = m \div Base
        <4>1. n \div Base \in 0 .. n - 1 /\ m \div Base \in Nat
          BY <2>4, Quotients
        <4> QED
          BY <1>1, <3>2, <4>1
      <3>4. n % Base = m % Base
        BY <2>1, <2>4, <3>2
      <3>5. /\ n = Base * (n \div Base) + (n % Base)
            /\ m = Base * (m \div Base) + (m % Base)
        BY Quotients
      <3> QED
        BY <3>3, <3>4, <3>5, Zenon
    <2> QED
      BY <2>3, <2>4
  <1> HIDE DEF S
  <1>2. Nat \subseteq S
    BY <1>1, StrongInduction
  <1> QED
    BY <1>2 DEF S

-----------------------------------------------------------------------------

LEMMA TimesMonotone ==
    ASSUME NEW m \in Nat, NEW a \in Nat, NEW b \in Nat, a <= b
    PROVE  m * a <= m * b
  <1>1. b - a \in Nat /\ b = a + (b - a)
    OBVIOUS
  <1>2. PICK d \in Nat : b = a + d
    BY <1>1
  <1>3. m * (a + d) = m * a + m * d
    OBVIOUS
  <1>4. m * a \in Nat /\ m * d \in Nat
    OBVIOUS
  <1> QED
    BY <1>2, <1>3, <1>4

LEMMA PowersGrow ==
    ASSUME NEW b \in Nat \ {0, 1}, NEW j \in Nat, NEW k \in Nat, j <= k
    PROVE  Power(b)[j] <= Power(b)[k] /\ k < Power(b)[k]
  <1> DEFINE P == Power(b)
             S == {d \in Nat : P[j] <= P[j + d]}
             U == {d \in Nat : d < P[d]}
  <1>0. P[0] = 1 /\ \A i \in Nat : P[i] \in Nat \ {0} /\ P[i + 1] = b * P[i]
    BY PowerEquations, PowerType
  <1> HIDE DEF P
  <1>1. ASSUME NEW i \in Nat PROVE P[i + 1] >= 2 * P[i]
    <2> DEFINE x == P[i]
    <2>1. x \in Nat /\ P[i + 1] = b * x
      BY <1>0
    <2> HIDE DEF x
    <2>2. x * 2 <= x * b
      BY <2>1, TimesMonotone
    <2>3. x * 2 = 2 * x /\ x * b = b * x /\ b * x \in Nat
      BY <2>1
    <2> QED
      BY <2>1, <2>2, <2>3 DEF x
  <1>2. 0 \in S /\ \A d \in Nat : d \in S => d + 1 \in S
    <2>1. ASSUME NEW d \in Nat, d \in S PROVE d + 1 \in S
      <3>1. j + (d + 1) = (j + d) + 1 /\ j + d \in Nat
        OBVIOUS
      <3>2. P[j + (d + 1)] >= 2 * P[j + d]
        BY <1>1, <3>1
      <3> QED
        BY <1>0, <2>1, <3>1, <3>2
    <2> QED
      BY <1>0, <2>1
  <1>3. 0 \in U /\ \A d \in Nat : d \in U => d + 1 \in U
    BY <1>0, <1>1
  <1> HIDE DEF S, U
  <1>4. Nat \subseteq S /\ Nat \subseteq U
    BY <1>2, <1>3, NatInductionOnSets
  <1>5. k - j \in Nat /\ j + (k - j) = k
    OBVIOUS
  <1> QED
    BY <1>4, <1>5 DEF S, U, P

Place == Power(Base)

\* The number that stands at a place, and before it.
Quotient(n, k) == n \div Place[k]

LEMMA Places ==
    /\ Place[0] = 1
    /\ \A k \in Nat : Place[k] \in Nat \ {0} /\ Place[k + 1] = Base * Place[k]
    /\ \A n \in Nat : Quotient(n, 0) = n
    /\ \A n, k \in Nat : Quotient(n, k) \in Nat /\ Quotient(n \div Base, k) = Quotient(n, k + 1)
  <1>1. /\ Place[0] = 1
        /\ \A k \in Nat : Place[k] \in Nat \ {0} /\ Place[k + 1] = Base * Place[k]
    BY BaseType, PowerEquations, PowerType DEF Place
  <1>2. \A n \in Nat : Quotient(n, 0) = n
    BY <1>1 DEF Quotient
  <1>3. ASSUME NEW n \in Nat, NEW k \in Nat
        PROVE  Quotient(n, k) \in Nat /\ Quotient(n \div Base, k) = Quotient(n, k + 1)
    <2>1. Base \in Nat \ {0} /\ Place[k] \in Nat \ {0}
      BY <1>1, BaseType
    <2>2. Quotient(n, k) \in Nat
      BY <2>1, DivMod DEF Quotient
    <2>3. (n \div Base) \div Place[k] = n \div (Base * Place[k])
      BY <2>1, QuotientOfQuotient
    <2> QED
      BY <1>1, <2>2, <2>3 DEF Quotient
  <1> QED
    BY <1>1, <1>2, <1>3

\* As many digits as the number has.
HasLength(n, k) ==
    /\ n < Place[k]
    /\ n # 0 => k # 0 /\ Place[k - 1] <= n
    /\ n = 0 => k = 0

LEMMA LengthOfQuotient ==
    ASSUME NEW n \in Nat, NEW k \in Nat, HasLength(n \div Base, k)
    PROVE  n < Place[k + 1] /\ (k # 0 => Place[k] <= n)
  <1> DEFINE q == n \div Base
             r == n % Base
             P == Place[k]
  <1>1. q \in Nat /\ r \in Nat /\ r < Base /\ n = Base * q + r
    BY Quotients
  <1> HIDE DEF q, r
  <1>2. Base \in Nat \ {0} /\ P \in Nat /\ Place[k + 1] = Base * P
    BY Places, BaseType
  <1>3. q < P
    BY DEF HasLength, q
  <1> HIDE DEF P
  <1>4. Base * (q + 1) <= Base * P
    BY <1>1, <1>2, <1>3
  <1>5. Base * (q + 1) = Base * q + Base
    BY <1>1, <1>2
  <1>6. n < Place[k + 1]
    <2> DEFINE x == Base * q
               y == Base * P
    <2>1. x + Base <= y /\ n = x + r /\ x \in Nat /\ y \in Nat /\ Place[k + 1] = y
      BY <1>1, <1>2, <1>4, <1>5
    <2> HIDE DEF x, y
    <2> QED
      BY <1>1, <1>2, <2>1
  <1>7. ASSUME k # 0 PROVE Place[k] <= n
    <2>1. q # 0 /\ Place[k - 1] <= q
      BY <1>7 DEF HasLength, q
    <2>2. k - 1 \in Nat /\ (k - 1) + 1 = k
      BY <1>7
    <2>3. Place[k - 1] \in Nat /\ Place[k] = Base * Place[k - 1]
      BY <2>2, Places
    <2> DEFINE u == Place[k - 1]
    <2> HIDE DEF u
    <2>4. u \in Nat /\ u <= q
      BY <2>1, <2>3 DEF u
    <2>5. Base * u <= Base * q
      BY <1>1, <1>2, <2>4
    <2>6. Base * u \in Nat /\ Base * q \in Nat
      BY <1>1, <1>2, <2>4
    <2>7. Place[k] = Base * u
      BY <2>3 DEF u
    <2> QED
      BY <1>1, <2>5, <2>6, <2>7
  <1> QED
    BY <1>6, <1>7

\* The directories are the digits, place by place.
ByPlace(s, n) ==
    /\ HasLength(n, Len(s))
    /\ \A j \in 1 .. Len(s) : s[j] = Dir(Quotient(n, Len(s) - j) % Base)

LEMMA DirsByPlace == \A n \in Nat : ByPlace(indexDirs[n], n)
  <1> DEFINE S == {n \in Nat : ByPlace(indexDirs[n], n)}
  <1>1. ASSUME NEW n \in Nat, \A k \in 0 .. n - 1 : k \in S PROVE n \in S
    <2>1. CASE n = 0
      <3>1. HasLength(0, 0)
        BY Places DEF HasLength
      <3>2. Len(indexDirs[0]) = 0
        BY IndexDirsAre
      <3>3. ByPlace(indexDirs[0], 0)
        BY <3>1, <3>2 DEF ByPlace
      <3> QED
        BY <2>1, <3>3
    <2>2. CASE n # 0
      <3> DEFINE q == n \div Base
                 s == indexDirs[q]
                 d == Dir(n % Base)
                 t == Append(s, d)
                 m == Len(s)
      <3>1. q \in 0 .. n - 1 /\ q \in Nat
        BY <2>2, Quotients
      <3>2. s \in Seq(Numeral) /\ ByPlace(s, q)
        BY <1>1, <3>1, IndexDirsAre
      <3>3. d \in Numeral
        BY Quotients, NumeralsAre
      <3>4. indexDirs[n] = t
        BY <2>2, IndexDirsAre
      <3>5. Len(t) = m + 1 /\ m \in Nat /\ t[m + 1] = d /\ \A j \in 1 .. m : t[j] = s[j]
        <4> HIDE DEF s, d
        <4> QED
          BY <3>2, <3>3
      <3> HIDE DEF s, t
      <3>6. HasLength(q, m)
        BY <3>2 DEF ByPlace
      <3> HIDE DEF m
      <3>7. HasLength(n, m + 1)
        <4>1. n < Place[m + 1] /\ (m # 0 => Place[m] <= n)
          BY <3>5, <3>6, LengthOfQuotient
        <4>2. Place[0] = 1
          BY Places
        <4>3. m + 1 # 0 /\ (m + 1) - 1 = m /\ Place[m] <= n
          BY <2>2, <3>5, <4>1, <4>2
        <4> QED
          BY <2>2, <4>1, <4>3 DEF HasLength
      <3>8. ASSUME NEW j \in 1 .. m + 1
            PROVE  t[j] = Dir(Quotient(n, (m + 1) - j) % Base)
        <4>1. CASE j = m + 1
          <5>1. (m + 1) - j = 0
            BY <3>5, <4>1
          <5>2. Quotient(n, 0) = n
            BY Places
          <5> QED
            BY <3>5, <4>1, <5>1, <5>2
        <4>2. CASE j \in 1 .. m
          <5>1. m - j \in Nat /\ (m - j) + 1 = (m + 1) - j
            BY <3>5, <4>2
          <5>2. Quotient(q, m - j) = Quotient(n, (m + 1) - j)
            BY <5>1, Places
          <5>3. s[j] = Dir(Quotient(q, m - j) % Base)
            BY <3>2, <4>2 DEF ByPlace, m
          <5> QED
            BY <3>5, <4>2, <5>2, <5>3
        <4> QED
          BY <3>5, <4>1, <4>2
      <3>9. ByPlace(t, n)
        BY <3>5, <3>7, <3>8 DEF ByPlace
      <3> QED
        BY <3>4, <3>9
    <2> QED
      BY <2>1, <2>2
  <1> HIDE DEF S
  <1>2. Nat \subseteq S
    BY <1>1, StrongInduction
  <1> QED
    BY <1>2 DEF S

\* A reader writes a tile's number as the writer did (generate.go:46-62,
\* estimate_tile_size.go:251-259).
LEMMA IndicesAgree ==
    ASSUME NEW n \in Nat
    PROVE  encodeIndex(n) = tlogIndex(n, FALSE)
  <1> DEFINE s == indexDirs[n \div Base]
             m == Len(s)
             d == Last(n % Base, FALSE)
             top == CHOOSE k \in 0 .. n : n < Place[k + 1] /\ (k > 0 => n >= Place[k])
             code == [j \in 1 .. top + 1 |->
                        [Padded((n \div Place[top + 1 - j]) % Base) EXCEPT !.x = j <= top]]
             t == Append(s, d)
  <1>1. n \div Base \in Nat /\ n % Base \in Nat
    BY Quotients
  <1>2. s \in Seq(Numeral) /\ ByPlace(s, n \div Base) /\ m \in Nat
    BY <1>1, IndexDirsAre, DirsByPlace
  <1>3. d \in Numeral
    BY <1>1, NumeralsAre
  <1>4. Len(t) = m + 1 /\ t \in Seq(Numeral) /\ t[m + 1] = d /\ \A j \in 1 .. m : t[j] = s[j]
    <2> HIDE DEF s, d
    <2> QED
      BY <1>2, <1>3
  <1>5. tlogIndex(n, FALSE) = t
    BY DEF tlogIndex, Last
  <1>6. encodeIndex(n) = code
    BY DEF encodeIndex, Place
  <1> HIDE DEF s, t, code
  <1>7. n < Place[m + 1] /\ (m # 0 => Place[m] <= n)
    <2>1. HasLength(n \div Base, m)
      BY <1>2 DEF ByPlace
    <2> HIDE DEF m
    <2> QED
      BY <1>2, <2>1, LengthOfQuotient
  <1> HIDE DEF m
  <1>8. top = m
    <2>0. \A i, k \in Nat : i <= k => Place[i] <= Place[k] /\ k < Place[k]
      BY BaseType, PowersGrow DEF Place
    <2>1. \A k \in Nat : Place[k] \in Nat
      BY Places
    <2>2. m \in 0 .. n
      <3>1. m < Place[m]
        BY <1>2, <2>0
      <3> QED
        BY <1>2, <1>7, <2>1, <3>1
    <2>3. ASSUME NEW k \in 0 .. n, n < Place[k + 1] /\ (k > 0 => n >= Place[k]) PROVE k = m
      <3>1. CASE k < m
        <4>1. k + 1 \in Nat /\ k + 1 <= m /\ m # 0
          BY <1>2, <3>1
        <4>2. Place[k + 1] <= Place[m]
          BY <1>2, <2>0, <4>1
        <4> QED
          BY <1>2, <1>7, <2>1, <2>3, <4>1, <4>2
      <3>2. CASE k > m
        <4>1. k \in Nat /\ m + 1 \in Nat /\ m + 1 <= k /\ k > 0
          BY <1>2, <3>2
        <4>2. Place[m + 1] <= Place[k]
          BY <2>0, <4>1
        <4> QED
          BY <1>7, <2>1, <2>3, <4>1, <4>2
      <3> QED
        BY <1>2, <3>1, <3>2
    <2> QED
      BY <1>2, <1>7, <2>2, <2>3
  <1> HIDE DEF top
  <1>9. code = [j \in 1 .. m + 1 |->
                   [Padded(Quotient(n, m + 1 - j) % Base) EXCEPT !.x = j <= m]]
    BY <1>8 DEF code, Quotient
  <1>10. ASSUME NEW j \in 1 .. m + 1
         PROVE  [Padded(Quotient(n, m + 1 - j) % Base) EXCEPT !.x = j <= m] = t[j]
    <2>1. CASE j = m + 1
      <3>1. m + 1 - j = 0 /\ ~(j <= m)
        BY <1>2, <2>1
      <3>2. Quotient(n, 0) = n
        BY Places
      <3>3. [Padded(n % Base) EXCEPT !.x = FALSE] = d
        BY Quotients, LastIsPlain
      <3> DEFINE flag == j <= m
                 c == Quotient(n, m + 1 - j)
      <3>4. flag = FALSE /\ c = n
        BY <3>1, <3>2
      <3>5. t[j] = d
        BY <1>4, <2>1
      <3> HIDE DEF flag, c, d
      <3>6. [Padded(c % Base) EXCEPT !.x = flag] = t[j]
        BY <3>3, <3>4, <3>5
      <3> QED
        BY <3>6 DEF flag, c
    <2>2. CASE j \in 1 .. m
      <3>1. m - j \in Nat /\ (m - j) + 1 = m + 1 - j /\ j <= m
        BY <1>2, <2>2
      <3>2. Quotient(n \div Base, m - j) = Quotient(n, m + 1 - j)
        BY <3>1, Places
      <3>3. s[j] = Dir(Quotient(n \div Base, m - j) % Base)
        BY <1>2, <2>2 DEF ByPlace, m
      <3>4. (j <= m) = TRUE
        BY <3>1
      <3> QED
        BY <1>4, <2>2, <3>2, <3>3, <3>4 DEF Dir
    <2> QED
      BY <1>2, <2>1, <2>2
  <1>11. t = [j \in 1 .. m + 1 |-> t[j]]
    BY <1>4
  <1>12. code = t
    BY <1>9, <1>10, <1>11
  <1> QED
    BY <1>5, <1>6, <1>12

-----------------------------------------------------------------------------

\* %d prints every number, and no two alike.
LEMMA ItoaIs ==
    ASSUME NEW n \in Nat
    PROVE  Itoa(n) \in Numeral /\ Itoa(n).value = n
  <1> DEFINE P == Power(Radix)
             T == {w \in Nat \ {0} : n < P[w]}
             Fits(w) == n < P[w] /\ (w > 1 => n >= P[w - 1])
             width == CHOOSE w \in 1 .. n + 1 : Fits(w)
  <1>1. Radix \in Nat \ {0, 1}
    BY TileAssumption
  <1>2. \A k \in Nat : P[k] \in Nat /\ k < P[k]
    BY <1>1, PowerType, PowersGrow
  <1> HIDE DEF P
  <1>3. n + 1 \in T
    BY <1>2
  <1>4. PICK w \in T : \A y \in T : w <= y
    <2>1. T \subseteq Nat /\ T # {}
      BY <1>3
    <2> HIDE DEF T
    <2> QED
      BY <2>1, HasLeast
  <1>5. w \in 1 .. n + 1 /\ Fits(w)
    <2>1. w <= n + 1 /\ w \in Nat \ {0} /\ n < P[w]
      BY <1>3, <1>4
    <2>2. ASSUME w > 1 PROVE n >= P[w - 1]
      <3>1. w - 1 \in Nat \ {0} /\ w - 1 \notin T
        BY <1>4, <2>1, <2>2
      <3>2. P[w - 1] \in Nat
        BY <1>2, <3>1
      <3> QED
        BY <3>1, <3>2
    <2> QED
      BY <2>1, <2>2
  <1>6. width \in 1 .. n + 1
    <2> HIDE DEF Fits
    <2> QED
      BY <1>5
  <1>7. Itoa(n) = Number(width, n)
    BY DEF Itoa, P
  <1> HIDE DEF width
  <1>8. width \in Nat
    BY <1>6
  <1> QED
    BY <1>7, <1>8 DEF Number, Numeral

\* The digits of a tile's number: directories, and the last digits.
IsIndex(t, n) ==
    /\ t \in Seq(Numeral) /\ Len(t) \in Nat \ {0}
    /\ Len(t) = Len(indexDirs[n \div Base]) + 1
    /\ \A j \in 1 .. Len(t) - 1 : t[j] = indexDirs[n \div Base][j] /\ t[j].x = TRUE
    /\ t[Len(t)].x = FALSE /\ t[Len(t)].value = n % Base

LEMMA AppendedIsIndex ==
    ASSUME NEW n \in Nat, NEW d \in Numeral, d.x = FALSE, d.value = n % Base
    PROVE  /\ IsIndex(Append(indexDirs[n \div Base], d), n)
           /\ Append(indexDirs[n \div Base], d)[Len(Append(indexDirs[n \div Base], d))] = d
  <1> DEFINE s == indexDirs[n \div Base]
             t == Append(s, d)
  <1>1. s \in Seq(Numeral) /\ \A j \in 1 .. Len(s) : s[j].x = TRUE
    BY Quotients, IndexDirsAre, DirsAreMarked
  <1>2. /\ t \in Seq(Numeral) /\ Len(t) = Len(s) + 1 /\ Len(s) \in Nat
        /\ t[Len(s) + 1] = d /\ \A j \in 1 .. Len(s) : t[j] = s[j]
    <2> HIDE DEF s
    <2> QED
      BY <1>1
  <1> HIDE DEF t
  <1>3. Len(t) \in Nat \ {0} /\ t[Len(t)] = d /\ Len(t) - 1 = Len(s)
    BY <1>2
  <1>4. IsIndex(t, n)
    BY <1>1, <1>2, <1>3 DEF IsIndex
  <1> QED
    BY <1>3, <1>4 DEF t

LEMMA IndexIs ==
    ASSUME NEW n \in Nat
    PROVE  /\ IsIndex(tlogIndex(n, FALSE), n) /\ IsIndex(tlogIndex(n, TRUE), n)
           /\ tlogIndex(n, FALSE)[Len(tlogIndex(n, FALSE))] = Last(n % Base, FALSE)
           /\ tlogIndex(n, TRUE)[Len(tlogIndex(n, TRUE))] = Last(n % Base, TRUE)
  <1> DEFINE d == Last(n % Base, FALSE)
             e == Last(n % Base, TRUE)
  <1>1. n % Base \in Nat
    BY Quotients
  <1>2. d \in Numeral /\ d.x = FALSE /\ d.value = n % Base
    BY <1>1, NumeralsAre
  <1>3. e \in Numeral /\ e.x = FALSE /\ e.value = n % Base
    BY <1>1, NumeralsAre
  <1>4. tlogIndex(n, FALSE) = Append(indexDirs[n \div Base], d)
    BY DEF tlogIndex, Last
  <1>5. tlogIndex(n, TRUE) = Append(indexDirs[n \div Base], e)
    BY DEF tlogIndex, Last
  <1> HIDE DEF d, e
  <1>6. /\ IsIndex(tlogIndex(n, FALSE), n)
        /\ tlogIndex(n, FALSE)[Len(tlogIndex(n, FALSE))] = d
    BY <1>2, <1>4, AppendedIsIndex
  <1>7. /\ IsIndex(tlogIndex(n, TRUE), n)
        /\ tlogIndex(n, TRUE)[Len(tlogIndex(n, TRUE))] = e
    BY <1>3, <1>5, AppendedIsIndex
  <1> QED
    BY <1>6, <1>7 DEF d, e

\* A number is read off its index.
LEMMA IndicesDiffer ==
    ASSUME NEW n \in Nat, NEW m \in Nat, NEW t, NEW v, IsIndex(t, n), IsIndex(v, m),
           Len(t) = Len(v), \A j \in 1 .. Len(t) - 1 : t[j] = v[j],
           t[Len(t)].value = v[Len(v)].value
    PROVE  n = m
  <1> DEFINE s == indexDirs[n \div Base]
             u == indexDirs[m \div Base]
  <1>1. /\ Len(t) = Len(s) + 1 /\ t[Len(t)].value = n % Base
        /\ \A j \in 1 .. Len(t) - 1 : t[j] = s[j]
    BY DEF IsIndex
  <1>2. /\ Len(v) = Len(u) + 1 /\ v[Len(v)].value = m % Base
        /\ \A j \in 1 .. Len(v) - 1 : v[j] = u[j]
    BY DEF IsIndex
  <1>3. s \in Seq(Numeral) /\ u \in Seq(Numeral)
    BY Quotients, IndexDirsAre
  <1>4. n % Base = m % Base
    BY <1>1, <1>2
  <1> HIDE DEF s, u
  <1>5. Len(s) = Len(u) /\ Len(s) \in Nat /\ Len(u) \in Nat
    <2>1. Len(s) \in Nat /\ Len(u) \in Nat
      BY <1>3
    <2>2. Len(s) + 1 = Len(u) + 1
      BY <1>1, <1>2
    <2> QED
      BY <2>1, <2>2
  <1>6. \A j \in 1 .. Len(s) : s[j] = u[j]
    BY <1>1, <1>2, <1>5
  <1>7. s = u
    BY <1>3, <1>5, <1>6, SeqEqual
  <1>8. n \div Base = m \div Base
    <2>1. indexDirs[n \div Base] = indexDirs[m \div Base]
      BY <1>7 DEF s, u
    <2>2. n \div Base \in Nat /\ m \div Base \in Nat
      BY Quotients
    <2> QED
      BY <2>1, <2>2, DirsDiffer
  <1>9. /\ n = Base * (n \div Base) + (n % Base)
        /\ m = Base * (m \div Base) + (m % Base)
    BY Quotients
  <1> QED
    BY <1>4, <1>8, <1>9, Zenon

-----------------------------------------------------------------------------

\* What a path is made of.
Component ==
    Numeral \cup {Named("tile"), Named("entries"), Named("cert"),
                  Named("checkpoint"), Named("ca_cert.pem")}

\* The directories that tiles are in.
TileDir(dir) == /\ dir \in Seq(Component) /\ Len(dir) = 2 /\ dir[1] = Named("tile")

LEMMA NamesDiffer ==
    /\ Named("tile") \notin Numeral /\ Named("entries") \notin Numeral
    /\ \A x, y \in {"tile", "entries", "cert", "checkpoint", "ca_cert.pem"} :
          Named(x) = Named(y) => x = y
  <1>1. ASSUME NEW n \in Numeral PROVE DOMAIN n = {"x", "width", "value", "p"}
    <2>1. n = [x |-> n.x, width |-> n.width, value |-> n.value, p |-> n.p]
      BY DEF Numeral
    <2>2. \A a, b, c, d : DOMAIN [x |-> a, width |-> b, value |-> c, p |-> d]
                              = {"x", "width", "value", "p"}
      OBVIOUS
    <2> QED
      BY <2>1, <2>2, Zenon
  <1>2. \A x : DOMAIN Named(x) = {"name"} /\ Named(x).name = x
    BY DEF Named
  <1>3. "x" \in {"x", "width", "value", "p"} /\ "x" \notin {"name"}
    OBVIOUS
  <1>4. \A x : Named(x) \notin Numeral
    BY <1>1, <1>2, <1>3
  <1>5. \A x, y : Named(x) = Named(y) => x = y
    BY <1>2
  <1> QED
    BY <1>4, <1>5

LEMMA TileDirsAre ==
    /\ TileDir(entryDir)
    /\ \A l \in Nat : TileDir(levelDir(l)) /\ levelDir(l) # entryDir
    /\ \A k, l \in Nat :
          k % TileHeight = 0 /\ l % TileHeight = 0 /\ levelDir(k) = levelDir(l) => k = l
  <1>0. TileHeight \in Nat \ {0}
    BY TileAssumption
  <1>1. \A l \in Nat : Itoa(l \div TileHeight) \in Numeral
                       /\ Itoa(l \div TileHeight).value = l \div TileHeight
    BY <1>0, DivMod, ItoaIs
  <1>2. TileDir(entryDir)
    <2> DEFINE a == Named("tile")
               b == Named("entries")
    <2>1. a \in Component /\ b \in Component
      BY DEF Component
    <2>2. entryDir = <<a, b>>
      BY DEF entryDir
    <2> HIDE DEF a, b
    <2>3. entryDir \in Seq(Component) /\ Len(entryDir) = 2 /\ entryDir[1] = a
      BY <2>1, <2>2
    <2> QED
      BY <2>3 DEF TileDir, a
  <1>3. ASSUME NEW l \in Nat
        PROVE  TileDir(levelDir(l)) /\ levelDir(l)[2] = Itoa(l \div TileHeight)
    <2> DEFINE a == Named("tile")
               b == Itoa(l \div TileHeight)
    <2>1. a \in Component /\ b \in Component
      BY <1>1 DEF Component
    <2>2. levelDir(l) = <<a, b>>
      BY DEF levelDir
    <2> HIDE DEF a, b
    <2>3. /\ levelDir(l) \in Seq(Component) /\ Len(levelDir(l)) = 2 /\ levelDir(l)[1] = a
          /\ levelDir(l)[2] = b
      BY <2>1, <2>2
    <2> QED
      BY <2>3 DEF TileDir, a, b
  <1>4. entryDir[2] = Named("entries")
    BY DEF entryDir
  <1>5. \A l \in Nat : levelDir(l) # entryDir
    BY <1>1, <1>3, <1>4, NamesDiffer
  <1>6. ASSUME NEW k \in Nat, NEW l \in Nat, k % TileHeight = 0, l % TileHeight = 0,
               levelDir(k) = levelDir(l)
        PROVE  k = l
    <2>1. k \div TileHeight = l \div TileHeight
      <3>1. levelDir(k)[2] = Itoa(k \div TileHeight) /\ levelDir(l)[2] = Itoa(l \div TileHeight)
        BY <1>3
      <3>2. Itoa(k \div TileHeight) = Itoa(l \div TileHeight)
        BY <1>6, <3>1
      <3> QED
        BY <1>1, <3>2
    <2>2. /\ k = TileHeight * (k \div TileHeight) + (k % TileHeight)
          /\ l = TileHeight * (l \div TileHeight) + (l % TileHeight)
      BY <1>0, DivMod
    <2> QED
      BY <1>6, <2>1, <2>2, Zenon
  <1> QED
    BY <1>2, <1>3, <1>5, <1>6

-----------------------------------------------------------------------------

IsConcat(p, a, x) == p = a \o x

\* A path is joined of two parts.
IsJoined(p, a, x) ==
    /\ Len(a) \in Nat /\ Len(x) \in Nat /\ p \in Seq(Component) /\ Len(p) = Len(a) + Len(x)
    /\ \A i \in 1 .. Len(a) : p[i] = a[i]
    /\ \A i \in 1 .. Len(x) : p[Len(a) + i] = x[i]

LEMMA ConcatIs ==
    \A p : \A a, x \in Seq(Component) : IsConcat(p, a, x) => IsJoined(p, a, x)
  BY DEF IsConcat, IsJoined

\* The path of a tile that is full, and of one that holds size of its elements.
WholePath(dir, n) == dir \o tlogIndex(n, FALSE)
PartPath(dir, n, size) == dir \o tlogIndex(n, TRUE) \o <<Itoa(size)>>

\* The digits t of tile n in the path p.
IsTilePath(p, dir, n, t) ==
    /\ p \in Seq(Component) /\ IsIndex(t, n)
    /\ p[1] = dir[1] /\ p[2] = dir[2]
    /\ \A j \in 1 .. Len(t) : p[2 + j] = t[j]
    /\ IF t[Len(t)].p THEN Len(p) = Len(t) + 3 ELSE Len(p) = Len(t) + 2

LEMMA WholePathIs ==
    ASSUME NEW dir, TileDir(dir), NEW n \in Nat
    PROVE  /\ IsTilePath(WholePath(dir, n), dir, n, tlogIndex(n, FALSE))
           /\ ~tlogIndex(n, FALSE)[Len(tlogIndex(n, FALSE))].p
  <1> DEFINE t == tlogIndex(n, FALSE)
             p == WholePath(dir, n)
  <1>1. IsIndex(t, n) /\ t[Len(t)] = Last(n % Base, FALSE)
    BY IndexIs
  <1>2. ~t[Len(t)].p
    BY <1>1, Quotients, NumeralsAre
  <1>3. t \in Seq(Component)
    <2>1. t \in Seq(Numeral) /\ Numeral \subseteq Component
      BY <1>1 DEF IsIndex, Component
    <2> HIDE DEF t
    <2> QED
      BY <2>1
  <1>4. IsConcat(p, dir, t)
    BY DEF WholePath, IsConcat
  <1>5. dir \in Seq(Component) /\ Len(dir) = 2
    BY DEF TileDir
  <1> HIDE DEF t, p
  <1>6. IsJoined(p, dir, t)
    BY <1>3, <1>4, <1>5, ConcatIs
  <1>7. p \in Seq(Component) /\ Len(p) = Len(t) + 2 /\ p[1] = dir[1] /\ p[2] = dir[2]
    BY <1>5, <1>6 DEF IsJoined
  <1>8. \A j \in 1 .. Len(t) : p[2 + j] = t[j]
    BY <1>5, <1>6 DEF IsJoined
  <1>9. IsTilePath(p, dir, n, t)
    BY <1>1, <1>2, <1>7, <1>8 DEF IsTilePath
  <1> QED
    BY <1>2, <1>9 DEF p, t

LEMMA PartPathIs ==
    ASSUME NEW dir, TileDir(dir), NEW n \in Nat, NEW size \in Nat
    PROVE  /\ IsTilePath(PartPath(dir, n, size), dir, n, tlogIndex(n, TRUE))
           /\ tlogIndex(n, TRUE)[Len(tlogIndex(n, TRUE))].p
           /\ PartPath(dir, n, size)[Len(PartPath(dir, n, size))] = Itoa(size)
  <1> DEFINE t == tlogIndex(n, TRUE)
             u == dir \o t
             z == Itoa(size)
             last == <<z>>
             p == PartPath(dir, n, size)
  <1>1. IsIndex(t, n) /\ t[Len(t)] = Last(n % Base, TRUE)
    BY IndexIs
  <1>2. t[Len(t)].p
    BY <1>1, Quotients, NumeralsAre
  <1>3. t \in Seq(Component)
    <2>1. t \in Seq(Numeral) /\ Numeral \subseteq Component
      BY <1>1 DEF IsIndex, Component
    <2> HIDE DEF t
    <2> QED
      BY <2>1
  <1>4. IsConcat(p, u, last) /\ IsConcat(u, dir, t)
    BY DEF PartPath, IsConcat
  <1>5. dir \in Seq(Component) /\ Len(dir) = 2
    BY DEF TileDir
  <1>6. z \in Component
    BY ItoaIs DEF Component
  <1> HIDE DEF z
  <1>7. last \in Seq(Component) /\ Len(last) = 1 /\ last[1] = z
    BY <1>6
  <1> HIDE DEF t, u, p, last
  <1>8. /\ u \in Seq(Component) /\ Len(u) = Len(dir) + Len(t) /\ Len(t) \in Nat
        /\ \A j \in 1 .. Len(dir) : u[j] = dir[j]
        /\ \A j \in 1 .. Len(t) : u[Len(dir) + j] = t[j]
    <2>1. IsJoined(u, dir, t)
      BY <1>3, <1>4, <1>5, ConcatIs
    <2> QED
      BY <2>1 DEF IsJoined
  <1>9. /\ p \in Seq(Component) /\ Len(p) = Len(u) + Len(last)
        /\ \A j \in 1 .. Len(u) : p[j] = u[j]
        /\ \A j \in 1 .. Len(last) : p[Len(u) + j] = last[j]
    <2>1. IsJoined(p, u, last)
      BY <1>4, <1>7, <1>8, ConcatIs
    <2> QED
      BY <2>1 DEF IsJoined
  <1>10. Len(p) = Len(t) + 3 /\ p[1] = dir[1] /\ p[2] = dir[2] /\ p[Len(p)] = z
    BY <1>5, <1>7, <1>8, <1>9
  <1>11. ASSUME NEW j \in 1 .. Len(t) PROVE p[2 + j] = t[j]
    <2>1. 2 + j \in 1 .. Len(u) /\ u[2 + j] = t[j]
      BY <1>5, <1>8
    <2> QED
      BY <1>9, <2>1
  <1>12. IsTilePath(p, dir, n, t)
    BY <1>1, <1>2, <1>9, <1>10, <1>11 DEF IsTilePath
  <1> QED
    BY <1>2, <1>10, <1>12 DEF p, t, z

\* One path leads on to another.
LeadsTo(p, q) == Len(p) <= Len(q) /\ \A j \in 1 .. Len(p) : p[j] = q[j]

AgreeOnTile(p, d, n, t, q, e, k, v) ==
    /\ n = k /\ d[1] = e[1] /\ d[2] = e[2]
    /\ Len(p) = Len(q) /\ t[Len(t)] = v[Len(v)]

\* No tile's path leads to another tile: where one is the beginning of the
\* other they have the same tile, and the same length.
LEMMA TilePathsDoNotNest ==
    ASSUME NEW p, NEW d, NEW n \in Nat, NEW t, NEW q, NEW e, NEW k \in Nat, NEW v,
           IsTilePath(p, d, n, t), IsTilePath(q, e, k, v),
           LeadsTo(p, q)
    PROVE  AgreeOnTile(p, d, n, t, q, e, k, v)
  <1> DEFINE a == Len(t)
             b == Len(v)
             x == Len(p)
             y == Len(q)
  <1>1. /\ a \in Nat \ {0} /\ t[a].x = FALSE
        /\ \A j \in 1 .. a - 1 : t[j].x = TRUE
        /\ \A j \in 1 .. a : p[2 + j] = t[j]
        /\ (t[a].p => x = a + 3) /\ (~t[a].p => x = a + 2)
    BY DEF IsTilePath, IsIndex
  <1>2. /\ b \in Nat \ {0} /\ v[b].x = FALSE
        /\ \A j \in 1 .. b - 1 : v[j].x = TRUE
        /\ \A j \in 1 .. b : q[2 + j] = v[j]
        /\ (v[b].p => y = b + 3) /\ (~v[b].p => y = b + 2)
    BY DEF IsTilePath, IsIndex
  <1>3. x <= y /\ \A j \in 1 .. x : p[j] = q[j]
    BY DEF LeadsTo
  <1> HIDE DEF a, b, x, y
  <1>4. a = b
    <2>1. CASE a < b
      <3>1. a \in 1 .. b /\ a \in 1 .. b - 1 /\ 2 + a \in 1 .. x /\ a \in 1 .. a
        BY <1>1, <1>2, <2>1
      <3>2. t[a] = v[a]
        BY <1>1, <1>2, <1>3, <3>1
      <3> QED
        BY <1>1, <1>2, <3>1, <3>2
    <2>2. CASE b < a
      <3>1. b \in 1 .. a /\ b \in 1 .. a - 1 /\ 2 + b \in 1 .. x /\ b \in 1 .. b
        BY <1>1, <1>2, <2>2
      <3>2. t[b] = v[b]
        BY <1>1, <1>2, <1>3, <3>1
      <3> QED
        BY <1>1, <1>2, <3>1, <3>2
    <2> QED
      BY <1>1, <1>2, <2>1, <2>2
  <1>5. ASSUME NEW j \in 1 .. a PROVE t[j] = v[j]
    <2>1. 2 + j \in 1 .. x /\ j \in 1 .. b
      BY <1>1, <1>4
    <2> QED
      BY <1>1, <1>2, <1>3, <2>1
  <1>6. a \in 1 .. a
    BY <1>1
  <1>7. t[a] = v[b]
    BY <1>4, <1>5, <1>6
  <1>8. x = y
    BY <1>1, <1>2, <1>4, <1>7
  <1>9. n = k
    <2>1. IsIndex(t, n) /\ IsIndex(v, k)
      BY DEF IsTilePath
    <2>2. \A j \in 1 .. a - 1 : t[j] = v[j]
      BY <1>1, <1>5
    <2>3. t[a].value = v[b].value /\ a = b
      BY <1>4, <1>7
    <2> QED
      BY <2>1, <2>2, <2>3, IndicesDiffer DEF a, b
  <1>10. d[1] = e[1] /\ d[2] = e[2]
    <2>1. 1 \in 1 .. x /\ 2 \in 1 .. x
      BY <1>1
    <2>2. p[1] = q[1] /\ p[2] = q[2]
      BY <1>3, <2>1
    <2>3. p[1] = d[1] /\ p[2] = d[2] /\ q[1] = e[1] /\ q[2] = e[2]
      BY DEF IsTilePath
    <2> QED
      BY <2>2, <2>3
  <1> QED
    BY <1>7, <1>8, <1>9, <1>10 DEF a, b, x, y, AgreeOnTile

-----------------------------------------------------------------------------

\* A reader adds what marks a partial tile to an index of a full one.
LEMMA MarkedIndexIs ==
    ASSUME NEW n \in Nat
    PROVE  [tlogIndex(n, FALSE) EXCEPT ![Len(tlogIndex(n, FALSE))].p = TRUE]
              = tlogIndex(n, TRUE)
  <1> DEFINE t == tlogIndex(n, FALSE)
             u == tlogIndex(n, TRUE)
             m == Len(t)
             d == [t[m] EXCEPT !.p = TRUE]
             v == [t EXCEPT ![m] = d]
  <1>1. /\ IsIndex(t, n) /\ t[m] = Last(n % Base, FALSE)
        /\ IsIndex(u, n) /\ u[Len(u)] = Last(n % Base, TRUE)
    BY IndexIs
  <1>2. /\ t \in Seq(Numeral) /\ u \in Seq(Numeral) /\ m \in Nat \ {0} /\ Len(u) = m
        /\ \A j \in 1 .. m - 1 : t[j] = u[j]
    BY <1>1 DEF IsIndex
  <1>3. d = u[m]
    <2> DEFINE x == Last(n % Base, FALSE)
               y == Last(n % Base, TRUE)
               z == [x EXCEPT !.p = TRUE]
    <2>1. Digits \in Nat /\ n % Base \in Nat
      BY BaseType, Quotients
    <2>2. /\ x \in Numeral /\ x.x = FALSE /\ x.value = n % Base /\ x.width = Digits
          /\ y \in Numeral /\ y.x = FALSE /\ y.value = n % Base /\ y.width = Digits /\ y.p = TRUE
      BY <2>1 DEF Last, Padded, Number, Numeral
    <2>3. d = z /\ u[m] = y
      BY <1>1, <1>2
    <2> HIDE DEF x, y
    <2>4. /\ z \in Numeral /\ z.x = x.x /\ z.value = x.value /\ z.width = x.width
          /\ z.p = TRUE
      BY <2>2 DEF Numeral
    <2> HIDE DEF z
    <2>5. z = y
      BY <2>2, <2>4, NumeralsEqual
    <2> QED
      BY <2>3, <2>5
  <1> HIDE DEF t, u, d
  <1>4. u[m] \in Numeral
    BY <1>2
  <1>5. v \in Seq(Numeral) /\ Len(v) = m /\ v[m] = d /\ \A j \in 1 .. m - 1 : v[j] = t[j]
    <2>1. d \in Numeral /\ m \in 1 .. Len(t)
      BY <1>2, <1>3, <1>4
    <2>2. v \in Seq(Numeral) /\ Len(v) = Len(t)
      BY <1>2, <2>1, ExceptSeq
    <2>3. v[m] = d /\ \A j \in 1 .. m - 1 : v[j] = t[j]
      BY <1>2, <2>1
    <2> QED
      BY <2>2, <2>3
  <1> HIDE DEF v
  <1>6. \A j \in 1 .. m : v[j] = u[j]
    BY <1>2, <1>3, <1>5
  <1>7. v = u
    BY <1>2, <1>5, <1>6, SeqEqual
  <1> QED
    BY <1>7 DEF v, t, m, d, u

LEMMA FetchPathIs ==
    ASSUME NEW dir, NEW n \in Nat, NEW size
    PROVE  FetchPath(dir, n, size)
              = IF size = TileWidth THEN WholePath(dir, n) ELSE PartPath(dir, n, size)
  <1>1. encodeIndex(n) = tlogIndex(n, FALSE)
    BY IndicesAgree
  <1>2. [encodeIndex(n) EXCEPT ![Len(encodeIndex(n))].p = TRUE] = tlogIndex(n, TRUE)
    BY <1>1, MarkedIndexIs
  <1> QED
    BY <1>1, <1>2, Zenon DEF FetchPath, WholePath, PartPath

LEMMA TileWidthType == TileWidth \in Nat \ {0}
  BY TileAssumption, Pow2Type DEF TileWidth

\* How much of a list is in a tile of it.
LEMMA SizeOfTileIs ==
    ASSUME NEW length \in Nat, NEW i \in TilesOf(length)
    PROVE  /\ i \in Nat /\ TileWidth * i \in Nat
           /\ SizeOfTile(i, length) \in 1 .. TileWidth
           /\ TileWidth * i + SizeOfTile(i, length) <= length
           /\ IF TileWidth * (i + 1) <= length
              THEN SizeOfTile(i, length) = TileWidth
              ELSE /\ SizeOfTile(i, length) = length - TileWidth * i
                   /\ SizeOfTile(i, length) # TileWidth
  <1> DEFINE P == TileWidth
             a == P * i
             r == length - a
  <1>1. P \in Nat \ {0}
    BY TileWidthType
  <1>2. i \in Nat /\ P * i < length
    BY DEF TilesOf
  <1> HIDE DEF P
  <1>3. a \in Nat /\ a < length /\ P * (i + 1) = a + P
    BY <1>1, <1>2
  <1> HIDE DEF a
  <1>4. r \in Nat \ {0} /\ length = a + r
    BY <1>3
  <1> HIDE DEF r
  <1>5. ASSUME ~(P * (i + 1) <= length) PROVE length % P = r /\ r < P
    <2>1. r < P
      BY <1>1, <1>3, <1>4, <1>5
    <2>2. (P * i + r) % P = r
      BY <1>1, <1>2, <1>4, <2>1, DivModUnique
    <2> QED
      BY <1>4, <2>1, <2>2 DEF a
  <1>6. SizeOfTile(i, length) = IF P * (i + 1) <= length THEN P ELSE length % P
    <2>1. P * (i + 1) \in Nat
      BY <1>1, <1>3
    <2>2. length >= P * (i + 1) <=> P * (i + 1) <= length
      BY <2>1
    <2> QED
      BY <2>2 DEF SizeOfTile, P
  <1>7. CASE P * (i + 1) <= length
    <2>1. SizeOfTile(i, length) = P /\ a + P <= length
      BY <1>3, <1>6, <1>7
    <2> QED
      BY <1>1, <1>2, <1>3, <1>7, <2>1 DEF P, a
  <1>8. CASE ~(P * (i + 1) <= length)
    <2>1. SizeOfTile(i, length) = r /\ r < P
      BY <1>5, <1>6, <1>8
    <2>2. r \in 1 .. P /\ a + r <= length /\ r # P /\ r = length - a
      BY <1>1, <1>3, <1>4, <2>1
    <2> QED
      BY <1>2, <1>3, <1>8, <2>1, <2>2 DEF P, a
  <1> QED
    BY <1>7, <1>8

\* The path of a tile of a list of that length, and what is in the tile.
PathOfTile(dir, length, i) == FetchPath(dir, i, SizeOfTile(i, length))
Data(list, i) == [k \in 1 .. SizeOfTile(i, Len(list)) |-> list[TileWidth * i + k]]

\* A reader asks for the path that was written (generate.go:296-301, 318-323,
\* estimate_tile_size.go:261-267).
LEMMA PathsAgree ==
    ASSUME NEW dir, NEW length \in Nat, NEW i \in TilesOf(length)
    PROVE  TilePath(dir, i, length) = PathOfTile(dir, length, i)
  <1>1. i \in Nat
    BY SizeOfTileIs
  <1>2. CASE TileWidth * (i + 1) <= length
    <2>1. SizeOfTile(i, length) = TileWidth
      BY <1>2, SizeOfTileIs
    <2>2. PathOfTile(dir, length, i) = WholePath(dir, i)
      BY <1>1, <2>1, FetchPathIs DEF PathOfTile
    <2> QED
      BY <1>2, <2>2 DEF TilePath, WholePath
  <1>3. CASE ~(TileWidth * (i + 1) <= length)
    <2> DEFINE size == length - TileWidth * i
    <2>1. SizeOfTile(i, length) = size /\ size # TileWidth
      BY <1>3, SizeOfTileIs
    <2> HIDE DEF size
    <2>2. PathOfTile(dir, length, i) = PartPath(dir, i, size)
      BY <1>1, <2>1, FetchPathIs DEF PathOfTile
    <2> QED
      BY <1>3, <2>2 DEF TilePath, PartPath, size
  <1> QED
    BY <1>2, <1>3

\* It finds the tile's part of the list there.
LEMMA TileOfIs ==
    ASSUME NEW S, NEW list \in Seq(S), NEW i \in TilesOf(Len(list))
    PROVE  TileOf(list, i) = Data(list, i)
  <1> DEFINE n == Len(list)
             a == TileWidth * i
             z == SizeOfTile(i, n)
             hi == IF TileWidth * (i + 1) <= n THEN TileWidth * (i + 1) ELSE n
             s == SubSeq(list, a + 1, hi)
             t == [k \in 1 .. z |-> list[a + k]]
  <1>1. n \in Nat /\ DOMAIN list = 1 .. n /\ \A k \in 1 .. n : list[k] \in S
    OBVIOUS
  <1>2. /\ i \in Nat /\ a \in Nat /\ z \in 1 .. TileWidth /\ a + z <= n
        /\ TileWidth * (i + 1) <= n => z = TileWidth
        /\ ~(TileWidth * (i + 1) <= n) => z = n - a
    BY <1>1, SizeOfTileIs
  <1>3. hi = a + z
    <2>1. TileWidth * (i + 1) = a + TileWidth
      BY <1>2, TileWidthType
    <2> HIDE DEF a, z, n
    <2> QED
      BY <1>1, <1>2, <2>1
  <1>4. z \in Nat
    BY <1>2, TileWidthType
  <1> HIDE DEF n, a, z, hi
  <1>5. \A k \in a + 1 .. hi : list[k] \in S
    BY <1>1, <1>2, <1>3, <1>4
  <1>6. /\ s \in Seq(S) /\ Len(s) = IF a + 1 <= hi THEN hi - (a + 1) + 1 ELSE 0
        /\ \A k \in 1 .. hi - (a + 1) + 1 : s[k] = list[(a + 1) + k - 1]
    <2>1. a + 1 \in Int /\ hi \in Int
      BY <1>2, <1>3, <1>4
    <2> QED
      BY <1>5, <2>1, SubSeqProperties
  <1>7. hi - (a + 1) + 1 = z /\ a + 1 <= hi
    BY <1>2, <1>3, <1>4, TileWidthType
  <1>8. \A k \in 1 .. z : (a + 1) + k - 1 = a + k
    BY <1>2, <1>4
  <1> HIDE DEF s
  <1>9. s \in Seq(S) /\ Len(s) = z /\ \A k \in 1 .. z : s[k] = list[a + k]
    BY <1>6, <1>7, <1>8
  <1>10. s = [k \in 1 .. z |-> s[k]]
    BY <1>9
  <1>11. s = t
    BY <1>9, <1>10
  <1>12. TileOf(list, i) = s
    BY DEF TileOf, s, hi, a, n
  <1> QED
    BY <1>11, <1>12 DEF Data, z, a, n

-----------------------------------------------------------------------------

IsTileFile(p) ==
    \E dir, t : \E n \in Nat : TileDir(dir) /\ IsTilePath(p, dir, n, t)

\* Every path that a run writes to.
IsPath(p) ==
    \/ p = <<Named("ca_cert.pem")>> \/ p = checkpointPath
    \/ \E i \in Nat : p = <<Named("cert"), Itoa(i)>>
    \/ IsTileFile(p)

LEMMA PathOfTileIs ==
    ASSUME NEW dir, TileDir(dir), NEW length \in Nat, NEW i \in TilesOf(length)
    PROVE  /\ \E t : /\ IsTilePath(PathOfTile(dir, length, i), dir, i, t)
                     /\ IF t[Len(t)].p
                        THEN /\ SizeOfTile(i, length) # TileWidth
                             /\ PathOfTile(dir, length, i)[Len(PathOfTile(dir, length, i))]
                                   = Itoa(SizeOfTile(i, length))
                        ELSE SizeOfTile(i, length) = TileWidth
           /\ IsTileFile(PathOfTile(dir, length, i))
  <1> DEFINE size == SizeOfTile(i, length)
             p == PathOfTile(dir, length, i)
             Fits(t) == /\ IsTilePath(p, dir, i, t)
                        /\ IF t[Len(t)].p
                           THEN size # TileWidth /\ p[Len(p)] = Itoa(size)
                           ELSE size = TileWidth
  <1>1. i \in Nat /\ size \in Nat
    BY SizeOfTileIs, TileWidthType
  <1>2. p = IF size = TileWidth THEN WholePath(dir, i) ELSE PartPath(dir, i, size)
    BY <1>1, FetchPathIs DEF PathOfTile
  <1> HIDE DEF size
  <1>3. ASSUME size = TileWidth PROVE \E t : Fits(t)
    <2> DEFINE t == tlogIndex(i, FALSE)
    <2>1. p = WholePath(dir, i)
      BY <1>2, <1>3
    <2> HIDE DEF p
    <2>2. IsTilePath(p, dir, i, t) /\ ~t[Len(t)].p
      BY <1>1, <2>1, WholePathIs
    <2> HIDE DEF t
    <2>3. Fits(t)
      BY <1>3, <2>2
    <2> HIDE DEF Fits
    <2> QED
      BY <2>3
  <1>4. ASSUME size # TileWidth PROVE \E t : Fits(t)
    <2> DEFINE t == tlogIndex(i, TRUE)
    <2>1. p = PartPath(dir, i, size)
      BY <1>2, <1>4
    <2> HIDE DEF p
    <2>2. IsTilePath(p, dir, i, t) /\ t[Len(t)].p /\ p[Len(p)] = Itoa(size)
      BY <1>1, <2>1, PartPathIs
    <2> HIDE DEF t
    <2>3. Fits(t)
      BY <1>4, <2>2
    <2> HIDE DEF Fits
    <2> QED
      BY <2>3
  <1>5. \E t : Fits(t)
    <2> HIDE DEF Fits
    <2> QED
      BY <1>3, <1>4
  <1>6. PICK t : Fits(t)
    BY <1>5
  <1>7. IsTileFile(p)
    BY <1>1, <1>6 DEF IsTileFile
  <1> QED
    BY <1>5, <1>7 DEF size

\* Tiles whose paths are equal are in one directory, have one number and hold
\* as much.
LEMMA PathsDiffer ==
    ASSUME NEW d, NEW e, TileDir(d), TileDir(e), NEW a \in Nat, NEW b \in Nat,
           NEW i \in TilesOf(a), NEW k \in TilesOf(b),
           PathOfTile(d, a, i) = PathOfTile(e, b, k)
    PROVE  d = e /\ i = k /\ SizeOfTile(i, a) = SizeOfTile(k, b)
  <1> DEFINE p == PathOfTile(d, a, i)
             x == SizeOfTile(i, a)
             y == SizeOfTile(k, b)
  <1>1. PICK t : /\ IsTilePath(p, d, i, t)
                 /\ IF t[Len(t)].p THEN x # TileWidth /\ p[Len(p)] = Itoa(x)
                                   ELSE x = TileWidth
    BY PathOfTileIs
  <1>2. PathOfTile(e, b, k) = p
    OBVIOUS
  <1>3. PICK v : /\ IsTilePath(p, e, k, v)
                 /\ IF v[Len(v)].p THEN y # TileWidth /\ p[Len(p)] = Itoa(y)
                                   ELSE y = TileWidth
    <2> DEFINE q == PathOfTile(e, b, k)
    <2>1. \E v : /\ IsTilePath(q, e, k, v)
                 /\ IF v[Len(v)].p THEN y # TileWidth /\ q[Len(q)] = Itoa(y)
                                   ELSE y = TileWidth
      BY PathOfTileIs
    <2>2. q = p
      BY <1>2
    <2> HIDE DEF p, q, y
    <2> QED
      BY <2>1, <2>2, Zenon
  <1>4. i \in Nat /\ k \in Nat /\ x \in Nat /\ y \in Nat
    BY SizeOfTileIs, TileWidthType
  <1> HIDE DEF p, x, y
  <1>5. LeadsTo(p, p)
    <2>1. p \in Seq(Component)
      BY <1>1 DEF IsTilePath
    <2> QED
      BY <2>1 DEF LeadsTo
  <1>6. i = k /\ d[1] = e[1] /\ d[2] = e[2] /\ t[Len(t)] = v[Len(v)]
    <2>1. IsTilePath(p, d, i, t) /\ IsTilePath(p, e, k, v)
      BY <1>1, <1>3
    <2>2. AgreeOnTile(p, d, i, t, p, e, k, v)
      BY <2>1, <1>4, <1>5, TilePathsDoNotNest
    <2> QED
      BY <2>2 DEF AgreeOnTile
  <1>7. d = e
    <2>1. d \in Seq(Component) /\ e \in Seq(Component) /\ Len(d) = 2 /\ Len(e) = 2
      BY DEF TileDir
    <2>2. \A j \in 1 .. 2 : d[j] = e[j]
      BY <1>6
    <2> QED
      BY <2>1, <2>2, SeqEqual
  <1>8. x = y
    <2>1. CASE t[Len(t)].p
      <3>1. Itoa(x) = Itoa(y)
        BY <1>1, <1>3, <1>6, <2>1
      <3> QED
        BY <1>4, <3>1, ItoaIs
    <2>2. CASE ~t[Len(t)].p
      BY <1>1, <1>3, <1>6, <2>2
    <2> QED
      BY <2>1, <2>2
  <1> QED
    BY <1>6, <1>7, <1>8 DEF x, y

LEMMA PathForms ==
    ASSUME NEW p, IsPath(p)
    PROVE  \/ /\ Len(p) = 1 /\ p \in Seq(Component)
              /\ p[1] = Named("ca_cert.pem") \/ p[1] = Named("checkpoint")
           \/ Len(p) = 2 /\ p \in Seq(Component) /\ p[1] = Named("cert")
           \/ /\ p \in Seq(Component) /\ Len(p) \in Nat /\ Len(p) >= 3 /\ p[1] = Named("tile")
              /\ IsTileFile(p)
  <1>1. /\ Named("ca_cert.pem") \in Component /\ Named("checkpoint") \in Component
        /\ Named("cert") \in Component
    BY DEF Component
  <1>2. \A c \in Component : <<c>> \in Seq(Component) /\ Len(<<c>>) = 1 /\ <<c>>[1] = c
    OBVIOUS
  <1>3. CASE p = <<Named("ca_cert.pem")>>
    BY <1>1, <1>2, <1>3
  <1>4. CASE p = checkpointPath
    BY <1>1, <1>2, <1>4 DEF checkpointPath
  <1>5. ASSUME NEW i \in Nat, p = <<Named("cert"), Itoa(i)>>
        PROVE  Len(p) = 2 /\ p \in Seq(Component) /\ p[1] = Named("cert")
    <2>1. Itoa(i) \in Component
      BY ItoaIs DEF Component
    <2>2. \A c, d \in Component :
             <<c, d>> \in Seq(Component) /\ Len(<<c, d>>) = 2 /\ <<c, d>>[1] = c
      OBVIOUS
    <2> QED
      BY <1>1, <1>5, <2>1, <2>2
  <1>6. CASE IsTileFile(p)
    <2>1. PICK dir, t : \E n \in Nat : TileDir(dir) /\ IsTilePath(p, dir, n, t)
      BY <1>6 DEF IsTileFile
    <2>2. PICK n \in Nat : TileDir(dir) /\ IsTilePath(p, dir, n, t)
      BY <2>1
    <2>3. p \in Seq(Component) /\ p[1] = Named("tile")
      BY <2>2 DEF IsTilePath, TileDir
    <2>4. Len(t) \in Nat \ {0} /\ (Len(p) = Len(t) + 3 \/ Len(p) = Len(t) + 2)
      BY <2>2 DEF IsTilePath, IsIndex
    <2>5. Len(p) \in Nat /\ Len(p) >= 3
      BY <2>4
    <2> QED
      BY <1>6, <2>3, <2>5
  <1> QED
    BY <1>3, <1>4, <1>5, <1>6 DEF IsPath

\* No file is where another one needs a directory.
LEMMA PathsDoNotNest ==
    ASSUME NEW p, NEW q, IsPath(p), IsPath(q), Len(p) < Len(q)
    PROVE  SubSeq(q, 1, Len(p)) # p
  <1> SUFFICES ASSUME SubSeq(q, 1, Len(p)) = p PROVE FALSE
    OBVIOUS
  <1>1. p \in Seq(Component) /\ q \in Seq(Component)
    BY PathForms
  <1>2. Len(p) \in Nat /\ Len(q) \in Nat /\ Len(p) < Len(q)
    BY <1>1
  <1>3. ASSUME NEW j \in 1 .. Len(p) PROVE p[j] = q[j]
    <2>1. \A k \in 1 .. Len(p) : q[k] \in Component
      BY <1>1, <1>2
    <2>2. \A k \in 1 .. Len(p) - 1 + 1 : SubSeq(q, 1, Len(p))[k] = q[1 + k - 1]
      BY <1>2, <2>1, SubSeqProperties
    <2>3. Len(p) - 1 + 1 = Len(p) /\ 1 + j - 1 = j
      BY <1>2
    <2> QED
      BY <2>2, <2>3
  <1>4. Len(p) >= 1 /\ p[1] = q[1]
    <2>1. Len(p) >= 1
      BY PathForms
    <2> QED
      BY <1>2, <1>3, <2>1
  <1>5. /\ Named("ca_cert.pem") # Named("cert") /\ Named("ca_cert.pem") # Named("tile")
        /\ Named("checkpoint") # Named("cert") /\ Named("checkpoint") # Named("tile")
        /\ Named("cert") # Named("tile")
    BY NamesDiffer
  <1>6. IsTileFile(p) /\ IsTileFile(q)
    BY <1>2, <1>4, <1>5, PathForms
  <1>7. PICK d, t : \E n \in Nat : TileDir(d) /\ IsTilePath(p, d, n, t)
    BY <1>6 DEF IsTileFile
  <1>8. PICK n \in Nat : IsTilePath(p, d, n, t)
    BY <1>7
  <1>9. PICK e, v : \E k \in Nat : TileDir(e) /\ IsTilePath(q, e, k, v)
    BY <1>6 DEF IsTileFile
  <1>10. PICK k \in Nat : IsTilePath(q, e, k, v)
    BY <1>9
  <1>11. LeadsTo(p, q)
    BY <1>2, <1>3 DEF LeadsTo
  <1>12. AgreeOnTile(p, d, n, t, q, e, k, v)
    BY <1>8, <1>10, <1>11, TilePathsDoNotNest
  <1> QED
    BY <1>2, <1>12 DEF AgreeOnTile

\* The paths of tiles are none of the others.
LEMMA OtherPathsDiffer ==
    ASSUME NEW dir, TileDir(dir), NEW length \in Nat, NEW i \in TilesOf(length)
    PROVE  /\ PathOfTile(dir, length, i) # <<Named("ca_cert.pem")>>
           /\ PathOfTile(dir, length, i) # checkpointPath
           /\ \A n \in Nat : PathOfTile(dir, length, i) # <<Named("cert"), Itoa(n)>>
  <1> DEFINE p == PathOfTile(dir, length, i)
  <1>1. PICK t : IsTilePath(p, dir, i, t)
    BY PathOfTileIs
  <1>2. p[1] = Named("tile")
    BY <1>1 DEF IsTilePath, TileDir
  <1> HIDE DEF p
  <1>3. \A c, d : <<c>>[1] = c /\ <<c, d>>[1] = c
    OBVIOUS
  <1>4. \A x \in {"cert", "checkpoint", "ca_cert.pem"} : Named(x) # Named("tile")
    BY NamesDiffer
  <1>5. p # <<Named("ca_cert.pem")>> /\ p # checkpointPath
    BY <1>2, <1>3, <1>4 DEF checkpointPath
  <1>6. \A n \in Nat : p # <<Named("cert"), Itoa(n)>>
    BY <1>2, <1>3, <1>4
  <1> QED
    BY <1>5, <1>6 DEF p

-----------------------------------------------------------------------------

\* A level of the tree of a log, as a list.
Nodes(log, l) == LevelOf(NewStaticMerkleTree(log), l)

LEMMA NodesAre ==
    ASSUME NEW log \in Seq(Nat), NEW l \in 0 .. W
    PROVE  /\ Len(log) \div Pow2[l] \in Nat
           /\ Nodes(log, l) = [j \in 1 .. Len(log) \div Pow2[l] |-> FullHash(log, l, j - 1)]
           /\ \E S : Nodes(log, l) \in Seq(S)
           /\ Len(Nodes(log, l)) = Len(log) \div Pow2[l]
  <1> DEFINE n == Len(log) \div Pow2[l]
             t == NewStaticMerkleTree(log)
             s == [j \in 1 .. n |-> FullHash(log, l, j - 1)]
             S == {FullHash(log, l, j - 1) : j \in 1 .. n}
  <1>1. l \in Nat /\ Len(log) \in Nat
    BY WordFacts
  <1>2. n \in Nat
    BY <1>1, Pow2Type, DivMod
  <1>3. t[l] = FullLevel(log, l)
    BY <1>1, LevelsAre
  <1>4. FullLevel(log, l) = [j \in 0 .. n - 1 |-> FullHash(log, l, j)]
    BY DEF FullLevel
  <1> HIDE DEF n, t
  <1>5. DOMAIN t[l] = 0 .. n - 1 /\ \A j \in 0 .. n - 1 : t[l][j] = FullHash(log, l, j)
    BY <1>3, <1>4
  <1>6. Cardinality(0 .. n - 1) = n
    BY <1>2, FS_Interval
  <1>7. \A j \in 1 .. n : t[l][j - 1] = FullHash(log, l, j - 1)
    BY <1>2, <1>5
  <1>8. LevelOf(t, l) = [j \in 1 .. n |-> t[l][j - 1]]
    <2>1. Cardinality(DOMAIN t[l]) = n
      BY <1>5, <1>6
    <2> QED
      BY <2>1, Zenon DEF LevelOf
  <1>9. LevelOf(t, l) = s
    BY <1>7, <1>8
  <1>10. s \in Seq(S) /\ Len(s) = n
    <2>1. s \in [1 .. n -> S]
      OBVIOUS
    <2> HIDE DEF s, S
    <2> QED
      BY <1>2, <2>1
  <1>11. Nodes(log, l) = s
    BY <1>9 DEF Nodes, t
  <1> HIDE DEF s, S
  <1> QED
    BY <1>2, <1>10, <1>11 DEF n, s

\* A list is the beginning of another one.
IsBeginning(longer, shorter) ==
    /\ Len(shorter) <= Len(longer)
    /\ \A j \in 1 .. Len(shorter) : longer[j] = shorter[j]

\* The complete nodes of a log stay those of a log that extends it.
LEMMA FullHashStays ==
    ASSUME NEW long \in Seq(Nat), NEW short \in Seq(Nat), IsBeginning(long, short)
    PROVE  \A i \in Nat : \A j \in Nat : Pow2[i] * (j + 1) <= Len(short) =>
              FullHash(long, i, j) = FullHash(short, i, j)
  <1> DEFINE n == Len(short)
             S == {i \in Nat : \A j \in Nat : Pow2[i] * (j + 1) <= n =>
                       FullHash(long, i, j) = FullHash(short, i, j)}
  <1>0. n \in Nat /\ \A j \in 1 .. n : long[j] = short[j]
    BY DEF IsBeginning
  <1> HIDE DEF n
  <1>1. 0 \in S
    <2>1. ASSUME NEW j \in Nat, Pow2[0] * (j + 1) <= n
          PROVE  FullHash(long, 0, j) = FullHash(short, 0, j)
      <3>1. Pow2[0] * j = j /\ Pow2[0] * (j + 1) = j + 1
        BY Pow2Equations
      <3>2. j + 1 \in 1 .. n
        BY <1>0, <2>1, <3>1
      <3>3. long[j + 1] = short[j + 1]
        BY <1>0, <3>2
      <3>4. MTH(long, j, j + 1) = HashLeaf(long[j + 1])
        BY MTHEquations
      <3>5. MTH(short, j, j + 1) = HashLeaf(short[j + 1])
        BY MTHEquations
      <3> QED
        BY <3>1, <3>3, <3>4, <3>5, Zenon DEF FullHash
    <2> QED
      BY <2>1
  <1>2. ASSUME NEW i \in Nat, i \in S PROVE i + 1 \in S
    <2>1. ASSUME NEW j \in Nat, Pow2[i + 1] * (j + 1) <= n
          PROVE  FullHash(long, i + 1, j) = FullHash(short, i + 1, j)
      <3> DEFINE P == Pow2[i]
                 a == P * (2 * j + 1)
                 b == P * (2 * j + 1 + 1)
      <3>1. P \in Nat /\ Pow2[i + 1] = 2 * P
        BY Pow2Equations, Pow2Type
      <3> HIDE DEF P
      <3>2. b = (2 * P) * (j + 1) /\ b = a + P /\ a \in Nat
        BY <3>1
      <3> HIDE DEF a, b
      <3>3. b <= n
        BY <2>1, <3>1, <3>2
      <3>4. a <= n
        BY <1>0, <3>1, <3>2, <3>3
      <3>5. 2 * j \in Nat /\ 2 * j + 1 \in Nat
        OBVIOUS
      <3>6. FullHash(long, i, 2 * j) = FullHash(short, i, 2 * j)
        BY <1>2, <3>4, <3>5 DEF a, P
      <3>7. FullHash(long, i, 2 * j + 1) = FullHash(short, i, 2 * j + 1)
        BY <1>2, <3>3, <3>5 DEF b, P
      <3> QED
        BY <3>6, <3>7, FullHashOfChildren
    <2> QED
      BY <2>1
  <1> HIDE DEF S
  <1>3. Nat \subseteq S
    BY <1>1, <1>2, NatInductionOnSets
  <1> QED
    BY <1>3 DEF S, n

LEMMA NodesStay ==
    ASSUME NEW long \in Seq(Nat), NEW short \in Seq(Nat), IsBeginning(long, short),
           NEW l \in 0 .. W
    PROVE  IsBeginning(Nodes(long, l), Nodes(short, l))
  <1> DEFINE n == Len(short) \div Pow2[l]
             m == Len(long) \div Pow2[l]
             a == Nodes(short, l)
             b == Nodes(long, l)
  <1>1. l \in Nat /\ Len(short) \in Nat /\ Len(long) \in Nat /\ Len(short) <= Len(long)
    BY WordFacts DEF IsBeginning
  <1>2. /\ n \in Nat /\ Len(a) = n
        /\ a = [j \in 1 .. n |-> FullHash(short, l, j - 1)]
    BY NodesAre
  <1>3. /\ m \in Nat /\ Len(b) = m
        /\ b = [j \in 1 .. m |-> FullHash(long, l, j - 1)]
    BY NodesAre
  <1>4. \A j \in Nat : j \in 0 .. n - 1 <=> Pow2[l] * (j + 1) <= Len(short)
    BY <1>1, Complete
  <1>5. \A j \in Nat : j \in 0 .. m - 1 <=> Pow2[l] * (j + 1) <= Len(long)
    BY <1>1, Complete
  <1>6. \A j \in Nat : Pow2[l] * (j + 1) \in Nat
    BY <1>1, Pow2Type
  <1> HIDE DEF n, m, a, b
  <1>7. n <= m
    <2> SUFFICES ASSUME n > m PROVE FALSE
      BY <1>2, <1>3
    <2>1. m \in 0 .. n - 1 /\ m \notin 0 .. m - 1
      BY <1>2, <1>3
    <2>2. Pow2[l] * (m + 1) <= Len(short) /\ ~(Pow2[l] * (m + 1) <= Len(long))
      BY <1>3, <1>4, <1>5, <2>1
    <2>3. Pow2[l] * (m + 1) \in Nat
      BY <1>3, <1>6
    <2> QED
      BY <1>1, <2>2, <2>3
  <1>8. ASSUME NEW j \in 1 .. n PROVE b[j] = a[j]
    <2>1. j - 1 \in Nat /\ j - 1 \in 0 .. n - 1 /\ j \in 1 .. m
      BY <1>2, <1>3, <1>7
    <2>2. Pow2[l] * ((j - 1) + 1) <= Len(short)
      BY <1>4, <2>1
    <2>3. FullHash(long, l, j - 1) = FullHash(short, l, j - 1)
      BY <1>1, <2>1, <2>2, FullHashStays
    <2> QED
      BY <1>2, <1>3, <2>1, <2>3
  <1> QED
    BY <1>2, <1>3, <1>7, <1>8 DEF IsBeginning, a, b

\* Above an empty level all are empty.
LEMMA NoNodesAbove ==
    ASSUME NEW log \in Seq(Nat), NEW k \in 0 .. W, NEW l \in 0 .. W, k <= l,
           Nodes(log, k) = <<>>
    PROVE  Len(Nodes(log, l)) = 0
  <1> DEFINE n == Len(log)
             P == Pow2[k]
             Q == Pow2[l]
  <1>1. k \in Nat /\ l \in Nat /\ n \in Nat
    BY WordFacts
  <1>2. P \in Nat \ {0} /\ Q \in Nat \ {0} /\ P <= Q
    BY <1>1, Pow2Type, Pow2Grows
  <1>3. n \div P = 0
    <2>1. Len(Nodes(log, k)) = n \div P
      BY NodesAre
    <2> QED
      BY <2>1
  <1> HIDE DEF n, P, Q
  <1>4. n < P
    <2>1. n = P * (n \div P) + (n % P) /\ n % P < P /\ n % P \in Nat
      BY <1>1, <1>2, DivMod
    <2> QED
      BY <1>2, <1>3, <2>1
  <1>5. n \div Q = 0
    <2>1. n < Q
      BY <1>1, <1>2, <1>4
    <2>2. (Q * 0 + n) \div Q = 0
      BY <1>1, <1>2, <2>1, DivModUnique
    <2>3. Q * 0 + n = n
      BY <1>1, <1>2
    <2> QED
      BY <2>2, <2>3
  <1> QED
    BY <1>5, NodesAre DEF n, Q

-----------------------------------------------------------------------------

(****************************************************************************)
(* The lists of a log that are written as tiles: its entries, here numbered *)
(* -1, and the levels of the tree that every TileHeight-th one is.          *)
(****************************************************************************)
Entries == -1
Lists == {Entries} \cup {l \in 0 .. W : l % TileHeight = 0}

DirOf(l) == IF l = Entries THEN entryDir ELSE levelDir(l)
ListOf(log, l) == IF l = Entries THEN log ELSE Nodes(log, l)

\* Tile i of one of them is there, with its part of the list.
HoldsTile(fs, log, l, i) ==
    LET path == PathOfTile(DirOf(l), Len(ListOf(log, l)), i)
    IN  path \in DOMAIN fs /\ fs[path] = Data(ListOf(log, l), i)

LEMMA ListsAre ==
    /\ \A l \in Lists : TileDir(DirOf(l))
    /\ \A k, l \in Lists : DirOf(k) = DirOf(l) => k = l
    /\ \A log \in Seq(Nat) : \A l \in Lists :
          Len(ListOf(log, l)) \in Nat /\ \E S : ListOf(log, l) \in Seq(S)
    /\ \A long, short \in Seq(Nat) : \A l \in Lists :
          IsBeginning(long, short) => IsBeginning(ListOf(long, l), ListOf(short, l))
  <1>1. \A l \in Lists : l # Entries => l \in Nat /\ l \in 0 .. W /\ l % TileHeight = 0
    BY WordFacts DEF Lists
  <1>2. ASSUME NEW l \in Lists PROVE TileDir(DirOf(l))
    <2>1. CASE l = Entries
      BY <2>1, TileDirsAre DEF DirOf
    <2>2. CASE l # Entries
      BY <1>1, <2>2, TileDirsAre DEF DirOf
    <2> QED
      BY <2>1, <2>2
  <1>3. ASSUME NEW k \in Lists, NEW l \in Lists, DirOf(k) = DirOf(l) PROVE k = l
    <2>1. CASE k = Entries /\ l = Entries
      BY <2>1
    <2>2. CASE k = Entries /\ l # Entries
      <3>1. DirOf(k) = entryDir /\ DirOf(l) = levelDir(l)
        BY <2>2 DEF DirOf
      <3> QED
        BY <1>1, <1>3, <2>2, <3>1, TileDirsAre
    <2>3. CASE k # Entries /\ l = Entries
      <3>1. DirOf(l) = entryDir /\ DirOf(k) = levelDir(k)
        BY <2>3 DEF DirOf
      <3> QED
        BY <1>1, <1>3, <2>3, <3>1, TileDirsAre
    <2>4. CASE k # Entries /\ l # Entries
      <3>1. DirOf(l) = levelDir(l) /\ DirOf(k) = levelDir(k)
        BY <2>4 DEF DirOf
      <3> QED
        BY <1>1, <1>3, <2>4, <3>1, TileDirsAre
    <2> QED
      BY <2>1, <2>2, <2>3, <2>4
  <1>4. ASSUME NEW log \in Seq(Nat), NEW l \in Lists
        PROVE  Len(ListOf(log, l)) \in Nat /\ \E S : ListOf(log, l) \in Seq(S)
    <2>1. CASE l = Entries
      <3>1. ListOf(log, l) = log
        BY <2>1 DEF ListOf
      <3> QED
        BY <3>1
    <2>2. CASE l # Entries
      <3>1. ListOf(log, l) = Nodes(log, l)
        BY <2>2 DEF ListOf
      <3> QED
        BY <1>1, <2>2, <3>1, NodesAre
    <2> QED
      BY <2>1, <2>2
  <1>5. ASSUME NEW long \in Seq(Nat), NEW short \in Seq(Nat), NEW l \in Lists,
               IsBeginning(long, short)
        PROVE  IsBeginning(ListOf(long, l), ListOf(short, l))
    <2>1. CASE l = Entries
      BY <1>5, <2>1 DEF ListOf
    <2>2. CASE l # Entries
      <3>1. ListOf(long, l) = Nodes(long, l) /\ ListOf(short, l) = Nodes(short, l)
        BY <2>2 DEF ListOf
      <3> QED
        BY <1>1, <1>5, <2>2, <3>1, NodesStay
    <2> QED
      BY <2>1, <2>2
  <1> QED
    BY <1>2, <1>3, <1>4, <1>5

\* A log is in the directory when its checkpoint and all tiles of its lists are.
LogIn(fs, log) ==
    /\ checkpointPath \in DOMAIN fs
    /\ fs[checkpointPath] = <<Len(log), SubtreeHash(NewStaticMerkleTree(log), 0, Len(log))>>
    /\ \A l \in Lists : \A i \in TilesOf(Len(ListOf(log, l))) : HoldsTile(fs, log, l, i)

LEMMA LogInIs ==
    ASSUME NEW fs, NEW log
    PROVE  LogIn(fs, log) <=>
              /\ checkpointPath \in DOMAIN fs
              /\ fs[checkpointPath]
                    = <<Len(log), SubtreeHash(NewStaticMerkleTree(log), 0, Len(log))>>
              /\ TilesHold(fs, entryDir, log)
              /\ \A l \in 0 .. W : l % TileHeight = 0 =>
                    TilesHold(fs, levelDir(l), LevelOf(NewStaticMerkleTree(log), l))
  <1> DEFINE All(l) == \A i \in TilesOf(Len(ListOf(log, l))) : HoldsTile(fs, log, l, i)
  <1>1. \A l \in Lists : All(l) <=> TilesHold(fs, DirOf(l), ListOf(log, l))
    BY Zenon DEF TilesHold, HoldsTile, PathOfTile, Data
  <1> HIDE DEF All
  <1>2. Entries \in Lists /\ DirOf(Entries) = entryDir /\ ListOf(log, Entries) = log
    BY DEF Lists, DirOf, ListOf
  <1>3. \A l \in 0..W : /\ l % TileHeight = 0 => l \in Lists
                       /\ DirOf(l) = levelDir(l)
                       /\ ListOf(log, l) = LevelOf(NewStaticMerkleTree(log), l)
    BY DEF Lists, DirOf, ListOf, Nodes, Entries
  <1>4. (\A l \in Lists : All(l)) <=>
           /\ TilesHold(fs, entryDir, log)
           /\ \A l \in 0 .. W : l % TileHeight = 0 =>
                 TilesHold(fs, levelDir(l), LevelOf(NewStaticMerkleTree(log), l))
    <2>1. \A l \in Lists : l = Entries \/ (l \in 0 .. W /\ l % TileHeight = 0)
      BY DEF Lists
    <2> QED
      BY <1>1, <1>2, <1>3, <2>1
  <1> QED
    BY <1>4, Zenon DEF LogIn, All

\* What is written at path is no other part of the log than what is there.
Harmless(path, data, log) ==
    \A l \in Lists : \A i \in TilesOf(Len(ListOf(log, l))) :
        PathOfTile(DirOf(l), Len(ListOf(log, l)), i) = path => Data(ListOf(log, l), i) = data

Written(fs, path, data) ==
    [p \in DOMAIN fs \cup {path} |-> IF p = path THEN data ELSE fs[p]]

LEMMA HarmlessKeeps ==
    ASSUME NEW fs, NEW path, NEW data, NEW log, Harmless(path, data, log),
           NEW l \in Lists, NEW i \in TilesOf(Len(ListOf(log, l))), HoldsTile(fs, log, l, i)
    PROVE  HoldsTile(Written(fs, path, data), log, l, i)
  <1> DEFINE p == PathOfTile(DirOf(l), Len(ListOf(log, l)), i)
             d == Data(ListOf(log, l), i)
  <1>1. p \in DOMAIN fs /\ fs[p] = d
    BY DEF HoldsTile
  <1>2. p = path => d = data
    BY DEF Harmless
  <1> HIDE DEF p, d
  <1>3. p \in DOMAIN Written(fs, path, data) /\ Written(fs, path, data)[p] = d
    BY <1>1, <1>2 DEF Written
  <1> QED
    BY <1>3, Zenon DEF HoldsTile, p, d

LEMMA TilesAreHarmless ==
    ASSUME NEW long \in Seq(Nat), NEW short \in Seq(Nat), IsBeginning(long, short),
           NEW l \in Lists, NEW i \in TilesOf(Len(ListOf(long, l)))
    PROVE  Harmless(PathOfTile(DirOf(l), Len(ListOf(long, l)), i),
                    Data(ListOf(long, l), i), short)
  <1> SUFFICES ASSUME NEW k \in Lists, NEW j \in TilesOf(Len(ListOf(short, k))),
                      PathOfTile(DirOf(k), Len(ListOf(short, k)), j)
                         = PathOfTile(DirOf(l), Len(ListOf(long, l)), i)
               PROVE  Data(ListOf(short, k), j) = Data(ListOf(long, l), i)
    BY Zenon DEF Harmless
  <1> DEFINE a == ListOf(long, l)
             b == ListOf(short, k)
             x == SizeOfTile(i, Len(a))
             y == SizeOfTile(j, Len(b))
  <1>1. Len(a) \in Nat /\ Len(b) \in Nat /\ TileDir(DirOf(l)) /\ TileDir(DirOf(k))
    BY ListsAre
  <1>2. DirOf(k) = DirOf(l) /\ j = i /\ y = x
    BY <1>1, PathsDiffer
  <1>3. k = l
    BY <1>2, ListsAre
  <1>4. IsBeginning(a, b)
    BY <1>3, ListsAre
  <1>5. y \in 1 .. TileWidth /\ TileWidth * j \in Nat /\ TileWidth * j + y <= Len(b)
    BY <1>1, SizeOfTileIs
  <1> HIDE DEF x, y, a, b
  <1>6. ASSUME NEW n \in 1 .. y PROVE b[TileWidth * j + n] = a[TileWidth * i + n]
    <2>1. y \in Nat /\ TileWidth * j + n \in Nat
      BY <1>5, TileWidthType
    <2>2. TileWidth * j + n \in 1 .. Len(b)
      BY <1>1, <1>5, <2>1
    <2> QED
      BY <1>2, <1>4, <2>2 DEF IsBeginning
  <1>7. [n \in 1 .. y |-> b[TileWidth * j + n]] = [n \in 1 .. x |-> a[TileWidth * i + n]]
    BY <1>2, <1>6
  <1> QED
    BY <1>7 DEF Data, x, y, a, b

LEMMA OthersAreHarmless ==
    ASSUME NEW log \in Seq(Nat), NEW data, NEW path,
           \/ path = <<Named("ca_cert.pem")>> \/ path = checkpointPath
           \/ \E n \in Nat : path = <<Named("cert"), Itoa(n)>>
    PROVE  Harmless(path, data, log)
  <1>1. ASSUME NEW l \in Lists, NEW i \in TilesOf(Len(ListOf(log, l)))
        PROVE  PathOfTile(DirOf(l), Len(ListOf(log, l)), i) # path
    <2>1. Len(ListOf(log, l)) \in Nat /\ TileDir(DirOf(l))
      BY ListsAre
    <2> QED
      BY <2>1, OtherPathsDiffer
  <1> QED
    BY <1>1 DEF Harmless

-----------------------------------------------------------------------------

(****************************************************************************)
(* The run.  What it is past is in the directory, whatever other runs left  *)
(* there; and as no path stands for two parts of one log, nothing it writes *)
(* replaces a part of the published log, as long as its own goes on from it.*)
(****************************************************************************)

\* The run is past tile i of list l.
Passed(l, i) ==
    \/ stage = "checkpoint"
    \/ stage = "tiles" /\ (l < level \/ (l = level /\ i < tile))
    \/ stage = "entries" /\ l = Entries /\ i < tile

Progress ==
    \A l \in Lists : \A i \in TilesOf(Len(ListOf(config.entries, l))) :
        Passed(l, i) => HoldsTile(files, config.entries, l, i)

OutputTypeOK ==
    /\ config.entries \in Seq(Nat) /\ config.certs \in Seq(Nat)
    /\ level \in 0 .. W /\ level % TileHeight = 0 /\ tile \in Nat
    /\ published = NoLog \/ published \in Seq(Nat)
    /\ diverged \in BOOLEAN /\ torn \in BOOLEAN

\* Unless a run diverged, this one's log goes on from the published one.
GoesOn ==
    published # NoLog /\ ~diverged => IsBeginning(config.entries, published)

PathsAreKnown == \A p \in DOMAIN files : IsPath(p)

OutputInv ==
    OutputTypeOK /\ PathsAreKnown /\ Progress /\ GoesOn /\ PublishedLogIsReadable

LEMMA Readable ==
    /\ PublishedLogIsReadable <=>
          (published # NoLog /\ ~diverged /\ ~torn => LogIn(files, published))
    /\ PublishedLogIsReadable' <=>
          (published' # NoLog /\ ~diverged' /\ ~torn' => LogIn(files', published'))
  <1>1. LogIn(files, published) <=> HoldsLog(published)
    BY LogInIs, Zenon DEF HoldsLog
  <1>2. LogIn(files', published') <=> HoldsLog(published)'
    BY LogInIs, Zenon DEF HoldsLog
  <1> QED
    BY <1>1, <1>2 DEF PublishedLogIsReadable

LEMMA WrittenPaths ==
    ASSUME NEW path, IsPath(path), NEW data, PathsAreKnown,
           files' = Written(files, path, data)
    PROVE  PathsAreKnown'
  <1>1. DOMAIN files' = DOMAIN files \cup {path}
    BY DEF Written
  <1> QED
    BY <1>1 DEF PathsAreKnown

\* A step that writes nothing and goes past nothing.
LEMMA QuietStep ==
    ASSUME OutputInv, OutputTypeOK', UNCHANGED <<files, config, history>>,
           \A l \in Lists : \A i \in TilesOf(Len(ListOf(config.entries, l))) :
              Passed(l, i)' => Passed(l, i)
    PROVE  OutputInv'
  <1>1. UNCHANGED <<files, config, published, diverged, torn>>
    BY DEF history
  <1>2. PathsAreKnown' /\ GoesOn'
    BY <1>1 DEF OutputInv, PathsAreKnown, GoesOn
  <1>3. Progress'
    BY <1>1 DEF OutputInv, Progress
  <1>4. PublishedLogIsReadable'
    BY <1>1, Readable DEF OutputInv
  <1> QED
    BY <1>2, <1>3, <1>4 DEF OutputInv

\* A run that fails, before a file or at it.
LEMMA FailKeeps ==
    ASSUME OutputInv, NEW path, IsPath(path), FailAt(path)
    PROVE  OutputInv'
  <1>1. /\ stage' = "failed" /\ UNCHANGED <<config, level, tile, published, diverged>>
        /\ \/ UNCHANGED <<files, torn>>
           \/ files' = Written(files, path, Truncated) /\ torn' = TRUE
    BY DEF FailAt, WriteFile, Written
  <1>2. OutputTypeOK'
    BY <1>1 DEF OutputInv, OutputTypeOK
  <1>3. PathsAreKnown'
    <2>1. CASE UNCHANGED files
      BY <2>1 DEF OutputInv, PathsAreKnown
    <2>2. CASE files' = Written(files, path, Truncated)
      BY <2>2, WrittenPaths DEF OutputInv
    <2> QED
      BY <1>1, <2>1, <2>2
  <1>4. Progress'
    BY <1>1 DEF Progress, Passed
  <1>5. GoesOn'
    BY <1>1 DEF OutputInv, GoesOn
  <1>6. PublishedLogIsReadable'
    BY <1>1, Readable DEF OutputInv
  <1> QED
    BY <1>2, <1>3, <1>4, <1>5, <1>6 DEF OutputInv

\* A file is written that replaces no part of this log or the published one.
LEMMA WritingKeeps ==
    ASSUME OutputInv, NEW path, IsPath(path), path # checkpointPath, NEW data,
           Harmless(path, data, config.entries),
           published # NoLog /\ ~diverged => Harmless(path, data, published),
           files' = Written(files, path, data), UNCHANGED <<config, history>>
    PROVE  /\ PathsAreKnown' /\ GoesOn' /\ PublishedLogIsReadable'
           /\ \A l \in Lists : \A i \in TilesOf(Len(ListOf(config.entries, l))) :
                 HoldsTile(files, config.entries, l, i)
                    => HoldsTile(files', config.entries, l, i)
  <1>1. UNCHANGED <<config, published, diverged, torn>>
    BY DEF history
  <1>2. PathsAreKnown'
    BY WrittenPaths DEF OutputInv
  <1>3. GoesOn'
    BY <1>1 DEF OutputInv, GoesOn
  <1>4. PublishedLogIsReadable'
    <2> SUFFICES ASSUME published # NoLog, ~diverged, LogIn(files, published)
                 PROVE  LogIn(files', published)
      BY <1>1, Readable DEF OutputInv
    <2>1. checkpointPath \in DOMAIN files' /\ files'[checkpointPath] = files[checkpointPath]
      BY DEF LogIn, Written
    <2>2. \A l \in Lists : \A i \in TilesOf(Len(ListOf(published, l))) :
             HoldsTile(files', published, l, i)
      <3>1. Harmless(path, data, published)
        OBVIOUS
      <3> QED
        BY <3>1, HarmlessKeeps DEF LogIn
    <2> QED
      BY <2>1, <2>2 DEF LogIn
  <1>5. \A l \in Lists : \A i \in TilesOf(Len(ListOf(config.entries, l))) :
           HoldsTile(files, config.entries, l, i) => HoldsTile(files', config.entries, l, i)
    BY HarmlessKeeps
  <1> QED
    BY <1>2, <1>3, <1>4, <1>5

\* A file that is no tile, before the tiles.
LEMMA OtherWritten ==
    ASSUME OutputInv, OutputTypeOK', NEW data, NEW path,
           \/ path = <<Named("ca_cert.pem")>>
           \/ \E n \in Nat : path = <<Named("cert"), Itoa(n)>>,
           files' = Written(files, path, data), UNCHANGED <<config, history>>,
           stage' \in {"CA certificate", "certificates"}
    PROVE  OutputInv'
  <1>1. IsPath(path)
    BY DEF IsPath
  <1>2. path # checkpointPath
    <2>1. Named("ca_cert.pem") # Named("checkpoint") /\ Named("cert") # Named("checkpoint")
      BY NamesDiffer
    <2>2. \A c, d : <<c>>[1] = c /\ <<c, d>>[1] = c
      OBVIOUS
    <2>3. checkpointPath[1] = Named("checkpoint")
      BY <2>2 DEF checkpointPath
    <2>4. path[1] = Named("ca_cert.pem") \/ path[1] = Named("cert")
      BY <2>2
    <2> QED
      BY <2>1, <2>3, <2>4
  <1>3. \A log \in Seq(Nat) : Harmless(path, data, log)
    BY OthersAreHarmless
  <1>4. config.entries \in Seq(Nat) /\ (published # NoLog => published \in Seq(Nat))
    BY DEF OutputInv, OutputTypeOK
  <1>5. PathsAreKnown' /\ GoesOn' /\ PublishedLogIsReadable'
    BY <1>1, <1>2, <1>3, <1>4, WritingKeeps
  <1>6. Progress'
    BY DEF Progress, Passed
  <1> QED
    BY <1>5, <1>6 DEF OutputInv

\* The next tile of a list.
LEMMA TileWritten ==
    ASSUME OutputInv, NEW l \in Lists, tile \in TilesOf(Len(ListOf(config.entries, l))),
           files' = Written(files, PathOfTile(DirOf(l), Len(ListOf(config.entries, l)), tile),
                            Data(ListOf(config.entries, l), tile)),
           tile' = tile + 1, UNCHANGED <<config, stage, level, history>>,
           (stage = "entries" /\ l = Entries) \/ (stage = "tiles" /\ l = level)
    PROVE  OutputInv'
  <1> DEFINE log == config.entries
             path == PathOfTile(DirOf(l), Len(ListOf(log, l)), tile)
             data == Data(ListOf(log, l), tile)
  <1>1. /\ log \in Seq(Nat) /\ level \in Nat /\ tile \in Nat
        /\ published # NoLog => published \in Seq(Nat)
    BY WordFacts DEF OutputInv, OutputTypeOK
  <1>2. OutputTypeOK'
    BY <1>1 DEF OutputInv, OutputTypeOK, history
  <1>3. Len(ListOf(log, l)) \in Nat /\ TileDir(DirOf(l))
    BY <1>1, ListsAre
  <1>4. IsTileFile(path)
    BY <1>3, PathOfTileIs
  <1>5. path # checkpointPath
    BY <1>3, OtherPathsDiffer
  <1>6. IsBeginning(log, log)
    BY <1>1 DEF IsBeginning
  <1>7. \A short \in Seq(Nat) : IsBeginning(log, short) => Harmless(path, data, short)
    BY <1>1, TilesAreHarmless
  <1>8. Harmless(path, data, log)
    BY <1>1, <1>6, <1>7
  <1>9. published # NoLog /\ ~diverged => Harmless(path, data, published)
    BY <1>1, <1>7 DEF OutputInv, GoesOn
  <1>10. IsPath(path) /\ files' = Written(files, path, data)
    BY <1>4 DEF IsPath
  <1>11. HoldsTile(files', log, l, tile)
    <2>1. path \in DOMAIN Written(files, path, data)
          /\ Written(files, path, data)[path] = data
      BY Zenon DEF Written
    <2> QED
      BY <1>10, <2>1, Zenon DEF HoldsTile
  <1> HIDE DEF path, data
  <1>12. /\ PathsAreKnown' /\ GoesOn' /\ PublishedLogIsReadable'
         /\ \A k \in Lists : \A i \in TilesOf(Len(ListOf(log, k))) :
               HoldsTile(files, log, k, i) => HoldsTile(files', log, k, i)
    BY <1>5, <1>8, <1>9, <1>10, WritingKeeps
  <1>13. ASSUME NEW k \in Lists, NEW i \in TilesOf(Len(ListOf(log, k))), Passed(k, i)'
         PROVE  HoldsTile(files', log, k, i)
    <2>1. Len(ListOf(log, k)) \in Nat
      BY <1>1, ListsAre
    <2>2. i \in Nat
      BY <2>1 DEF TilesOf
    <2>3. k \in Int /\ Entries \in Int /\ Entries < 0
      BY WordFacts DEF Lists, Entries
    <2>4. Passed(k, i) \/ (k = l /\ i = tile)
      BY <1>1, <1>13, <2>2, <2>3 DEF Passed
    <2> QED
      BY <1>11, <1>12, <2>4 DEF OutputInv, Progress
  <1>14. Progress'
    BY <1>13 DEF Progress
  <1> QED
    BY <1>2, <1>12, <1>14 DEF OutputInv

LEMMA LevelZero == 0 \in 0 .. W /\ 0 % TileHeight = 0
  <1>1. TileHeight \in Nat \ {0}
    BY TileAssumption
  <1>2. 0 % TileHeight = 0
    BY <1>1
  <1> QED
    BY <1>2, WordFacts

LEMMA StartingKeeps ==
    ASSUME OutputInv, NEW c \in Configs, StartRun(c)
    PROVE  OutputInv'
  <1>1. /\ config' = c /\ stage' = "CA certificate" /\ level' = 0 /\ tile' = 0
        /\ diverged' = (diverged \/ ~Extends(c.entries, published))
        /\ UNCHANGED <<files, published, torn>>
    BY DEF StartRun
  <1>2. c.entries \in Seq(Nat) /\ c.certs \in Seq(Nat)
    BY OutputAssumption
  <1>3. OutputTypeOK'
    <2>1. 0 \in 0 .. W /\ 0 % TileHeight = 0
      BY LevelZero
    <2>2. diverged' \in BOOLEAN
      <3>1. diverged \in BOOLEAN
        BY DEF OutputInv, OutputTypeOK
      <3> QED
        BY <1>1, <3>1, Zenon
    <2> QED
      BY <1>1, <1>2, <2>1, <2>2 DEF OutputInv, OutputTypeOK
  <1>4. PathsAreKnown'
    BY <1>1 DEF OutputInv, PathsAreKnown
  <1>5. Progress'
    BY <1>1 DEF Progress, Passed
  <1>6. ~diverged' => ~diverged /\ Extends(c.entries, published)
    <2> HIDE DEF Extends
    <2> QED
      BY <1>1, Zenon
  <1>7. GoesOn'
    <2> SUFFICES ASSUME published # NoLog, Extends(c.entries, published)
                 PROVE  IsBeginning(c.entries, published)
      BY <1>1, <1>6 DEF GoesOn
    <2> DEFINE n == Len(published)
               beginning == SubSeq(c.entries, 1, n)
    <2>1. published \in Seq(Nat)
      BY DEF OutputInv, OutputTypeOK
    <2>2. n \in Nat /\ n <= Len(c.entries) /\ beginning = published
      BY <2>1 DEF Extends
    <2>3. \A j \in 1 .. n : c.entries[j] \in Nat
      BY <1>2, <2>2
    <2>4. \A j \in 1 .. n - 1 + 1 : beginning[j] = c.entries[1 + j - 1]
      BY <1>2, <2>2, <2>3, SubSeqProperties
    <2> HIDE DEF beginning, n
    <2>5. \A j \in 1 .. n : published[j] = c.entries[j]
      <3>1. n - 1 + 1 = n /\ \A j \in 1 .. n : 1 + j - 1 = j
        BY <2>2
      <3> QED
        BY <2>2, <2>4, <3>1
    <2> QED
      BY <2>2, <2>5 DEF IsBeginning, n
  <1>8. PublishedLogIsReadable'
    BY <1>1, <1>6, Readable DEF OutputInv
  <1> QED
    BY <1>3, <1>4, <1>5, <1>7, <1>8 DEF OutputInv

LEMMA CACertificateKeeps ==
    ASSUME OutputInv, WriteCACertificate
    PROVE  OutputInv'
  <1> DEFINE path == <<Named("ca_cert.pem")>>
  <1>1. CASE FailAt(path)
    <2>1. IsPath(path)
      BY DEF IsPath
    <2> QED
      BY <1>1, <2>1, FailKeeps
  <1>2. CASE /\ WriteFile(path, <<0>>) /\ stage' = "certificates"
             /\ UNCHANGED <<config, level, tile, history>>
    <2>1. files' = Written(files, path, <<0>>)
      BY <1>2 DEF WriteFile, Written
    <2>2. OutputTypeOK'
      BY <1>2 DEF OutputInv, OutputTypeOK, history
    <2> QED
      BY <1>2, <2>1, <2>2, OtherWritten
  <1> QED
    BY <1>1, <1>2 DEF WriteCACertificate

LEMMA CertificateKeeps ==
    ASSUME OutputInv, WriteCertificate
    PROVE  OutputInv'
  <1> DEFINE index == config.certs[tile + 1]
             path == <<Named("cert"), Itoa(index)>>
  <1>1. tile \in Nat /\ config.certs \in Seq(Nat)
    BY DEF OutputInv, OutputTypeOK
  <1>2. index \in Nat
    <2>1. tile < Len(config.certs)
      BY DEF WriteCertificate
    <2>2. tile + 1 \in 1 .. Len(config.certs)
      BY <1>1, <2>1
    <2> QED
      BY <1>1, <2>2
  <1>3. CASE FailAt(path)
    <2>1. IsPath(path)
      BY <1>2 DEF IsPath
    <2> QED
      BY <1>3, <2>1, FailKeeps
  <1>4. CASE /\ WriteFile(path, <<index>>) /\ tile' = tile + 1
             /\ UNCHANGED <<config, stage, level, history>>
    <2>1. files' = Written(files, path, <<index>>)
      BY <1>4 DEF WriteFile, Written
    <2>2. OutputTypeOK'
      BY <1>1, <1>4 DEF OutputInv, OutputTypeOK, history
    <2>3. stage' = "certificates"
      BY <1>4 DEF WriteCertificate
    <2> HIDE DEF index
    <2> QED
      BY <1>2, <1>4, <2>1, <2>2, <2>3, OtherWritten
  <1> QED
    BY <1>3, <1>4 DEF WriteCertificate

LEMMA CertificatesWrittenKeeps ==
    ASSUME OutputInv, CertificatesWritten
    PROVE  OutputInv'
  <1>1. stage' = "entries" /\ tile' = 0 /\ UNCHANGED <<files, config, level, history>>
    BY DEF CertificatesWritten
  <1>2. OutputTypeOK'
    BY <1>1 DEF OutputInv, OutputTypeOK, history
  <1>3. ASSUME NEW l \in Lists, NEW i \in TilesOf(Len(ListOf(config.entries, l)))
        PROVE  ~Passed(l, i)'
    <2>1. Len(ListOf(config.entries, l)) \in Nat
      BY ListsAre DEF OutputInv, OutputTypeOK
    <2>2. i \in Nat
      BY <2>1 DEF TilesOf
    <2> QED
      BY <1>1, <2>2 DEF Passed
  <1> QED
    BY <1>1, <1>2, <1>3, QuietStep

LEMMA LastTile ==
    ASSUME NEW length \in Nat, NEW i \in TilesOf(length), NEW t \in Nat,
           TileWidth * t >= length
    PROVE  i \in Nat /\ i < t
  <1>1. i \in Nat /\ TileWidth * i < length
    BY DEF TilesOf
  <1> SUFFICES ASSUME i >= t PROVE FALSE
    BY <1>1
  <1>2. PICK d \in Nat : i = t + d
    <2>1. i - t \in Nat /\ i = t + (i - t)
      BY <1>1
    <2> QED
      BY <2>1
  <1>3. TileWidth \in Nat
    BY TileWidthType
  <1>4. TileWidth * (t + d) = TileWidth * t + TileWidth * d
    BY <1>3
  <1>5. TileWidth * d \in Nat /\ TileWidth * t \in Nat
    BY <1>3
  <1> QED
    BY <1>1, <1>2, <1>4, <1>5

LEMMA EntriesWrittenKeeps ==
    ASSUME OutputInv, EntriesWritten
    PROVE  OutputInv'
  <1>1. /\ stage = "entries" /\ TileWidth * tile >= Len(config.entries)
        /\ stage' = "tiles" /\ level' = 0 /\ tile' = 0 /\ UNCHANGED <<files, config, history>>
    BY DEF EntriesWritten
  <1>2. OutputTypeOK'
    <2>1. 0 \in 0 .. W /\ 0 % TileHeight = 0
      BY LevelZero
    <2> QED
      BY <1>1, <2>1 DEF OutputInv, OutputTypeOK, history
  <1>3. ASSUME NEW l \in Lists, NEW i \in TilesOf(Len(ListOf(config.entries, l))),
               Passed(l, i)'
        PROVE  Passed(l, i)
    <2>1. Len(ListOf(config.entries, l)) \in Nat /\ tile \in Nat
      BY ListsAre DEF OutputInv, OutputTypeOK
    <2>2. i \in Nat
      BY <2>1 DEF TilesOf
    <2>3. l < 0
      BY <1>1, <1>3, <2>2 DEF Passed
    <2>4. l = Entries
      BY <2>3, WordFacts DEF Lists
    <2>5. ListOf(config.entries, l) = config.entries
      BY <2>4 DEF ListOf
    <2>6. i < tile
      BY <1>1, <2>1, <2>5, LastTile
    <2> QED
      BY <1>1, <2>4, <2>6 DEF Passed
  <1> QED
    BY <1>1, <1>2, <1>3, QuietStep

LEMMA IsTile ==
    ASSUME NEW length \in Nat, NEW i \in Nat, TileWidth * i < length
    PROVE  i \in TilesOf(length)
  <1>1. TileWidth \in Nat \ {0}
    BY TileWidthType
  <1>2. i * 1 <= i * TileWidth
    BY <1>1, TimesMonotone
  <1>3. i * TileWidth = TileWidth * i /\ i * 1 = i /\ TileWidth * i \in Nat
    BY <1>1
  <1>4. i <= length
    BY <1>2, <1>3
  <1> QED
    BY <1>4 DEF TilesOf

LEMMA EntriesKeep ==
    ASSUME OutputInv, WriteEntries
    PROVE  OutputInv'
  <1> DEFINE log == config.entries
             path == TilePath(entryDir, tile, Len(log))
  <1>1. log \in Seq(Nat) /\ tile \in Nat
    BY DEF OutputInv, OutputTypeOK
  <1>2. stage = "entries" /\ TileWidth * tile < Len(log)
    BY DEF WriteEntries
  <1>3. tile \in TilesOf(Len(log))
    BY <1>1, <1>2, IsTile
  <1>4. Entries \in Lists /\ DirOf(Entries) = entryDir /\ ListOf(log, Entries) = log
    BY DEF Lists, DirOf, ListOf
  <1>5. path = PathOfTile(entryDir, Len(log), tile)
    BY <1>1, <1>3, PathsAgree
  <1>6. TileOf(log, tile) = Data(log, tile)
    BY <1>1, <1>3, TileOfIs
  <1>7. CASE FailAt(path)
    <2>1. IsPath(path)
      BY <1>1, <1>3, <1>5, PathOfTileIs, TileDirsAre DEF IsPath
    <2> QED
      BY <1>7, <2>1, FailKeeps
  <1>8. CASE /\ WriteFile(path, TileOf(log, tile)) /\ tile' = tile + 1
             /\ UNCHANGED <<config, stage, level, history>>
    <2>1. files' = Written(files, path, TileOf(log, tile))
      BY <1>8 DEF WriteFile, Written
    <2>2. files' = Written(files, PathOfTile(DirOf(Entries), Len(ListOf(log, Entries)), tile),
                           Data(ListOf(log, Entries), tile))
      BY <1>4, <1>5, <1>6, <2>1
    <2> QED
      BY <1>2, <1>3, <1>4, <1>8, <2>2, TileWritten
  <1> QED
    BY <1>7, <1>8 DEF WriteEntries

LEMMA TileKeeps ==
    ASSUME OutputInv, WriteTile
    PROVE  OutputInv'
  <1> DEFINE log == config.entries
             list == Nodes(log, level)
             path == TilePath(levelDir(level), tile, Len(list))
  <1>1. log \in Seq(Nat) /\ tile \in Nat /\ level \in 0 .. W /\ level % TileHeight = 0
    BY DEF OutputInv, OutputTypeOK
  <1>2. Level(level) = list
    BY DEF Level, issuanceLog, Nodes
  <1>3. stage = "tiles" /\ TileWidth * tile < Len(list)
    BY <1>2 DEF WriteTile
  <1>4. level \in Lists /\ DirOf(level) = levelDir(level) /\ ListOf(log, level) = list
    BY <1>1, WordFacts DEF Lists, DirOf, ListOf, Entries
  <1>5. Len(list) \in Nat /\ TileDir(levelDir(level)) /\ \E S : list \in Seq(S)
    BY <1>1, <1>4, ListsAre
  <1>6. tile \in TilesOf(Len(list))
    BY <1>1, <1>3, <1>5, IsTile
  <1> HIDE DEF list
  <1>7. path = PathOfTile(levelDir(level), Len(list), tile)
    BY <1>5, <1>6, PathsAgree
  <1>8. TileOf(list, tile) = Data(list, tile)
    BY <1>5, <1>6, TileOfIs
  <1>9. CASE FailAt(path)
    <2>1. IsPath(path)
      BY <1>5, <1>6, <1>7, PathOfTileIs DEF IsPath
    <2> QED
      BY <1>9, <2>1, FailKeeps
  <1>10. CASE /\ WriteFile(path, TileOf(list, tile)) /\ tile' = tile + 1
              /\ UNCHANGED <<config, stage, level, history>>
    <2>1. files' = Written(files, path, TileOf(list, tile))
      BY <1>10 DEF WriteFile, Written
    <2>2. files' = Written(files, PathOfTile(DirOf(level), Len(ListOf(log, level)), tile),
                           Data(ListOf(log, level), tile))
      BY <1>4, <1>7, <1>8, <2>1
    <2> QED
      BY <1>3, <1>4, <1>6, <1>10, <2>2, TileWritten
  <1> QED
    BY <1>2, <1>9, <1>10 DEF WriteTile

\* No level that tiles are made of is between two that follow each other.
LEMMA TileLevels ==
    ASSUME NEW a \in Nat, NEW b \in Nat, a % TileHeight = 0, b % TileHeight = 0
    PROVE  (a + TileHeight) % TileHeight = 0 /\ (b <= a \/ b >= a + TileHeight)
  <1> DEFINE h == TileHeight
             q == a \div h
             r == b \div h
  <1>1. h \in Nat \ {0}
    BY TileAssumption
  <1>2. q \in Nat /\ r \in Nat /\ a = h * q /\ b = h * r
    BY <1>1, DivMod
  <1> HIDE DEF q, r, h
  <1>3. a + h = h * (q + 1) + 0
    BY <1>1, <1>2
  <1>4. (a + h) % h = 0
    <2>1. q + 1 \in Nat /\ 0 < h
      BY <1>1, <1>2
    <2>2. (h * (q + 1) + 0) % h = 0
      BY <1>1, <2>1, DivModUnique
    <2> QED
      BY <1>3, <2>2, Zenon
  <1>5. CASE r <= q
    <2>1. h * r <= h * q
      BY <1>1, <1>2, <1>5, TimesMonotone
    <2> QED
      BY <1>2, <1>4, <2>1 DEF h
  <1>6. CASE r > q
    <2>1. h * (q + 1) <= h * r
      BY <1>1, <1>2, <1>6, TimesMonotone
    <2>2. b >= a + h
      <3>1. h * (q + 1) \in Nat /\ h * (q + 1) = a + h
        BY <1>1, <1>2, <1>3
      <3> QED
        BY <1>2, <2>1, <3>1
    <2> QED
      BY <1>4, <2>2 DEF h
  <1> QED
    BY <1>2, <1>5, <1>6

LEMMA NextLevelKeeps ==
    ASSUME OutputInv, NextLevel
    PROVE  OutputInv'
  <1> DEFINE log == config.entries
             above == level + TileHeight
  <1>1. /\ log \in Seq(Nat) /\ tile \in Nat /\ level \in 0 .. W /\ level % TileHeight = 0
        /\ level \in Nat /\ above \in Nat /\ above % TileHeight = 0 /\ W \in Nat
        /\ TileHeight \in Nat
    <2>1. /\ log \in Seq(Nat) /\ tile \in Nat /\ level \in 0 .. W /\ level % TileHeight = 0
          /\ W \in Nat /\ TileHeight \in Nat
      BY WordFacts, TileAssumption DEF OutputInv, OutputTypeOK
    <2> QED
      BY <2>1, TileLevels
  <1>2. \A l : Level(l) = Nodes(log, l)
    BY DEF Level, issuanceLog, Nodes
  <1>3. /\ stage = "tiles" /\ TileWidth * tile >= Len(Nodes(log, level)) /\ tile' = 0
        /\ UNCHANGED <<files, config, history>>
        /\ IF above <= W /\ Nodes(log, above) # <<>>
           THEN level' = above /\ stage' = stage
           ELSE stage' = "checkpoint" /\ level' = level
    BY <1>2 DEF NextLevel
  <1>4. OutputTypeOK'
    <2>1. level' \in 0 .. W /\ level' % TileHeight = 0
      BY <1>1, <1>3
    <2> QED
      BY <1>1, <1>3, <2>1 DEF OutputInv, OutputTypeOK, history
  <1>5. ASSUME NEW l \in Lists, NEW i \in TilesOf(Len(ListOf(log, l))), Passed(l, i)'
        PROVE  Passed(l, i)
    <2>1. Len(ListOf(log, l)) \in Nat
      BY <1>1, ListsAre
    <2>2. i \in Nat /\ i < Len(ListOf(log, l)) + 1
      BY <2>1 DEF TilesOf
    <2>3. CASE l = Entries
      BY <1>1, <1>3, <2>3 DEF Passed, Entries
    <2>4. CASE l # Entries
      <3>1. l \in Nat /\ l \in 0 .. W /\ l % TileHeight = 0 /\ ListOf(log, l) = Nodes(log, l)
        BY <2>4, WordFacts DEF Lists, ListOf
      <3>2. l <= level \/ l >= above
        BY <1>1, <3>1, TileLevels
      <3>3. CASE l < level
        BY <1>3, <3>3 DEF Passed
      <3>4. CASE l = level
        <4>1. i < tile
          BY <1>1, <1>3, <2>1, <3>1, <3>4, LastTile
        <4> QED
          BY <1>3, <3>4, <4>1 DEF Passed
      <3>5. CASE l >= above
        <4>1. CASE above <= W /\ Nodes(log, above) # <<>>
          <5>1. stage' = "tiles" /\ level' = above /\ tile' = 0
            BY <1>3, <4>1
          <5>2. ~Passed(l, i)'
            BY <1>1, <2>2, <3>1, <3>5, <5>1, WordFacts DEF Passed, Entries
          <5> QED
            BY <1>5, <5>2
        <4>2. CASE Nodes(log, above) = <<>>
          <5>1. above \in 0 .. W
            BY <1>1, <3>1, <3>5
          <5>2. Len(Nodes(log, l)) = 0
            BY <1>1, <3>1, <3>5, <4>2, <5>1, NoNodesAbove
          <5>3. TileWidth * i < 0 /\ TileWidth * i \in Nat
            BY <2>2, <3>1, <5>2, TileWidthType DEF TilesOf
          <5> QED
            BY <5>3
        <4>3. CASE ~(above <= W)
          BY <1>1, <3>1, <3>5, <4>3
        <4> QED
          BY <4>1, <4>2, <4>3
      <3> QED
        BY <1>1, <3>1, <3>2, <3>3, <3>4, <3>5
    <2> QED
      BY <2>3, <2>4
  <1> QED
    BY <1>3, <1>4, <1>5, QuietStep

LEMMA CheckpointKeeps ==
    ASSUME OutputInv, WriteCheckpoint
    PROVE  OutputInv'
  <1> DEFINE log == config.entries
  <1>1. log \in Seq(Nat)
    BY DEF OutputInv, OutputTypeOK
  <1>2. IsPath(checkpointPath)
    BY DEF IsPath
  <1>3. CASE FailAt(checkpointPath)
    BY <1>2, <1>3, FailKeeps
  <1>4. CASE /\ WriteFile(checkpointPath, Checkpoint) /\ stage' = "landmarks"
             /\ published' = log /\ diverged' = FALSE /\ torn' = FALSE
             /\ UNCHANGED <<config, level, tile, runs>>
    <2>1. files' = Written(files, checkpointPath, Checkpoint)
      BY <1>4 DEF WriteFile, Written
    <2>2. OutputTypeOK'
      BY <1>4 DEF OutputInv, OutputTypeOK
    <2>3. PathsAreKnown'
      BY <1>2, <2>1, WrittenPaths DEF OutputInv
    <2>4. Progress'
      BY <1>4 DEF Progress, Passed
    <2>5. GoesOn'
      BY <1>1, <1>4 DEF GoesOn, IsBeginning
    <2>6. \A l \in Lists : \A i \in TilesOf(Len(ListOf(log, l))) :
             HoldsTile(files', log, l, i)
      <3>1. Harmless(checkpointPath, Checkpoint, log)
        <4> DEFINE data == Checkpoint
        <4> HIDE DEF data
        <4>1. Harmless(checkpointPath, data, log)
          BY <1>1, OthersAreHarmless
        <4> QED
          BY <4>1 DEF data
      <3>2. \A l \in Lists : \A i \in TilesOf(Len(ListOf(log, l))) :
               HoldsTile(files, log, l, i)
        BY DEF WriteCheckpoint, OutputInv, Progress, Passed
      <3> QED
        BY <2>1, <3>1, <3>2, HarmlessKeeps
    <2>7. /\ checkpointPath \in DOMAIN files'
          /\ files'[checkpointPath]
                = <<Len(log), SubtreeHash(NewStaticMerkleTree(log), 0, Len(log))>>
      <3>1. Checkpoint = <<Len(log), SubtreeHash(NewStaticMerkleTree(log), 0, Len(log))>>
        BY Zenon DEF Checkpoint, issuanceLog
      <3>2. checkpointPath \in DOMAIN files' /\ files'[checkpointPath] = Checkpoint
        BY <2>1, Zenon DEF Written
      <3> QED
        BY <3>1, <3>2
    <2>8. LogIn(files', log)
      BY <2>6, <2>7, Zenon DEF LogIn
    <2>9. PublishedLogIsReadable'
      BY <1>4, <2>8, Readable
    <2> QED
      BY <2>2, <2>3, <2>4, <2>5, <2>9 DEF OutputInv
  <1> QED
    BY <1>3, <1>4 DEF WriteCheckpoint

LEMMA LandmarksKeep ==
    ASSUME OutputInv, PrintLandmarks
    PROVE  OutputInv'
  <1>1. stage' \in {"done", "failed"} /\ UNCHANGED <<files, config, level, tile, history>>
    BY DEF PrintLandmarks
  <1>2. OutputTypeOK'
    BY <1>1 DEF OutputInv, OutputTypeOK, history
  <1>3. \A l, i : ~Passed(l, i)'
    BY <1>1 DEF Passed
  <1> QED
    BY <1>1, <1>2, <1>3, QuietStep

LEMMA OutputStep ==
    OutputInv /\ [OutputNext]_outputVars => OutputInv'
  <1> SUFFICES ASSUME OutputInv, [OutputNext]_outputVars PROVE OutputInv'
    OBVIOUS
  <1>1. CASE \E c \in Configs : StartRun(c)
    BY <1>1, StartingKeeps
  <1>2. CASE WriteCACertificate
    BY <1>2, CACertificateKeeps
  <1>3. CASE WriteCertificate
    BY <1>3, CertificateKeeps
  <1>4. CASE CertificatesWritten
    BY <1>4, CertificatesWrittenKeeps
  <1>5. CASE WriteEntries
    BY <1>5, EntriesKeep
  <1>6. CASE EntriesWritten
    BY <1>6, EntriesWrittenKeeps
  <1>7. CASE WriteTile
    BY <1>7, TileKeeps
  <1>8. CASE NextLevel
    BY <1>8, NextLevelKeeps
  <1>9. CASE WriteCheckpoint
    BY <1>9, CheckpointKeeps
  <1>10. CASE PrintLandmarks
    BY <1>10, LandmarksKeep
  <1>11. CASE UNCHANGED outputVars
    <2>1. UNCHANGED <<files, config, stage, level, tile, history>>
      BY <1>11 DEF outputVars, runVars
    <2>2. OutputTypeOK'
      BY <2>1 DEF OutputInv, OutputTypeOK, history
    <2>3. \A l, i : Passed(l, i)' <=> Passed(l, i)
      BY <2>1 DEF Passed
    <2> QED
      BY <2>1, <2>2, <2>3, QuietStep
  <1> QED
    BY <1>1, <1>2, <1>3, <1>4, <1>5, <1>6, <1>7, <1>8, <1>9, <1>10, <1>11 DEF OutputNext

LEMMA OutputStart == OutputInit => OutputInv
  <1> SUFFICES ASSUME OutputInit PROVE OutputInv
    OBVIOUS
  <1>1. /\ files = [path \in {} |-> Truncated]
        /\ config = [entries |-> <<>>, certs |-> <<>>] /\ stage = "done"
        /\ level = 0 /\ tile = 0 /\ published = NoLog /\ diverged = FALSE /\ torn = FALSE
    BY DEF OutputInit
  <1>2. OutputTypeOK
    <2>1. 0 \in 0 .. W /\ 0 % TileHeight = 0
      BY LevelZero
    <2>2. config.entries = <<>> /\ config.certs = <<>> /\ <<>> \in Seq(Nat)
      BY <1>1
    <2>3. diverged \in BOOLEAN /\ torn \in BOOLEAN
      BY <1>1, Zenon
    <2> QED
      BY <1>1, <2>1, <2>2, <2>3 DEF OutputTypeOK
  <1>3. PathsAreKnown
    BY <1>1 DEF PathsAreKnown
  <1>4. Progress
    BY <1>1 DEF Progress, Passed
  <1>5. GoesOn /\ PublishedLogIsReadable
    BY <1>1 DEF GoesOn, PublishedLogIsReadable
  <1> QED
    BY <1>2, <1>3, <1>4, <1>5 DEF OutputInv

\* Whatever runs there were into the directory, and wherever they ended other
\* than in the middle of a file, it holds the log whose checkpoint it has, as
\* long as later runs extend that one: the checkpoint is written when all tiles
\* are, and no tile is replaced by one with other content (generate.go:46-62,
\* 287-350).
THEOREM PublishedLogIsAlwaysReadable == OutputSpec => []PublishedLogIsReadable
  <1>1. OutputInv => PublishedLogIsReadable
    BY DEF OutputInv
  <1> QED
    BY <1>1, OutputStart, OutputStep, PTL DEF OutputSpec

\* No two files that runs write, for logs of any size, are such that one is
\* where the other needs a directory (generate.go:46-62, 296-301, 318-323).
THEOREM PathsNeverClash == OutputSpec => []PathsDoNotClash
  <1>1. OutputInv => PathsDoNotClash
    BY PathsDoNotNest DEF OutputInv, PathsAreKnown, PathsDoNotClash
  <1> QED
    BY <1>1, OutputStart, OutputStep, PTL DEF OutputSpec
=============================================================================
