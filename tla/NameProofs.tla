----------------------------- MODULE NameProofs -----------------------------
(*****************************************************************************)
(* Proofs about IDs and what is signed with them, for every width of a byte  *)
(* and of an arc: a name and its text determine each other, however long,    *)
(* and the same for patterns; groups signal what they should; an ID names    *)
(* one landmark; and a cosigned message is for one claim.                    *)
(*                                                                           *)
(* The codecs of arcs and of ranges have the same three laws (IsCodec): what *)
(* was written is read, and what can be read is what was written.  The loops *)
(* around them are dealt with once for both, in WrittenIsPrinted and         *)
(* PrintedIsWritten.                                                         *)
(*****************************************************************************)
EXTENDS MCNames, SubtreeProofs, SequenceTheorems

\* A digit and what is left of a number without it.
LEMMA Digits ==
    ASSUME NEW n \in Nat
    PROVE  /\ n \div Base \in Nat /\ n % Base \in 0 .. Base - 1
           /\ n = Base * (n \div Base) + (n % Base)
           /\ n # 0 => n \div Base < n
  <1>1. Base \in Nat \ {0} /\ Base >= 2
    BY WidthAssumption
  <1>2. /\ n \div Base \in Nat /\ n % Base \in Nat /\ n % Base < Base
        /\ n = Base * (n \div Base) + (n % Base)
    BY <1>1, DivMod
  <1>3. n # 0 => n \div Base < n
    <2> SUFFICES ASSUME n # 0, ~(n \div Base < n) PROVE FALSE
      OBVIOUS
    <2> DEFINE q == n \div Base
    <2>1. q \in Nat /\ q >= n /\ n > 0
      BY <1>2
    <2> HIDE DEF q
    <2>2. Base * q >= 2 * q
      BY <1>1, <2>1
    <2>3. Base * q <= n
      BY <1>1, <1>2, <2>1 DEF q
    <2>4. Base * q \in Nat
      BY <1>1, <2>1
    <2> QED
      BY <2>1, <2>2, <2>3, <2>4
  <1> QED
    BY <1>1, <1>2, <1>3

LEMMA DigitsUnique ==
    ASSUME NEW q \in Nat, NEW d \in 0 .. Base - 1
    PROVE  (q * Base + d) \div Base = q /\ (q * Base + d) % Base = d
  <1>1. Base \in Nat \ {0} /\ q * Base = Base * q
    BY WidthAssumption
  <1> QED
    BY <1>1, DivModUnique

LEMMA ByteIs ==
    /\ Base \in Nat \ {0, 1} /\ More = Base
    /\ \A b \in Byte : b \in Nat /\ b < 2 * Base
    /\ \A b \in Byte : b < More => b % More = b /\ b \in 0 .. Base - 1
    /\ \A b \in Byte : ~(b < More) => b = More + (b % More) /\ b % More \in 0 .. Base - 1
  <1>1. Base \in Nat \ {0, 1} /\ More = Base
    BY WidthAssumption DEF More
  <1>2. \A b \in Byte : b \in Nat /\ b < 2 * Base
    BY <1>1 DEF Byte
  <1>3. ASSUME NEW b \in Byte, b < Base PROVE b % Base = b
    <2>1. b = 0 * Base + b /\ b \in 0 .. Base - 1
      BY <1>1, <1>2, <1>3
    <2> QED
      BY <2>1, DigitsUnique
  <1>4. ASSUME NEW b \in Byte, ~(b < Base) PROVE b = Base + (b % Base)
    <2>1. b = 1 * Base + (b - Base) /\ b - Base \in 0 .. Base - 1
      BY <1>1, <1>2, <1>4
    <2>2. b % Base = b - Base
      BY <2>1, DigitsUnique
    <2> QED
      BY <1>1, <1>2, <2>2
  <1>5. \A b \in Byte : b % Base \in 0 .. Base - 1
    BY <1>2, Digits
  <1> QED
    BY <1>1, <1>2, <1>3, <1>4, <1>5

LEMMA LeadingBytesAre ==
    /\ LeadingBytes \in [Nat -> Seq(Byte)]
    /\ LeadingBytes[0] = <<>>
    /\ \A n \in Nat \ {0} :
          LeadingBytes[n] = Append(LeadingBytes[n \div Base], More + (n % Base))
  <1> DEFINE p == [n \in Nat |-> n \div Base]
             G == [x \in Nat \X Seq(Byte) |-> Append(x[2], More + (x[1] % Base))]
  <1>1. p \in [Nat -> Nat]
    BY Digits
  <1>2. \A n \in Nat : n # 0 => p[n] < n
    BY Digits
  <1>3. \A n \in Nat : More + (n % Base) \in Byte
    BY Digits, WidthAssumption DEF More, Byte
  <1>4. G \in [Nat \X Seq(Byte) -> Seq(Byte)]
    BY <1>3
  <1>5. <<>> \in Seq(Byte)
    OBVIOUS
  <1>6. \A n \in Nat, s \in Seq(Byte) : G[<<n, s>>] = Append(s, More + (n % Base))
    OBVIOUS
  <1>7. \A n \in Nat : p[n] = n \div Base
    OBVIOUS
  <1> HIDE DEF p, G
  <1>8. PICK f : IsRecursive(Seq(Byte), <<>>, p, G, f)
    BY <1>1, <1>2, <1>4, <1>5, RecursionExists
  <1>9. /\ f \in [Nat -> Seq(Byte)] /\ f[0] = <<>>
        /\ \A n \in Nat \ {0} : f[n] = G[<<n, f[p[n]]>>]
    BY <1>8 DEF IsRecursive
  <1>10. ASSUME NEW n \in Nat
         PROVE  f[n] = IF n = 0 THEN <<>> ELSE Append(f[n \div Base], More + (n % Base))
    <2>1. n \div Base \in Nat
      BY Digits
    <2>2. f[n \div Base] \in Seq(Byte)
      BY <1>9, <2>1
    <2> QED
      BY <1>6, <1>7, <1>9, <2>1, <2>2
  <1>11. f = [n \in Nat |-> IF n = 0 THEN <<>> ELSE Append(f[n \div Base], More + (n % Base))]
    BY <1>9, <1>10
  <1>12. LeadingBytes = [n \in Nat |-> IF n = 0 THEN <<>>
                            ELSE Append(LeadingBytes[n \div Base], More + (n % Base))]
    BY <1>11 DEF LeadingBytes
  <1>13. LeadingBytes[0] = <<>>
    BY <1>12
  <1>14. \A n \in Nat \ {0} :
            LeadingBytes[n] = Append(LeadingBytes[n \div Base], More + (n % Base))
    BY <1>12
  <1>15. \A n \in Nat : LeadingBytes[n] \in Seq(Byte)
    <2> DEFINE S == {k \in Nat : \A n \in 0 .. k : LeadingBytes[n] \in Seq(Byte)}
    <2>1. 0 \in S
      <3>1. \A n \in 0 .. 0 : n = 0
        OBVIOUS
      <3>2. LeadingBytes[0] \in Seq(Byte)
        BY <1>5, <1>13
      <3> QED
        BY <3>1, <3>2
    <2>2. ASSUME NEW k \in Nat, k \in S PROVE k + 1 \in S
      <3>1. ASSUME NEW n \in 0 .. k + 1 PROVE LeadingBytes[n] \in Seq(Byte)
        <4>1. CASE n <= k
          BY <2>2, <4>1
        <4>2. CASE n = k + 1
          <5>1. n \in Nat \ {0} /\ n \div Base \in 0 .. k
            BY <4>2, Digits
          <5>2. LeadingBytes[n \div Base] \in Seq(Byte)
            BY <2>2, <5>1
          <5>3. LeadingBytes[n] = Append(LeadingBytes[n \div Base], More + (n % Base))
            BY <1>14, <5>1
          <5> QED
            BY <1>3, <5>1, <5>2, <5>3
        <4> QED
          BY <4>1, <4>2
      <3> QED
        BY <3>1
    <2> HIDE DEF S
    <2>3. Nat \subseteq S
      BY <2>1, <2>2, NatInductionOnSets
    <2>4. \A n \in Nat : n \in 0 .. n
      OBVIOUS
    <2> QED
      BY <2>3, <2>4 DEF S
  <1>16. LeadingBytes \in [Nat -> Seq(Byte)]
    BY <1>12, <1>15
  <1> QED
    BY <1>13, <1>14, <1>16

\* The test of the shift is that the arc does not leave the integer.
LEMMA Fits ==
    ASSUME NEW r \in Arc
    PROVE  /\ ((r * Base) % ArcLimit) \div Base = r <=> r * Base < ArcLimit
           /\ r * Base < ArcLimit => (r * Base) % ArcLimit = r * Base
  <1> DEFINE x == r * Base
             y == x % ArcLimit
             q == x \div ArcLimit
  <1>1. Base \in Nat \ {0} /\ ArcLimit \in Nat \ {0} /\ r \in Nat /\ x \in Nat /\ x = Base * r
    BY WidthAssumption DEF Arc
  <1>2. q \in Nat /\ y \in Nat /\ y < ArcLimit /\ x = ArcLimit * q + y
    BY <1>1, DivMod
  <1>3. y \div Base \in Nat /\ y % Base \in Nat /\ y = Base * (y \div Base) + (y % Base)
    BY <1>1, <1>2, DivMod
  <1>4. CASE x < ArcLimit
    <2>1. x = ArcLimit * 0 + x
      BY <1>1
    <2>2. y = x
      BY <1>1, <1>4, <2>1, DivModUnique
    <2>3. x \div Base = r
      <3>1. x = r * Base + 0 /\ 0 \in 0 .. Base - 1
        BY <1>1
      <3> QED
        BY <1>1, <3>1, DigitsUnique
    <2> QED
      BY <1>4, <2>2, <2>3
  <1>5. CASE x >= ArcLimit
    <2> HIDE DEF x, y, q
    <2>1. q # 0
      BY <1>1, <1>2, <1>5
    <2>2. ArcLimit * q >= ArcLimit
      BY <1>1, <1>2, <2>1
    <2>3. y < x
      BY <1>1, <1>2, <2>2
    <2>4. y \div Base = r => y >= Base * r
      BY <1>1, <1>3
    <2> QED
      BY <1>1, <1>2, <1>5, <2>3, <2>4 DEF x, y
  <1> QED
    BY <1>1, <1>4, <1>5

\* One more digit is an arc again.
LEMMA ArcStep ==
    ASSUME NEW r \in Arc, NEW d \in 0 .. Base - 1
    PROVE  ((r * Base) % ArcLimit) + d \in Arc
  <1> DEFINE x == r * Base
             y == x % ArcLimit
             q == x \div ArcLimit
             k == ArcLimit \div Base
  <1>1. Base \in Nat \ {0} /\ ArcLimit \in Nat \ {0} /\ r \in Nat /\ x \in Nat /\ x = Base * r
    BY WidthAssumption DEF Arc
  <1>2. q \in Nat /\ y \in Nat /\ y < ArcLimit /\ x = ArcLimit * q + y
    BY <1>1, DivMod
  <1>3. k \in Nat /\ ArcLimit = Base * k
    BY <1>1, DivMod, WidthAssumption
  <1> HIDE DEF x, y, q, k
  <1> DEFINE c == r - k * q
  <1>4. c \in Int /\ y = Base * c
    <2>1. (Base * k) * q = Base * (k * q)
      BY <1>1, <1>2, <1>3
    <2>2. y = Base * r - Base * (k * q)
      BY <1>1, <1>2, <1>3, <2>1
    <2>3. k * q \in Nat
      BY <1>2, <1>3
    <2> QED
      BY <1>1, <2>2, <2>3
  <1> HIDE DEF c
  <1>5. c < k
    <2> SUFFICES ASSUME c >= k PROVE FALSE
      BY <1>3, <1>4
    <2>1. Base * c >= Base * k
      BY <1>1, <1>3, <1>4
    <2> QED
      BY <1>2, <1>3, <1>4, <2>1
  <1>6. Base * (c + 1) <= Base * k
    BY <1>1, <1>3, <1>4, <1>5
  <1>7. Base * (c + 1) = Base * c + Base
    BY <1>1, <1>4
  <1>8. y + d < ArcLimit
    BY <1>1, <1>2, <1>3, <1>4, <1>6, <1>7
  <1> QED
    BY <1>1, <1>2, <1>8 DEF Arc, x, y

-----------------------------------------------------------------------------

\* ret in parseBase128.
ArcAfter(in) ==
    CHOOSE ret : ret = [i \in 0 .. Len(in) |->
        IF i = 0 THEN 0 ELSE ((ret[i - 1] * Base) % ArcLimit) + (in[i] % More)]

LEMMA ArcAfterIs ==
    ASSUME NEW in \in Seq(Byte)
    PROVE  /\ ArcAfter(in)[0] = 0
           /\ \A i \in 0 .. Len(in) : ArcAfter(in)[i] \in Arc
           /\ \A i \in 1 .. Len(in) :
                 ArcAfter(in)[i] = ((ArcAfter(in)[i - 1] * Base) % ArcLimit) + (in[i] % More)
  <1> DEFINE d == [i \in Nat |-> IF i \in 1 .. Len(in) THEN in[i] % More ELSE 0]
             G == [x \in Nat \X Arc |-> ((x[2] * Base) % ArcLimit) + d[x[1]]]
  <1>1. \A i \in Nat : d[i] \in 0 .. Base - 1
    <2> TAKE i \in Nat
    <2>1. i \in 1 .. Len(in) => in[i] \in Byte
      OBVIOUS
    <2> QED
      BY <2>1, ByteIs, Digits, WidthAssumption DEF More
  <1>2. \A i \in 1 .. Len(in) : d[i] = in[i] % More
    OBVIOUS
  <1> HIDE DEF d
  <1>3. \A i \in Nat, r \in Arc : G[<<i, r>>] = ((r * Base) % ArcLimit) + d[i]
    BY Zenon
  <1>4. G \in [Nat \X Arc -> Arc]
    BY <1>1, ArcStep
  <1>5. 0 \in Arc
    BY WidthAssumption DEF Arc
  <1> HIDE DEF G
  <1>15. PICK f : IsStepwise(Arc, 0, G, f)
    BY <1>4, <1>5, StepsExist
  <1>6. /\ f \in [Nat -> Arc] /\ f[0] = 0
        /\ \A n \in Nat \ {0} : f[n] = G[<<n, f[n - 1]>>]
    BY <1>15 DEF IsStepwise
  <1> DEFINE g == [i \in 0 .. Len(in) |-> f[i]]
  <1>7. g[0] = 0
    BY <1>6
  <1>8. ASSUME NEW i \in 1 .. Len(in)
        PROVE  g[i] = ((g[i - 1] * Base) % ArcLimit) + (in[i] % More)
    <2>1. i \in Nat \ {0} /\ i - 1 \in Nat /\ i - 1 \in 0 .. Len(in) /\ i \in 0 .. Len(in)
      OBVIOUS
    <2>2. g[i - 1] = f[i - 1] /\ g[i] = f[i] /\ f[i - 1] \in Arc
      BY <1>6, <2>1
    <2>3. f[i] = G[<<i, f[i - 1]>>]
      BY <1>6, <2>1
    <2> HIDE DEF g
    <2> QED
      BY <1>2, <1>3, <2>1, <2>2, <2>3
  <1>9. \A i \in 0 .. Len(in) : g[i] \in Arc
    BY <1>6
  <1>10. g = [i \in 0 .. Len(in) |->
                IF i = 0 THEN 0 ELSE ((g[i - 1] * Base) % ArcLimit) + (in[i] % More)]
    <2>1. \A i \in 0 .. Len(in) : i # 0 => i \in 1 .. Len(in)
      OBVIOUS
    <2>2. \A i \in 0 .. Len(in) :
             g[i] = IF i = 0 THEN 0 ELSE ((g[i - 1] * Base) % ArcLimit) + (in[i] % More)
      BY <1>7, <1>8, <2>1
    <2>3. g = [i \in 0 .. Len(in) |-> g[i]]
      OBVIOUS
    <2> HIDE DEF g
    <2> QED
      BY <2>2, <2>3, Zenon
  <1> DEFINE a == ArcAfter(in)
  <1> HIDE DEF g
  <1>11. a = [i \in 0 .. Len(in) |->
                IF i = 0 THEN 0 ELSE ((a[i - 1] * Base) % ArcLimit) + (in[i] % More)]
    BY <1>10 DEF ArcAfter
  <1> HIDE DEF a
  <1>12. a[0] = 0
    BY <1>11
  <1>13. \A i \in 1 .. Len(in) : a[i] = ((a[i - 1] * Base) % ArcLimit) + (in[i] % More)
    <2> TAKE i \in 1 .. Len(in)
    <2>1. i \in 0 .. Len(in) /\ i # 0
      OBVIOUS
    <2> QED
      BY <1>11, <2>1
  <1>14. \A i \in 0 .. Len(in) : a[i] \in Arc
    <2> DEFINE S == {i \in Nat : i <= Len(in) => a[i] \in Arc}
    <2>1. 0 \in S
      BY <1>5, <1>12
    <2>2. ASSUME NEW i \in Nat, i \in S PROVE i + 1 \in S
      <3> SUFFICES ASSUME i + 1 <= Len(in) PROVE a[i + 1] \in Arc
        OBVIOUS
      <3>1. a[i] \in Arc /\ i + 1 \in 1 .. Len(in) /\ (i + 1) - 1 = i
        BY <2>2
      <3>2. a[i + 1] = ((a[i] * Base) % ArcLimit) + d[i + 1]
        BY <1>2, <1>13, <3>1
      <3> QED
        BY <1>1, <3>1, <3>2, ArcStep
    <2> HIDE DEF S
    <2>3. Nat \subseteq S
      BY <2>1, <2>2, NatInductionOnSets
    <2> QED
      BY <2>3 DEF S
  <1> QED
    BY <1>12, <1>13, <1>14 DEF a

\* The byte that ends the first arc of in.
EndsAt(in, n) ==
    /\ n \in 1 .. Len(in) /\ in[n] < More
    /\ \A i \in 1 .. n - 1 : ~(in[i] < More)

\* What is read, if it is.
LEMMA ParseIs ==
    ASSUME NEW in \in Seq(Byte)
    PROVE  /\ \A n : EndsAt(in, n) =>
                 parseBase128(in) =
                    IF in[1] # More /\ \A i \in 0 .. n - 1 : ArcAfter(in)[i] * Base < ArcLimit
                    THEN [ok |-> TRUE, value |-> ArcAfter(in)[n],
                          rest |-> SubSeq(in, n + 1, Len(in))]
                    ELSE Failed
           /\ (\A n : ~EndsAt(in, n)) => parseBase128(in) = Failed
  <1> DEFINE a == ArcAfter(in)
             ends == {i \in DOMAIN in : in[i] < More}
             n == CHOOSE i \in ends : \A j \in ends : i <= j
             fits(i) == ((a[i] * Base) % ArcLimit) \div Base = a[i]
  <1>1. parseBase128(in) =
            IF in # <<>> /\ in[1] # More /\ ends # {} /\ \A i \in 0 .. n - 1 : fits(i)
            THEN [ok |-> TRUE, value |-> a[n], rest |-> SubSeq(in, n + 1, Len(in))]
            ELSE Failed
    BY DEF parseBase128, ArcAfter
  <1>2. DOMAIN in = 1 .. Len(in) /\ \A i \in 1 .. Len(in) : in[i] \in Nat
    BY ByteIs
  <1>3. More \in Nat
    BY WidthAssumption DEF More
  <1>4. ASSUME NEW m, EndsAt(in, m)
        PROVE  /\ ends # {} /\ in # <<>> /\ n = m
               /\ \A i \in 0 .. m - 1 : fits(i) <=> a[i] * Base < ArcLimit
    <2>1. m \in ends /\ m \in Nat /\ in # <<>>
      BY <1>2, <1>4 DEF EndsAt
    <2>2. \A j \in ends : m <= j
      BY <1>2, <1>4 DEF EndsAt
    <2>3. \A i \in ends : i \in Nat
      BY <1>2
    <2>4. n \in ends /\ \A j \in ends : n <= j
      BY <2>1, <2>2
    <2>5. n = m
      BY <2>1, <2>2, <2>3, <2>4
    <2>6. \A i \in 0 .. m - 1 : i \in 0 .. Len(in)
      BY <1>4 DEF EndsAt
    <2>7. \A i \in 0 .. m - 1 : fits(i) <=> a[i] * Base < ArcLimit
      BY <2>6, Fits, ArcAfterIs
    <2> QED
      BY <2>1, <2>5, <2>7
  <1>5. ASSUME \A m : ~EndsAt(in, m)
        PROVE  ends = {}
    <2>1. ASSUME NEW m \in ends PROVE FALSE
      <3> DEFINE P(k) == k \in ends
                 E == {k \in Nat : k \in ends}
      <3>1. E # {} /\ E \subseteq Nat
        BY <1>2
      <3>2. PICK k \in E : \A j \in E : k <= j
        BY <3>1, HasLeast
      <3>3. EndsAt(in, k)
        BY <1>2, <1>3, <3>2 DEF EndsAt
      <3> QED
        BY <1>5, <3>3
    <2> QED
      BY <2>1
  <1> HIDE DEF a, n, ends, fits
  <1>6. ASSUME NEW m, EndsAt(in, m)
        PROVE  parseBase128(in) =
                    IF in[1] # More /\ \A i \in 0 .. m - 1 : a[i] * Base < ArcLimit
                    THEN [ok |-> TRUE, value |-> a[m], rest |-> SubSeq(in, m + 1, Len(in))]
                    ELSE Failed
    <2>1. in # <<>> /\ ends # {} /\ n = m
      BY <1>4, <1>6
    <2>2. (\A i \in 0 .. n - 1 : fits(i)) <=> \A i \in 0 .. m - 1 : a[i] * Base < ArcLimit
      BY <1>4, <1>6, <2>1
    <2> QED
      BY <1>1, <2>1, <2>2, Zenon
  <1>7. (\A m : ~EndsAt(in, m)) => parseBase128(in) = Failed
    BY <1>1, <1>5
  <1> QED
    BY <1>6, <1>7 DEF a

LEMMA LastOrBefore ==
    ASSUME NEW k \in Nat
    PROVE  (\A i \in 0 .. k : i = k \/ i \in 0 .. k - 1)
           /\ (\A i \in 1 .. k + 1 : i = k + 1 \/ i \in 1 .. k)
  OBVIOUS

\* What is left of an arc without a digit is an arc, and has room for it.
LEMMA ArcWithoutDigit ==
    ASSUME NEW v \in Arc
    PROVE  /\ v \div Base \in Arc /\ (v \div Base) * Base < ArcLimit
           /\ (v \div Base) * Base = Base * (v \div Base)
  <1> DEFINE q == v \div Base
  <1>1. v \in Nat /\ v < ArcLimit /\ Base \in Nat \ {0, 1} /\ ArcLimit \in Nat
    BY WidthAssumption, ByteIs DEF Arc
  <1>2. q \in Nat /\ v % Base \in Nat /\ v = Base * q + (v % Base)
    BY <1>1, Digits
  <1> HIDE DEF q
  <1>3. Base * q <= v /\ Base * q = q * Base /\ Base * q \in Nat
    BY <1>1, <1>2
  <1>4. Base * q >= q
    BY <1>1, <1>2
  <1>5. q < ArcLimit
    BY <1>1, <1>2, <1>3, <1>4
  <1> QED
    BY <1>1, <1>2, <1>3, <1>5 DEF q, Arc

\* Of bytes that begin with those of a number, the number is read.
LeadingAreRead(in, u) ==
    LET l == LeadingBytes[u]
    IN  Len(l) <= Len(in) /\ (\A i \in 1 .. Len(l) : in[i] = l[i]) =>
            /\ ArcAfter(in)[Len(l)] = u
            /\ \A i \in 0 .. Len(l) - 1 : ArcAfter(in)[i] * Base < ArcLimit
            /\ \A i \in 1 .. Len(l) : ~(l[i] < More)
            /\ u # 0 <=> Len(l) # 0
            /\ Len(l) # 0 => l[1] # More

LEMMA LeadingAreAlwaysRead ==
    ASSUME NEW in \in Seq(Byte)
    PROVE  \A u \in Arc : LeadingAreRead(in, u)
  <1> DEFINE S == {k \in Nat : \A u \in 0 .. k : u \in Arc => LeadingAreRead(in, u)}
  <1>1. LeadingAreRead(in, 0)
    <2>1. LeadingBytes[0] = <<>> /\ Len(<<>>) = 0
      BY LeadingBytesAre
    <2>2. ArcAfter(in)[0] = 0
      BY ArcAfterIs
    <2> QED
      BY <2>1, <2>2 DEF LeadingAreRead
  <1>2. ASSUME NEW u \in Nat \ {0}, u \in Arc, LeadingAreRead(in, u \div Base)
        PROVE  LeadingAreRead(in, u)
    <2> DEFINE q == u \div Base
               d == u % Base
               m == LeadingBytes[q]
               l == LeadingBytes[u]
               a == ArcAfter(in)
    <2>1. q \in Nat /\ d \in 0 .. Base - 1 /\ u = Base * q + d /\ q < u
      BY Digits
    <2>2. m \in Seq(Byte) /\ l = Append(m, More + d)
      BY <2>1, LeadingBytesAre
    <2> SUFFICES ASSUME Len(l) <= Len(in), \A i \in 1 .. Len(l) : in[i] = l[i]
                 PROVE  /\ a[Len(l)] = u
                        /\ \A i \in 0 .. Len(l) - 1 : a[i] * Base < ArcLimit
                        /\ \A i \in 1 .. Len(l) : ~(l[i] < More)
                        /\ u # 0 <=> Len(l) # 0
                        /\ Len(l) # 0 => l[1] # More
      BY DEF LeadingAreRead
    <2> HIDE DEF q, d, m, l, a
    <2>3. Base \in Nat \ {0, 1} /\ More = Base
      BY ByteIs
    <2>4. /\ Len(m) \in Nat /\ Len(l) = Len(m) + 1 /\ l[Len(m) + 1] = More + d
          /\ \A i \in 1 .. Len(m) : l[i] = m[i]
      BY <2>1, <2>2, <2>3
    <2>5. \A i \in 1 .. Len(m) : i \in 1 .. Len(l)
      BY <2>4
    <2>6. Len(m) <= Len(in) /\ \A i \in 1 .. Len(m) : in[i] = m[i]
      BY <2>4, <2>5
    <2>7. /\ a[Len(m)] = q
          /\ \A i \in 0 .. Len(m) - 1 : a[i] * Base < ArcLimit
          /\ \A i \in 1 .. Len(m) : ~(m[i] < More)
          /\ q # 0 <=> Len(m) # 0
          /\ Len(m) # 0 => m[1] # More
      BY <1>2, <2>6, Zenon DEF LeadingAreRead, a, m, q
    <2>8. q \in Arc /\ q * Base < ArcLimit /\ q * Base = Base * q
      BY <1>2, ArcWithoutDigit DEF q
    <2>9. Len(m) + 1 \in 1 .. Len(in) /\ in[Len(m) + 1] = More + d /\ (Len(m) + 1) - 1 = Len(m)
      BY <2>4
    <2>10. (More + d) % More = d
      <3>1. More + d = 1 * Base + d
        BY <2>3
      <3> QED
        BY <2>1, <2>3, <3>1, DigitsUnique
    <2>11. a[Len(l)] = u
      <3>1. a[Len(m) + 1] = ((a[Len(m)] * Base) % ArcLimit) + (in[Len(m) + 1] % More)
        BY <2>9, ArcAfterIs DEF a
      <3>2. a[Len(m) + 1] = q * Base + d
        BY <2>7, <2>8, <2>9, <2>10, <3>1, Fits
      <3> QED
        BY <2>1, <2>4, <2>8, <3>2
    <2>12. \A i \in 0 .. Len(l) - 1 : a[i] * Base < ArcLimit
      <3>1. \A i \in 0 .. Len(l) - 1 : i = Len(m) \/ i \in 0 .. Len(m) - 1
        BY <2>4, LastOrBefore
      <3> QED
        BY <2>7, <2>8, <3>1
    <2>13. \A i \in 1 .. Len(l) : ~(l[i] < More)
      <3>1. \A i \in 1 .. Len(l) : i = Len(m) + 1 \/ i \in 1 .. Len(m)
        BY <2>4
      <3>2. ~(More + d < More)
        BY <2>1, <2>3
      <3> QED
        BY <2>4, <2>7, <3>1, <3>2
    <2>14. l[1] # More
      <3>1. CASE Len(m) = 0
        BY <2>1, <2>3, <2>4, <2>7, <3>1
      <3>2. CASE Len(m) # 0
        <4>1. 1 \in 1 .. Len(m)
          BY <2>4, <3>2
        <4> QED
          BY <2>4, <2>7, <3>2, <4>1
      <3> QED
        BY <3>1, <3>2
    <2> QED
      BY <2>4, <2>11, <2>12, <2>13, <2>14
  <1>3. 0 \in S
    BY <1>1
  <1>4. ASSUME NEW k \in Nat, k \in S PROVE k + 1 \in S
    <2>1. ASSUME NEW u \in 0 .. k + 1, u \in Arc PROVE LeadingAreRead(in, u)
      <3>1. CASE u <= k
        BY <1>4, <2>1, <3>1
      <3>2. CASE u = k + 1
        <4>1. u \in Nat \ {0} /\ u \div Base \in 0 .. k
          <5>2. u \in Nat /\ u # 0
            BY <3>2
          <5>1. u \div Base \in Nat /\ u \div Base < u
            BY <5>2, Digits
          <5> QED
            BY <3>2, <5>1, <5>2
        <4>2. u \div Base \in Arc
          BY <2>1, ArcWithoutDigit
        <4>3. LeadingAreRead(in, u \div Base)
          BY <1>4, <4>1, <4>2
        <4> QED
          BY <1>2, <2>1, <4>1, <4>3
      <3> QED
        BY <3>1, <3>2
    <2> QED
      BY <2>1
  <1> HIDE DEF S
  <1>5. Nat \subseteq S
    BY <1>3, <1>4, NatInductionOnSets
  <1>6. \A u \in Arc : u \in Nat /\ u \in 0 .. u
    BY WidthAssumption DEF Arc
  <1> QED
    BY <1>5, <1>6 DEF S

\* The bytes of an arc.
ArcBytes(v) == Append(LeadingBytes[v \div Base], v % Base)

LEMMA ArcBytesAre ==
    ASSUME NEW v \in Nat
    PROVE  /\ ArcBytes(v) \in Seq(Byte) /\ ArcBytes(v) # <<>>
           /\ \A dst : appendBase128(dst, v) = dst \o ArcBytes(v)
  <1>1. v \div Base \in Nat /\ v % Base \in Byte
    BY Digits, ByteIs DEF Byte
  <1>2. LeadingBytes[v \div Base] \in Seq(Byte)
    BY <1>1, LeadingBytesAre
  <1> QED
    BY <1>1, <1>2 DEF ArcBytes, appendBase128

\* What was encoded is read, and what follows it is left.
LEMMA EncodedArcIsRead ==
    ASSUME NEW v \in Arc, NEW s \in Seq(Byte)
    PROVE  parseBase128(ArcBytes(v) \o s) = [ok |-> TRUE, value |-> v, rest |-> s]
  <1> DEFINE u == v \div Base
             d == v % Base
             l == LeadingBytes[u]
             in == ArcBytes(v) \o s
             n == Len(l) + 1
             a == ArcAfter(in)
  <1>1. v \in Nat /\ v < ArcLimit /\ Base \in Nat \ {0, 1} /\ More = Base
    BY WidthAssumption, ByteIs DEF Arc
  <1>2. u \in Nat /\ d \in 0 .. Base - 1 /\ v = Base * u + d
    BY <1>1, Digits
  <1>3. l \in Seq(Byte) /\ d \in Byte
    <2>1. d \in Byte
      BY <1>1, <1>2 DEF Byte
    <2> QED
      BY <1>2, <2>1, LeadingBytesAre
  <1>4. ArcBytes(v) = Append(l, d)
    BY DEF ArcBytes
  <1> HIDE DEF u, d, l
  <1>5. /\ in \in Seq(Byte) /\ Len(in) = n + Len(s) /\ n \in Nat \ {0} /\ Len(s) \in Nat
        /\ in[n] = d /\ \A i \in 1 .. Len(l) : in[i] = l[i]
    BY <1>3, <1>4
  <1>6. SubSeq(in, n + 1, Len(in)) = s
    <2>1. \A i \in 1 .. Len(s) : in[n + i] = s[i]
      BY <1>3, <1>4
    <2> HIDE DEF in, n
    <2>2. \A i \in n + 1 .. Len(in) : in[i] \in Byte
      BY <1>5
    <2>3. /\ SubSeq(in, n + 1, Len(in)) \in Seq(Byte)
          /\ Len(SubSeq(in, n + 1, Len(in))) = Len(s)
          /\ \A i \in 1 .. Len(s) : SubSeq(in, n + 1, Len(in))[i] = in[n + i]
      BY <1>5, <2>2
    <2> QED
      BY <2>1, <2>3, SeqEqual
  <1> HIDE DEF in, n
  <1>7. u \in Arc /\ u * Base < ArcLimit /\ u * Base = Base * u
    BY ArcWithoutDigit DEF u
  <1>8. /\ a[Len(l)] = u
        /\ \A i \in 0 .. Len(l) - 1 : a[i] * Base < ArcLimit
        /\ \A i \in 1 .. Len(l) : ~(l[i] < More)
        /\ Len(l) # 0 => l[1] # More
    <2>1. LeadingAreRead(in, u)
      BY <1>5, <1>7, LeadingAreAlwaysRead
    <2>2. Len(l) <= Len(in)
      BY <1>3, <1>5 DEF n
    <2> QED
      BY <1>5, <2>1, <2>2, Zenon DEF LeadingAreRead, l
  <1>9. Len(l) \in Nat /\ n = Len(l) + 1 /\ n - 1 = Len(l)
    BY <1>3 DEF n
  <1>10. EndsAt(in, n)
    <2>1. \A i \in 1 .. n - 1 : ~(in[i] < More)
      BY <1>5, <1>8, <1>9
    <2>2. in[n] < More /\ n \in 1 .. Len(in)
      BY <1>1, <1>2, <1>5
    <2> QED
      BY <2>1, <2>2 DEF EndsAt
  <1>11. in[1] # More
    <2>1. CASE Len(l) = 0
      BY <1>1, <1>2, <1>5, <1>9, <2>1
    <2>2. CASE Len(l) # 0
      <3>1. 1 \in 1 .. Len(l)
        BY <1>9, <2>2
      <3> QED
        BY <1>5, <1>8, <2>2, <3>1
    <2> QED
      BY <2>1, <2>2
  <1>12. \A i \in 0 .. n - 1 : a[i] * Base < ArcLimit
    <2>1. \A i \in 0 .. n - 1 : i = Len(l) \/ i \in 0 .. Len(l) - 1
      BY <1>9, LastOrBefore
    <2> QED
      BY <1>7, <1>8, <2>1
  <1>13. a[n] = v
    <2>1. n \in 1 .. Len(in)
      BY <1>5
    <2>2. a[n] = ((u * Base) % ArcLimit) + (in[n] % More)
      BY <1>5, <1>8, <1>9, <2>1, ArcAfterIs
    <2>3. in[n] % More = d
      BY <1>1, <1>2, <1>3, <1>5, ByteIs
    <2> QED
      BY <1>2, <1>7, <2>2, <2>3, Fits
  <1> HIDE DEF a
  <1>14. parseBase128(in) = [ok |-> TRUE, value |-> a[n], rest |-> SubSeq(in, n + 1, Len(in))]
    BY <1>5, <1>10, <1>11, <1>12, ParseIs, Zenon DEF a
  <1> QED
    BY <1>6, <1>13, <1>14 DEF in

LEMMA MoreDigits ==
    ASSUME NEW r \in Nat \ {0}, NEW d \in 0 .. Base - 1
    PROVE  r * Base + d \in Nat \ {0}
  <1>1. Base \in Nat \ {0, 1}
    BY ByteIs
  <1>2. r * Base >= r /\ r * Base \in Nat
    BY <1>1
  <1> QED
    BY <1>1, <1>2

\* What is read was encoded, and what is left follows it.
LEMMA ReadArcIsEncoded ==
    ASSUME NEW in \in Seq(Byte), parseBase128(in).ok
    PROVE  /\ parseBase128(in).value \in Arc /\ parseBase128(in).rest \in Seq(Byte)
           /\ in = ArcBytes(parseBase128(in).value) \o parseBase128(in).rest
           /\ in # <<>> /\ in[1] # More
           /\ Len(parseBase128(in).rest) < Len(in)
  <1> DEFINE a == ArcAfter(in)
  <1>1. parseBase128(in) # Failed
    BY DEF Failed
  <1>2. PICK n : EndsAt(in, n)
    BY <1>1, ParseIs
  <1>3. /\ in[1] # More /\ \A i \in 0 .. n - 1 : a[i] * Base < ArcLimit
        /\ parseBase128(in) = [ok |-> TRUE, value |-> a[n], rest |-> SubSeq(in, n + 1, Len(in))]
    BY <1>1, <1>2, ParseIs, Zenon
  <1>4. /\ n \in 1 .. Len(in) /\ n \in Nat \ {0} /\ in[n] < More
        /\ \A i \in 1 .. n - 1 : ~(in[i] < More)
    BY <1>2 DEF EndsAt
  <1>5. \A i \in 1 .. Len(in) : in[i] \in Byte
    OBVIOUS
  <1>6. Base \in Nat \ {0, 1} /\ More = Base
    BY ByteIs
  <1> HIDE DEF a
  <1>7. a[0] = 0 /\ \A i \in 0 .. Len(in) : a[i] \in Arc /\ a[i] \in Nat
    BY ArcAfterIs, WidthAssumption DEF a, Arc
  <1>8. ASSUME NEW i \in 1 .. n
        PROVE  /\ in[i] % More \in 0 .. Base - 1 /\ a[i - 1] \in Nat
               /\ a[i] = a[i - 1] * Base + (in[i] % More)
               /\ a[i] \div Base = a[i - 1] /\ a[i] % Base = in[i] % More
    <2>1. i \in 1 .. Len(in) /\ i - 1 \in 0 .. Len(in) /\ i - 1 \in 0 .. n - 1
      BY <1>4
    <2>2. a[i - 1] * Base < ArcLimit /\ a[i - 1] \in Arc /\ a[i - 1] \in Nat
      BY <1>3, <1>7, <2>1
    <2>3. a[i] = ((a[i - 1] * Base) % ArcLimit) + (in[i] % More)
      BY <2>1, ArcAfterIs DEF a
    <2>4. a[i] = a[i - 1] * Base + (in[i] % More)
      BY <2>2, <2>3, Fits
    <2>5. in[i] % More \in 0 .. Base - 1
      <3>1. in[i] \in Byte
        BY <1>5, <2>1
      <3> QED
        BY <1>6, <3>1, ByteIs
    <2> QED
      BY <2>2, <2>4, <2>5, DigitsUnique
  <1>9. \A k \in Nat : k < n => LeadingBytes[a[k]] = SubSeq(in, 1, k) /\ (k # 0 => a[k] # 0)
    <2> DEFINE S == {k \in Nat : k < n =>
                        LeadingBytes[a[k]] = SubSeq(in, 1, k) /\ (k # 0 => a[k] # 0)}
    <2>1. 0 \in S
      <3>1. SubSeq(in, 1, 0) = <<>>
        BY SubSeqEmpty
      <3> QED
        BY <1>7, <3>1, LeadingBytesAre
    <2>2. ASSUME NEW k \in Nat, k \in S PROVE k + 1 \in S
      <3> SUFFICES ASSUME k + 1 < n
                   PROVE  LeadingBytes[a[k + 1]] = SubSeq(in, 1, k + 1) /\ a[k + 1] # 0
        OBVIOUS
      <3> DEFINE d == in[k + 1] % More
      <3>1. LeadingBytes[a[k]] = SubSeq(in, 1, k) /\ (k # 0 => a[k] # 0)
        BY <1>4, <2>2
      <3>2. k + 1 \in 1 .. n /\ (k + 1) - 1 = k /\ k + 1 \in 1 .. Len(in) /\ k + 1 \in 1 .. n - 1
            /\ k \in 0 .. Len(in) /\ k + 1 \in 0 .. Len(in)
        BY <1>4
      <3>3. /\ d \in 0 .. Base - 1 /\ a[k] \in Nat /\ a[k + 1] = a[k] * Base + d
            /\ a[k + 1] \div Base = a[k] /\ a[k + 1] % Base = d
        BY <1>8, <3>2
      <3>4. in[k + 1] \in Byte /\ ~(in[k + 1] < More)
        BY <1>4, <1>5, <3>2
      <3>5. in[k + 1] = More + d
        BY <3>4, ByteIs
      <3> HIDE DEF d
      <3>6. a[k + 1] # 0 /\ a[k + 1] \in Nat
        <4>1. CASE k = 0
          <5>1. d # 0
            BY <1>3, <1>6, <3>3, <3>5, <4>1
          <5>2. a[k + 1] = d
            BY <1>6, <1>7, <3>3, <4>1
          <5> QED
            BY <3>3, <5>1, <5>2
        <4>2. CASE k # 0
          <5>1. a[k] \in Nat \ {0}
            BY <3>1, <3>3, <4>2
          <5> QED
            BY <3>3, <5>1, MoreDigits
        <4> QED
          BY <4>1, <4>2
      <3>7. LeadingBytes[a[k + 1]] = Append(LeadingBytes[a[k]], More + d)
        BY <3>3, <3>6, LeadingBytesAre
      <3>8. SubSeq(in, 1, k + 1) = Append(SubSeq(in, 1, k), in[k + 1])
        BY <3>2
      <3> QED
        BY <3>1, <3>5, <3>6, <3>7, <3>8
    <2> HIDE DEF S
    <2>3. Nat \subseteq S
      BY <2>1, <2>2, NatInductionOnSets
    <2> QED
      BY <2>3 DEF S
  <1>10. ArcBytes(a[n]) = SubSeq(in, 1, n)
    <2>1. n \in 1 .. n /\ n - 1 \in Nat /\ n - 1 < n /\ n \in 1 .. Len(in)
      BY <1>4
    <2>2. a[n] \div Base = a[n - 1] /\ a[n] % Base = in[n] % More
      BY <1>8, <2>1
    <2>3. in[n] % More = in[n]
      <3>1. in[n] \in Byte
        BY <1>5, <2>1
      <3> QED
        BY <1>4, <3>1, ByteIs
    <2>4. LeadingBytes[a[n - 1]] = SubSeq(in, 1, n - 1)
      BY <1>9, <2>1
    <2>5. SubSeq(in, 1, n) = Append(SubSeq(in, 1, n - 1), in[n])
      BY <2>1
    <2> QED
      BY <2>2, <2>3, <2>4, <2>5 DEF ArcBytes
  <1>11. /\ SubSeq(in, n + 1, Len(in)) \in Seq(Byte)
         /\ Len(SubSeq(in, n + 1, Len(in))) < Len(in)
    <2>1. \A i \in n + 1 .. Len(in) : in[i] \in Byte
      BY <1>4, <1>5
    <2> QED
      BY <1>4, <2>1
  <1>12. in = SubSeq(in, 1, n) \o SubSeq(in, n + 1, Len(in))
    <2>1. SubSeq(in, 1, Len(in)) = in
      BY SubSeqFull
    <2>2. 1 \in 1 .. Len(in) + 1 /\ n \in 1 - 1 .. Len(in) /\ Len(in) \in n .. Len(in)
      BY <1>4
    <2> QED
      BY <2>1, <2>2, ConcatAdjacentSubSeq
  <1>13. a[n] \in Arc /\ in # <<>>
    BY <1>4, <1>7
  <1>14. /\ parseBase128(in).value = a[n]
         /\ parseBase128(in).rest = SubSeq(in, n + 1, Len(in))
    <2> DEFINE p == parseBase128(in)
               v == a[n]
               r == SubSeq(in, n + 1, Len(in))
    <2>1. p = [ok |-> TRUE, value |-> v, rest |-> r]
      BY <1>3
    <2> HIDE DEF p, v, r
    <2>2. p.value = v /\ p.rest = r
      BY <2>1
    <2> QED
      BY <2>2 DEF p, v, r
  <1> QED
    BY <1>3, <1>10, <1>11, <1>12, <1>13, <1>14, Zenon

-----------------------------------------------------------------------------

\* Values of V are written by E, and read by P, one after the other.
IsCodec(V, E, P) ==
    /\ E \in [V -> Seq(Byte)]
    /\ \A v \in V : E[v] # <<>>
    /\ \A v \in V, s \in Seq(Byte) :
          P[E[v] \o s] = [ok |-> TRUE, value |-> v, rest |-> s]
    /\ \A in \in Seq(Byte) : P[in].ok =>
          /\ P[in].value \in V /\ P[in].rest \in Seq(Byte)
          /\ in = E[P[in].value] \o P[in].rest
          /\ Len(P[in].rest) < Len(in)

WrittenAfter(E, t) ==
    CHOOSE w : w = [i \in 0 .. Len(t) |-> IF i = 0 THEN <<>> ELSE w[i - 1] \o E[t[i]]]

Written(E, t) == WrittenAfter(E, t)[Len(t)]

\* A loop that writes the values of t.
IsWriting(E, t, w) ==
    /\ w[0] = <<>>
    /\ \A i \in 1 .. Len(t) : w[i] = w[i - 1] \o E[t[i]]

IsWritingLoop(E, t, w) ==
    w = [i \in 0 .. Len(t) |-> IF i = 0 THEN <<>> ELSE w[i - 1] \o E[t[i]]]

LEMMA WritingExists ==
    ASSUME NEW V, NEW E \in [V -> Seq(Byte)], NEW t \in Seq(V)
    PROVE  /\ IsWritingLoop(E, t, WrittenAfter(E, t))
           /\ IsWriting(E, t, WrittenAfter(E, t))
           /\ \A i \in 0 .. Len(t) : WrittenAfter(E, t)[i] \in Seq(Byte)
           /\ \A w : IsWriting(E, t, w) => w[Len(t)] = Written(E, t)
  <1> DEFINE d == [i \in Nat |-> IF i \in 1 .. Len(t) THEN E[t[i]] ELSE <<>>]
             G == [x \in Nat \X Seq(Byte) |-> x[2] \o d[x[1]]]
  <1>1. \A i \in Nat : d[i] \in Seq(Byte)
    <2> TAKE i \in Nat
    <2>1. i \in 1 .. Len(t) => t[i] \in V /\ E[t[i]] \in Seq(Byte)
      OBVIOUS
    <2> QED
      BY <2>1
  <1>2. \A i \in 1 .. Len(t) : d[i] = E[t[i]]
    OBVIOUS
  <1> HIDE DEF d
  <1>3. \A i \in Nat, s \in Seq(Byte) : G[<<i, s>>] = s \o d[i]
    BY Zenon
  <1>4. G \in [Nat \X Seq(Byte) -> Seq(Byte)]
    BY <1>1
  <1>5. <<>> \in Seq(Byte)
    OBVIOUS
  <1> HIDE DEF G
  <1>6. PICK f : IsStepwise(Seq(Byte), <<>>, G, f)
    BY <1>4, <1>5, StepsExist
  <1>7. /\ f \in [Nat -> Seq(Byte)] /\ f[0] = <<>>
        /\ \A n \in Nat \ {0} : f[n] = G[<<n, f[n - 1]>>]
    BY <1>6 DEF IsStepwise
  <1> DEFINE g == [i \in 0 .. Len(t) |-> f[i]]
  <1>8. g[0] = <<>> /\ \A i \in 0 .. Len(t) : g[i] \in Seq(Byte)
    BY <1>7
  <1>9. ASSUME NEW i \in 1 .. Len(t)
        PROVE  g[i] = g[i - 1] \o E[t[i]]
    <2>1. i \in Nat \ {0} /\ i - 1 \in Nat /\ i - 1 \in 0 .. Len(t) /\ i \in 0 .. Len(t)
      OBVIOUS
    <2>2. g[i - 1] = f[i - 1] /\ g[i] = f[i] /\ f[i - 1] \in Seq(Byte)
      BY <1>7, <2>1
    <2>3. f[i] = G[<<i, f[i - 1]>>]
      BY <1>7, <2>1
    <2> HIDE DEF g
    <2> QED
      BY <1>2, <1>3, <2>1, <2>2, <2>3
  <1>10. g = [i \in 0 .. Len(t) |-> IF i = 0 THEN <<>> ELSE g[i - 1] \o E[t[i]]]
    <2>1. \A i \in 0 .. Len(t) : i # 0 => i \in 1 .. Len(t)
      OBVIOUS
    <2>2. \A i \in 0 .. Len(t) : g[i] = IF i = 0 THEN <<>> ELSE g[i - 1] \o E[t[i]]
      BY <1>8, <1>9, <2>1
    <2>3. g = [i \in 0 .. Len(t) |-> g[i]]
      OBVIOUS
    <2> HIDE DEF g
    <2> QED
      BY <2>2, <2>3, Zenon
  <1> HIDE DEF g
  <1>11. IsWriting(E, t, g)
    BY <1>8, <1>9 DEF IsWriting
  <1> DEFINE a == WrittenAfter(E, t)
  <1>12. a = [i \in 0 .. Len(t) |-> IF i = 0 THEN <<>> ELSE a[i - 1] \o E[t[i]]]
    BY <1>10 DEF WrittenAfter
  <1> HIDE DEF a
  <1>13. IsWriting(E, t, a)
    <2>1. a[0] = <<>>
      BY <1>12
    <2>2. \A i \in 1 .. Len(t) : a[i] = a[i - 1] \o E[t[i]]
      <3> TAKE i \in 1 .. Len(t)
      <3>1. i \in 0 .. Len(t) /\ i # 0
        OBVIOUS
      <3> QED
        BY <1>12, <3>1
    <2> QED
      BY <2>1, <2>2 DEF IsWriting
  <1>14. ASSUME NEW w, IsWriting(E, t, w) PROVE \A i \in 0 .. Len(t) : w[i] = g[i]
    <2>1. w[0] = g[0] /\ \A i \in 1 .. Len(t) : w[i - 1] = g[i - 1] => w[i] = g[i]
      BY <1>11, <1>14, Zenon DEF IsWriting
    <2>2. Len(t) \in Nat
      OBVIOUS
    <2> QED
      BY <2>1, <2>2, StepsUnique
  <1>15. \A i \in 0 .. Len(t) : a[i] = g[i]
    BY <1>13, <1>14
  <1>16. \A w : IsWriting(E, t, w) => w[Len(t)] = Written(E, t)
    <2>1. Len(t) \in 0 .. Len(t)
      OBVIOUS
    <2> QED
      BY <1>14, <1>15, <2>1, Zenon DEF Written, a
  <1> QED
    BY <1>8, <1>12, <1>13, <1>15, <1>16 DEF a, IsWritingLoop

\* What is written grows at its end.
LEMMA WrittenIs ==
    ASSUME NEW V, NEW E \in [V -> Seq(Byte)]
    PROVE  /\ Written(E, <<>>) = <<>>
           /\ \A t \in Seq(V) : Written(E, t) \in Seq(Byte)
           /\ \A t \in Seq(V), v \in V : Written(E, Append(t, v)) = Written(E, t) \o E[v]
  <1>1. <<>> \in Seq(V) /\ Len(<<>>) = 0
    OBVIOUS
  <1>2. Written(E, <<>>) = <<>>
    <2>1. IsWriting(E, <<>>, WrittenAfter(E, <<>>))
      BY <1>1, WritingExists
    <2> QED
      BY <1>1, <2>1, Zenon DEF IsWriting, Written
  <1>3. \A t \in Seq(V) : Written(E, t) \in Seq(Byte)
    <2> TAKE t \in Seq(V)
    <2>1. Len(t) \in 0 .. Len(t)
      OBVIOUS
    <2> QED
      BY <2>1, WritingExists DEF Written
  <1>4. ASSUME NEW t \in Seq(V), NEW v \in V
        PROVE  Written(E, Append(t, v)) = Written(E, t) \o E[v]
    <2> DEFINE u == Append(t, v)
               w == WrittenAfter(E, u)
    <2>1. /\ u \in Seq(V) /\ Len(u) = Len(t) + 1 /\ Len(t) \in Nat /\ u[Len(t) + 1] = v
          /\ \A i \in 1 .. Len(t) : u[i] = t[i] /\ i \in 1 .. Len(u)
          /\ Len(t) + 1 \in 1 .. Len(u) /\ (Len(t) + 1) - 1 = Len(t)
      OBVIOUS
    <2>2. IsWriting(E, u, w)
      BY <2>1, WritingExists
    <2> HIDE DEF u, w
    <2>3. IsWriting(E, t, w)
      BY <2>1, <2>2 DEF IsWriting
    <2>4. w[Len(t)] = Written(E, t)
      BY <2>3, WritingExists
    <2>5. w[Len(t) + 1] = w[Len(t)] \o E[v]
      BY <2>1, <2>2 DEF IsWriting
    <2> QED
      BY <2>1, <2>4, <2>5 DEF Written, w, u
  <1> QED
    BY <1>2, <1>3, <1>4

LEMMA AppendToConcat ==
    ASSUME NEW V, NEW v \in V, NEW s \in Seq(V), Len(s) # 0
    PROVE  LET n == Len(s) - 1
               f == SubSeq(s, 1, n)
           IN  /\ n \in Nat /\ f \in Seq(V) /\ Len(f) = n /\ s[n + 1] \in V
               /\ s = Append(f, s[n + 1]) /\ <<v>> \o s = Append(<<v>> \o f, s[n + 1])
  <1> DEFINE n == Len(s) - 1
             f == SubSeq(s, 1, n)
  <1>1. n \in Nat /\ Len(s) = n + 1 /\ n + 1 \in 1 .. Len(s)
    OBVIOUS
  <1> HIDE DEF n
  <1>2. f \in Seq(V) /\ Len(f) = n /\ \A i \in 1 .. n : f[i] = s[i]
    BY <1>1
  <1>3. s[n + 1] \in V
    BY <1>1
  <1> HIDE DEF f
  <1>4. s = Append(f, s[n + 1])
    <2>1. Append(f, s[n + 1]) \in Seq(V) /\ Len(Append(f, s[n + 1])) = n + 1
      BY <1>2, <1>3
    <2>2. \A i \in 1 .. n + 1 : s[i] = Append(f, s[n + 1])[i]
      BY <1>1, <1>2, <1>3
    <2> QED
      BY <1>1, <2>1, <2>2, SeqEqual
  <1> DEFINE e == s[n + 1]
  <1>5. <<v>> \o Append(f, e) = Append(<<v>> \o f, e)
    <2> HIDE DEF e
    <2> SUFFICES ASSUME e \in V PROVE <<v>> \o Append(f, e) = Append(<<v>> \o f, e)
      BY <1>3 DEF e
    <2>1. /\ <<v>> \o Append(f, e) \in Seq(V) /\ Append(<<v>> \o f, e) \in Seq(V)
          /\ Len(<<v>> \o Append(f, e)) = n + 2 /\ Len(Append(<<v>> \o f, e)) = n + 2
      BY <1>1, <1>2
    <2>2. \A i \in 1 .. n + 2 : (<<v>> \o Append(f, e))[i] = Append(<<v>> \o f, e)[i]
      BY <1>1, <1>2
    <2> QED
      BY <1>1, <2>1, <2>2, SeqEqual
  <1>6. <<v>> \o s = Append(<<v>> \o f, e)
    BY <1>4, <1>5
  <1> QED
    BY <1>1, <1>2, <1>3, <1>4, <1>6 DEF n, f

LEMMA BytesJoin ==
    \A a, b, c \in Seq(Byte) : (a \o b) \o c = a \o (b \o c)
  <1> TAKE a, b, c \in Seq(Byte)
  <1> QED
    BY ConcatAssociative

\* What is written begins with what its first value is written as, and every
\* value takes a byte at least.
LEMMA WrittenBegins ==
    ASSUME NEW V, NEW E \in [V -> Seq(Byte)]
    PROVE  /\ \A v \in V, s \in Seq(V) : Written(E, <<v>> \o s) = E[v] \o Written(E, s)
           /\ (\A v \in V : E[v] # <<>>) =>
                 \A s \in Seq(V) : Len(Written(E, s)) \in Nat /\ Len(s) <= Len(Written(E, s))
  <1> DEFINE A == {n \in Nat : \A v \in V, s \in Seq(V) : Len(s) = n =>
                      Written(E, <<v>> \o s) = E[v] \o Written(E, s)}
             B == {n \in Nat : \A s \in Seq(V) : Len(s) = n => Len(s) <= Len(Written(E, s))}
  <1>1. 0 \in A
    <2> SUFFICES ASSUME NEW v \in V, NEW s \in Seq(V), Len(s) = 0
                 PROVE  Written(E, <<v>> \o s) = E[v] \o Written(E, s)
      OBVIOUS
    <2>1. s = <<>> /\ <<v>> \o s = Append(<<>>, v) /\ <<>> \in Seq(V)
      OBVIOUS
    <2>2. Written(E, Append(<<>>, v)) = Written(E, <<>>) \o E[v] /\ Written(E, <<>>) = <<>>
      BY <2>1, WrittenIs
    <2>3. E[v] \in Seq(Byte)
      OBVIOUS
    <2>4. <<>> \o E[v] = E[v] /\ E[v] \o <<>> = E[v]
      BY <2>3
    <2> QED
      BY <2>1, <2>2, <2>4
  <1> HIDE DEF A
  <1>10. ASSUME NEW n \in Nat, n \in A, NEW v \in V, NEW s \in Seq(V), Len(s) = n + 1
         PROVE  Written(E, <<v>> \o s) = E[v] \o Written(E, s)
    <2> DEFINE f == SubSeq(s, 1, n)
               e == s[n + 1]
    <2>1. /\ f \in Seq(V) /\ Len(f) = n /\ e \in V
          /\ s = Append(f, e) /\ <<v>> \o s = Append(<<v>> \o f, e)
      <3>1. Len(s) - 1 = n /\ Len(s) # 0
        BY <1>10
      <3> QED
        BY <3>1, AppendToConcat
    <2> HIDE DEF f, e
    <2>2. Written(E, <<v>> \o f) = E[v] \o Written(E, f)
      BY <1>10, <2>1 DEF A
    <2>3. <<v>> \o f \in Seq(V)
      BY <2>1
    <2>4. /\ Written(E, Append(<<v>> \o f, e)) = Written(E, <<v>> \o f) \o E[e]
          /\ Written(E, Append(f, e)) = Written(E, f) \o E[e]
          /\ Written(E, f) \in Seq(Byte)
      BY <2>1, <2>3, WrittenIs
    <2>5. E[v] \in Seq(Byte) /\ E[e] \in Seq(Byte)
      BY <2>1
    <2>6. (E[v] \o Written(E, f)) \o E[e] = E[v] \o (Written(E, f) \o E[e])
      BY <2>4, <2>5, BytesJoin
    <2> QED
      BY <2>1, <2>2, <2>4, <2>6
  <1>2. ASSUME NEW n \in Nat, n \in A PROVE n + 1 \in A
    <2>1. n + 1 \in Nat
      OBVIOUS
    <2> QED
      BY <1>2, <1>10, <2>1, Zenon DEF A
  <1>3. 0 \in B
    <2> SUFFICES ASSUME NEW s \in Seq(V), Len(s) = 0 PROVE Len(s) <= Len(Written(E, s))
      OBVIOUS
    <2>1. Written(E, s) \in Seq(Byte)
      BY WrittenIs
    <2> QED
      BY <2>1
  <1>4. ASSUME \A v \in V : E[v] # <<>>, NEW n \in Nat, n \in B PROVE n + 1 \in B
    <2> SUFFICES ASSUME NEW s \in Seq(V), Len(s) = n + 1
                 PROVE  Len(s) <= Len(Written(E, s))
      OBVIOUS
    <2> DEFINE f == SubSeq(s, 1, n)
               e == s[n + 1]
    <2>1. f \in Seq(V) /\ Len(f) = n /\ e \in V /\ s = Append(f, e)
      <3>1. Len(s) - 1 = n /\ Len(s) # 0
        OBVIOUS
      <3> QED
        BY <3>1, AppendToConcat
    <2> HIDE DEF f, e
    <2>2. n <= Len(Written(E, f))
      BY <1>4, <2>1
    <2>3. Written(E, f) \in Seq(Byte) /\ Written(E, s) = Written(E, f) \o E[e]
      BY <2>1, WrittenIs
    <2>4. E[e] \in Seq(Byte) /\ E[e] # <<>>
      BY <1>4, <2>1
    <2>5. Len(E[e]) >= 1
      BY <2>4
    <2> QED
      BY <2>2, <2>3, <2>4, <2>5
  <1> HIDE DEF B
  <1>5. Nat \subseteq A
    BY <1>1, <1>2, NatInductionOnSets
  <1>6. (\A v \in V : E[v] # <<>>) => Nat \subseteq B
    BY <1>3, <1>4, NatInductionOnSets
  <1>7. \A s \in Seq(V) : Len(s) \in Nat /\ Len(Written(E, s)) \in Nat
    BY WrittenIs
  <1>8. ASSUME \A v \in V : E[v] # <<>>, NEW s \in Seq(V) PROVE Len(s) <= Len(Written(E, s))
    <2>1. Len(s) \in B
      BY <1>6, <1>7, <1>8
    <2> QED
      BY <2>1 DEF B
  <1>9. ASSUME NEW v \in V, NEW s \in Seq(V)
        PROVE  Written(E, <<v>> \o s) = E[v] \o Written(E, s)
    <2>1. Len(s) \in A
      BY <1>5, <1>7
    <2> QED
      BY <2>1 DEF A
  <1> QED
    BY <1>7, <1>8, <1>9

PrintNext(P, s) ==
    IF ~s.ok \/ s.rest = <<>> THEN s
    ELSE IF P[s.rest].ok
    THEN [ok |-> TRUE, text |-> Append(s.text, P[s.rest].value), rest |-> P[s.rest].rest]
    ELSE Failed

\* The loop of TextOf.
IsPrinting(P, b, at) ==
    /\ at[0] = [ok |-> TRUE, text |-> <<>>, rest |-> b]
    /\ \A k \in 1 .. Len(b) : at[k] = PrintNext(P, at[k - 1])

Printings(V) == {Failed} \cup [ok : {TRUE}, text : Seq(V), rest : Seq(Byte)]

LEMMA PrintNextIs ==
    ASSUME NEW V, NEW E, NEW P, IsCodec(V, E, P), NEW s \in Printings(V)
    PROVE  /\ PrintNext(P, s) \in Printings(V)
           /\ s.ok \in BOOLEAN /\ (s.ok <=> s # Failed)
           /\ s.ok => s.text \in Seq(V) /\ s.rest \in Seq(Byte)
           /\ ~s.ok \/ s.rest = <<>> => PrintNext(P, s) = s
           /\ PrintNext(P, s).ok /\ s.rest # <<>> =>
                /\ s.ok /\ P[s.rest].ok
                /\ PrintNext(P, s).text = Append(s.text, P[s.rest].value)
                /\ PrintNext(P, s).rest = P[s.rest].rest
  <1>1. CASE s = Failed
    BY <1>1 DEF PrintNext, Failed, Printings
  <1>2. CASE s # Failed
    <2>1. /\ s.ok /\ s.ok = TRUE /\ s.text \in Seq(V) /\ s.rest \in Seq(Byte)
      BY <1>2 DEF Printings
    <2>2. CASE s.rest = <<>>
      BY <1>2, <2>1, <2>2 DEF PrintNext
    <2>3. CASE s.rest # <<>> /\ P[s.rest].ok
      <3> DEFINE v == P[s.rest].value
                 r == P[s.rest].rest
                 t == Append(s.text, v)
      <3>1. v \in V /\ r \in Seq(Byte)
        BY <2>1, <2>3 DEF IsCodec
      <3>2. t \in Seq(V)
        BY <2>1, <3>1
      <3>3. PrintNext(P, s) = [ok |-> TRUE, text |-> t, rest |-> r]
        BY <2>1, <2>3, Zenon DEF PrintNext
      <3> HIDE DEF t, r, v
      <3>4. PrintNext(P, s) \in Printings(V)
        BY <3>1, <3>2, <3>3 DEF Printings
      <3>5. PrintNext(P, s).text = t /\ PrintNext(P, s).rest = r
        BY <3>3
      <3> QED
        BY <1>2, <2>1, <2>3, <3>4, <3>5 DEF t, r, v
    <2>4. CASE s.rest # <<>> /\ ~P[s.rest].ok
      <3>1. PrintNext(P, s) = Failed
        BY <2>1, <2>4 DEF PrintNext
      <3>2. ~Failed.ok
        BY DEF Failed
      <3> QED
        BY <1>2, <2>1, <2>4, <3>1, <3>2 DEF Printings
    <2> QED
      BY <2>2, <2>3, <2>4
  <1> QED
    BY <1>1, <1>2

LEMMA PrintingExists ==
    ASSUME NEW V, NEW E, NEW P, IsCodec(V, E, P), NEW b \in Seq(Byte)
    PROVE  /\ \E at \in [0 .. Len(b) -> Printings(V)] : IsPrinting(P, b, at)
           /\ \A at : IsPrinting(P, b, at) => \A k \in 0 .. Len(b) : at[k] \in Printings(V)
           /\ \A at, al : IsPrinting(P, b, at) /\ IsPrinting(P, b, al) =>
                \A k \in 0 .. Len(b) : at[k] = al[k]
  <1> DEFINE G == [x \in Nat \X Printings(V) |-> PrintNext(P, x[2])]
             a == [ok |-> TRUE, text |-> <<>>, rest |-> b]
  <1>1. \A i \in Nat, s \in Printings(V) : G[<<i, s>>] = PrintNext(P, s)
    BY Zenon
  <1>2. G \in [Nat \X Printings(V) -> Printings(V)]
    BY PrintNextIs
  <1>3. a \in Printings(V)
    <2>1. <<>> \in Seq(V)
      OBVIOUS
    <2> QED
      BY <2>1 DEF Printings
  <1> HIDE DEF G, a
  <1>4. PICK f : IsStepwise(Printings(V), a, G, f)
    BY <1>2, <1>3, StepsExist
  <1>5. /\ f \in [Nat -> Printings(V)] /\ f[0] = a
        /\ \A n \in Nat \ {0} : f[n] = G[<<n, f[n - 1]>>]
    BY <1>4 DEF IsStepwise
  <1> DEFINE g == [i \in 0 .. Len(b) |-> f[i]]
  <1>6. g \in [0 .. Len(b) -> Printings(V)] /\ g[0] = a
    BY <1>5
  <1>7. ASSUME NEW i \in 1 .. Len(b)
        PROVE  g[i] = PrintNext(P, g[i - 1])
    <2>1. i \in Nat \ {0} /\ i - 1 \in Nat /\ i - 1 \in 0 .. Len(b) /\ i \in 0 .. Len(b)
      OBVIOUS
    <2>2. g[i - 1] = f[i - 1] /\ g[i] = f[i] /\ f[i - 1] \in Printings(V)
      BY <1>5, <2>1
    <2>3. f[i] = G[<<i, f[i - 1]>>]
      BY <1>5, <2>1
    <2> HIDE DEF g
    <2> QED
      BY <1>1, <2>1, <2>2, <2>3
  <1> HIDE DEF g
  <1>8. IsPrinting(P, b, g)
    BY <1>6, <1>7 DEF IsPrinting, a
  <1>9. ASSUME NEW at, NEW al, IsPrinting(P, b, at), IsPrinting(P, b, al)
        PROVE  \A k \in 0 .. Len(b) : at[k] = al[k]
    <2>1. at[0] = al[0] /\ \A k \in 1 .. Len(b) : at[k - 1] = al[k - 1] => at[k] = al[k]
      BY <1>9, Zenon DEF IsPrinting
    <2>2. Len(b) \in Nat
      OBVIOUS
    <2> QED
      BY <2>1, <2>2, StepsUnique
  <1>10. \A at : IsPrinting(P, b, at) => \A k \in 0 .. Len(b) : at[k] \in Printings(V)
    BY <1>6, <1>8, <1>9
  <1>11. \E at \in [0 .. Len(b) -> Printings(V)] : IsPrinting(P, b, at)
    BY <1>6, <1>8
  <1> QED
    BY <1>9, <1>10, <1>11

\* What can be printed is what the text is written as.
LEMMA PrintedIsWritten ==
    ASSUME NEW V, NEW E, NEW P, IsCodec(V, E, P), NEW b \in Seq(Byte),
           NEW at, IsPrinting(P, b, at), at[Len(b)].ok
    PROVE  at[Len(b)].text \in Seq(V) /\ Written(E, at[Len(b)].text) = b
  <1> DEFINE Inv(k) == at[k].ok =>
                /\ Written(E, at[k].text) \o at[k].rest = b
                /\ at[k].rest = <<>> \/ Len(at[k].rest) + k <= Len(b)
             S == {k \in Nat : k <= Len(b) => Inv(k)}
  <1>1. \A k \in 0 .. Len(b) : at[k] \in Printings(V)
    BY PrintingExists
  <1>2. E \in [V -> Seq(Byte)]
    BY DEF IsCodec
  <1>3. Inv(0)
    <2>1. Written(E, <<>>) = <<>> /\ <<>> \o b = b
      BY <1>2, WrittenIs
    <2>2. at[0].text = <<>> /\ at[0].rest = b
      BY DEF IsPrinting
    <2> QED
      BY <2>1, <2>2
  <1>4. ASSUME NEW k \in Nat, k + 1 <= Len(b), Inv(k) PROVE Inv(k + 1)
    <2> DEFINE s == at[k]
               n == at[k + 1]
    <2>1. s \in Printings(V) /\ n = PrintNext(P, s)
      <3>1. k \in 0 .. Len(b) /\ k + 1 \in 1 .. Len(b) /\ (k + 1) - 1 = k
        BY <1>4
      <3> QED
        BY <1>1, <3>1, Zenon DEF IsPrinting
    <2> SUFFICES ASSUME n.ok
                 PROVE  /\ Written(E, n.text) \o n.rest = b
                        /\ n.rest = <<>> \/ Len(n.rest) + (k + 1) <= Len(b)
      OBVIOUS
    <2>2. s.ok => Written(E, s.text) \o s.rest = b /\ (s.rest = <<>> \/ Len(s.rest) + k <= Len(b))
      BY <1>4
    <2> HIDE DEF s, n, Inv, S
    <2>3. CASE ~s.ok \/ s.rest = <<>>
      <3>1. n = s
        BY <2>1, <2>3, PrintNextIs
      <3>2. s.ok /\ s.rest = <<>>
        BY <2>3, <3>1
      <3> QED
        BY <2>2, <3>1, <3>2
    <2>4. CASE s.ok /\ s.rest # <<>>
      <3> DEFINE v == P[s.rest].value
                 r == P[s.rest].rest
      <3>1. /\ P[s.rest].ok /\ n.text = Append(s.text, v) /\ n.rest = r
            /\ s.text \in Seq(V) /\ s.rest \in Seq(Byte)
        BY <2>1, <2>4, PrintNextIs
      <3>2. v \in V /\ r \in Seq(Byte) /\ s.rest = E[v] \o r /\ Len(r) < Len(s.rest)
        BY <3>1, Zenon DEF IsCodec
      <3> HIDE DEF v, r
      <3>3. Written(E, n.text) = Written(E, s.text) \o E[v] /\ Written(E, s.text) \in Seq(Byte)
        BY <1>2, <3>1, <3>2, WrittenIs
      <3>4. E[v] \in Seq(Byte)
        BY <1>2, <3>2
      <3>5. (Written(E, s.text) \o E[v]) \o r = Written(E, s.text) \o (E[v] \o r)
        <4> DEFINE x == Written(E, s.text)
                   y == E[v]
        <4>1. x \in Seq(Byte) /\ y \in Seq(Byte) /\ r \in Seq(Byte)
          BY <3>2, <3>3, <3>4
        <4> HIDE DEF x, y
        <4>2. (x \o y) \o r = x \o (y \o r)
          BY <4>1, BytesJoin
        <4> QED
          BY <4>2 DEF x, y
      <3>6. Written(E, n.text) \o n.rest = b
        BY <2>2, <2>4, <3>1, <3>2, <3>3, <3>5
      <3>7. Len(r) \in Nat /\ Len(s.rest) \in Nat /\ Len(b) \in Nat
        BY <3>1, <3>2
      <3>8. Len(n.rest) + (k + 1) <= Len(b)
        BY <2>2, <2>4, <3>1, <3>2, <3>7
      <3> QED
        BY <3>6, <3>8
    <2> QED
      BY <2>3, <2>4
  <1>5. Inv(Len(b))
    <2>1. 0 \in S
      BY <1>3
    <2> HIDE DEF Inv
    <2>2. ASSUME NEW k \in Nat, k \in S PROVE k + 1 \in S
      BY <1>4, <2>2
    <2> HIDE DEF S
    <2>3. Nat \subseteq S
      BY <2>1, <2>2, NatInductionOnSets
    <2> QED
      BY <2>3 DEF S
  <1>6. Len(b) \in Nat /\ Len(b) \in 0 .. Len(b)
    OBVIOUS
  <1>7. at[Len(b)].text \in Seq(V) /\ at[Len(b)].rest \in Seq(Byte)
    BY <1>1, <1>6, PrintNextIs
  <1>8. at[Len(b)].rest = <<>>
    BY <1>5, <1>6, <1>7
  <1>9. Written(E, at[Len(b)].text) \in Seq(Byte)
    BY <1>2, <1>7, WrittenIs
  <1> QED
    BY <1>5, <1>7, <1>8, <1>9

\* What a text is written as is printed as that text.
LEMMA WrittenIsPrinted ==
    ASSUME NEW V, NEW E, NEW P, IsCodec(V, E, P), NEW t \in Seq(V), NEW b, b = Written(E, t),
           NEW at, IsPrinting(P, b, at)
    PROVE  at[Len(b)] = [ok |-> TRUE, text |-> t, rest |-> <<>>]
  <1> DEFINE Unread(k) == SubSeq(t, k + 1, Len(t))
             State(k) == [ok |-> TRUE, text |-> SubSeq(t, 1, k), rest |-> Written(E, Unread(k))]
             done == [ok |-> TRUE, text |-> t, rest |-> <<>>]
             S == {k \in Nat : k <= Len(t) => at[k] = State(k)}
             D == {k \in Nat : k >= Len(t) /\ k <= Len(b) => at[k] = done}
  <1>1. E \in [V -> Seq(Byte)] /\ \A v \in V : E[v] # <<>>
    BY DEF IsCodec
  <1>2. b \in Seq(Byte) /\ Len(b) \in Nat /\ Len(t) \in Nat /\ Len(t) <= Len(b)
    <2>1. Written(E, t) \in Seq(Byte)
      BY <1>1, WrittenIs
    <2>2. Len(t) <= Len(Written(E, t))
      <3>1. \A s \in Seq(V) : Len(s) <= Len(Written(E, s))
        BY <1>1, WrittenBegins
      <3> QED
        BY <3>1
    <2> QED
      BY <2>1, <2>2
  <1>3. \A k \in 1 .. Len(b) : at[k] = PrintNext(P, at[k - 1])
    BY DEF IsPrinting
  <1>4. 0 \in S
    <2>1. SubSeq(t, 1, 0) = <<>> /\ Unread(0) = t
      BY SubSeqEmpty, SubSeqFull
    <2>2. at[0] = [ok |-> TRUE, text |-> <<>>, rest |-> b]
      BY DEF IsPrinting
    <2>3. Written(E, Unread(0)) = b
      BY <2>1
    <2> HIDE DEF Unread
    <2>4. at[0] = State(0)
      BY <2>1, <2>2, <2>3
    <2> QED
      BY <2>4
  <1>5. ASSUME NEW k \in Nat, k \in S PROVE k + 1 \in S
    <2> SUFFICES ASSUME k + 1 <= Len(t) PROVE at[k + 1] = State(k + 1)
      BY <1>5
    <2> DEFINE v == t[k + 1]
               r == Unread(k + 1)
               f == SubSeq(t, 1, k)
               s == State(k)
    <2>1. v \in V /\ r \in Seq(V) /\ f \in Seq(V) /\ k + 1 \in 1 .. Len(t)
      BY <1>2, <1>5
    <2>2. SubSeq(t, 1, k + 1) = Append(f, v)
      BY <1>2, <1>5
    <2>3. Unread(k) = <<v>> \o r
      <3>1. SubSeq(t, k + 1, Len(t)) = <<t[k + 1]>> \o SubSeq(t, k + 2, Len(t))
        <4>1. /\ Len(SubSeq(t, k + 1, Len(t))) = Len(t) - k
              /\ SubSeq(t, k + 1, Len(t)) \in Seq(V)
              /\ \A i \in 1 .. Len(t) - k : SubSeq(t, k + 1, Len(t))[i] = t[k + i]
          BY <1>2, <1>5
        <4>2. /\ Len(<<t[k + 1]>> \o SubSeq(t, k + 2, Len(t))) = Len(t) - k
              /\ <<t[k + 1]>> \o SubSeq(t, k + 2, Len(t)) \in Seq(V)
              /\ \A i \in 1 .. Len(t) - k :
                    (<<t[k + 1]>> \o SubSeq(t, k + 2, Len(t)))[i] = t[k + i]
          BY <1>2, <1>5
        <4> QED
          BY <4>1, <4>2, SeqEqual
      <3>2. (k + 1) + 1 = k + 2
        BY <1>5
      <3> QED
        BY <3>1, <3>2
    <2>4. at[k] = s
      BY <1>2, <1>5
    <2>5. at[k + 1] = PrintNext(P, at[k])
      <3>1. k + 1 \in 1 .. Len(b) /\ (k + 1) - 1 = k
        BY <1>2, <1>5
      <3> QED
        BY <1>3, <3>1
    <2> HIDE DEF v, r, f, Unread
    <2>6. Written(E, Unread(k)) = E[v] \o Written(E, r)
      BY <1>1, <2>1, <2>3, WrittenBegins
    <2>7. Written(E, r) \in Seq(Byte) /\ E[v] \in Seq(Byte) /\ E[v] # <<>>
      BY <1>1, <2>1, WrittenIs
    <2>8. Written(E, Unread(k)) # <<>>
      BY <2>6, <2>7
    <2>9. P[Written(E, Unread(k))] = [ok |-> TRUE, value |-> v, rest |-> Written(E, r)]
      BY <2>1, <2>6, <2>7, Zenon DEF IsCodec
    <2>10. s.ok /\ s.text = f /\ s.rest = Written(E, Unread(k))
      BY DEF f
    <2> HIDE DEF s
    <2>11. PrintNext(P, s) = [ok |-> TRUE, text |-> Append(f, v), rest |-> Written(E, r)]
      <3> DEFINE p == P[s.rest]
                 w == Written(E, r)
      <3>1. p = [ok |-> TRUE, value |-> v, rest |-> w]
        BY <2>9, <2>10, Zenon
      <3> HIDE DEF p, w
      <3>2. p.ok /\ p.value = v /\ p.rest = w
        BY <3>1
      <3>3. s.rest # <<>>
        BY <2>8, <2>10
      <3>4. PrintNext(P, s) = [ok |-> TRUE, text |-> Append(s.text, p.value), rest |-> p.rest]
        BY <2>10, <3>2, <3>3, Zenon DEF PrintNext, p
      <3> QED
        BY <2>10, <3>2, <3>4 DEF w
    <2> QED
      BY <2>2, <2>4, <2>5, <2>11 DEF r
  <1>6. 0 \in D
    <2> SUFFICES ASSUME 0 >= Len(t) PROVE at[0] = done
      OBVIOUS
    <2>1. t = <<>>
      BY <1>2
    <2>2. b = <<>>
      BY <1>1, <2>1, WrittenIs
    <2> QED
      BY <2>1, <2>2 DEF IsPrinting
  <1> HIDE DEF S
  <1>7. Nat \subseteq S
    BY <1>4, <1>5, NatInductionOnSets
  <1>8. at[Len(t)] = done
    <2>1. at[Len(t)] = State(Len(t))
      <3> HIDE DEF State
      <3> QED
        BY <1>2, <1>7 DEF S
    <2>2. SubSeq(t, 1, Len(t)) = t /\ Unread(Len(t)) = <<>>
      BY <1>2, SubSeqEmpty, SubSeqFull
    <2>3. Written(E, <<>>) = <<>>
      BY <1>1, WrittenIs
    <2> QED
      BY <2>1, <2>2, <2>3
  <1>9. ASSUME NEW k \in Nat, k \in D PROVE k + 1 \in D
    <2> SUFFICES ASSUME k + 1 >= Len(t), k + 1 <= Len(b) PROVE at[k + 1] = done
      BY <1>9
    <2>1. CASE k + 1 = Len(t)
      BY <1>8, <2>1
    <2>2. CASE k >= Len(t)
      <3>1. at[k] = done
        BY <1>2, <1>9, <2>2
      <3>2. k + 1 \in 1 .. Len(b) /\ (k + 1) - 1 = k
        BY <1>2, <1>9
      <3>3. at[k + 1] = PrintNext(P, at[k])
        BY <1>3, <3>2
      <3>4. done.rest = <<>>
        OBVIOUS
      <3> HIDE DEF done
      <3> QED
        BY <3>1, <3>3, <3>4 DEF PrintNext
    <2> QED
      BY <1>2, <1>9, <2>1, <2>2
  <1> HIDE DEF D
  <1>10. Nat \subseteq D
    BY <1>6, <1>9, NatInductionOnSets
  <1>11. Len(b) \in D
    BY <1>2, <1>10
  <1> QED
    BY <1>2, <1>11 DEF D

\* What TextOf makes of its loop.
TextAfter(b, at) ==
    IF b # <<>> /\ at[Len(b)].ok
    THEN [valid |-> TRUE, text |-> at[Len(b)].text] ELSE [valid |-> FALSE, text |-> b]

\* The texts and what they are written as determine each other.
LEMMA CodecText ==
    ASSUME NEW V, NEW E, NEW P, IsCodec(V, E, P), NEW b \in Seq(Byte), NEW r,
           \A at : IsPrinting(P, b, at) => r = TextAfter(b, at)
    PROVE  /\ r.valid => r.text \in Seq(V) /\ r.text # <<>> /\ Written(E, r.text) = b
           /\ r.valid \in BOOLEAN
           /\ \A t \in Seq(V) : t # <<>> /\ b = Written(E, t) =>
                 r = [valid |-> TRUE, text |-> t]
  <1>1. PICK at : IsPrinting(P, b, at)
    BY PrintingExists
  <1>2. r = TextAfter(b, at)
    BY <1>1
  <1>3. E \in [V -> Seq(Byte)] /\ \A v \in V : E[v] # <<>>
    BY DEF IsCodec
  <1>4. ASSUME r.valid
        PROVE  r.text \in Seq(V) /\ r.text # <<>> /\ Written(E, r.text) = b
    <2>1. b # <<>> /\ at[Len(b)].ok /\ r.text = at[Len(b)].text
      BY <1>2, <1>4 DEF TextAfter
    <2>2. at[Len(b)].text \in Seq(V) /\ Written(E, at[Len(b)].text) = b
      BY <1>1, <2>1, PrintedIsWritten
    <2>3. Written(E, <<>>) = <<>>
      BY <1>3, WrittenIs
    <2> QED
      BY <2>1, <2>2, <2>3
  <1>5. r.valid \in BOOLEAN
    BY <1>2 DEF TextAfter
  <1>6. ASSUME NEW t \in Seq(V), t # <<>>, b = Written(E, t)
        PROVE  r = [valid |-> TRUE, text |-> t]
    <2> DEFINE done == [ok |-> TRUE, text |-> t, rest |-> <<>>]
    <2>1. at[Len(b)] = done
      BY <1>1, <1>6, WrittenIsPrinted
    <2>2. b # <<>>
      <3>1. Len(t) <= Len(b)
        BY <1>3, <1>6, WrittenBegins
      <3>2. Len(t) # 0 /\ Len(t) \in Nat
        BY <1>6
      <3> QED
        BY <3>1, <3>2
    <2>3. done.ok /\ done.text = t
      OBVIOUS
    <2> HIDE DEF done
    <2> QED
      BY <1>2, <2>1, <2>2, <2>3, Zenon DEF TextAfter
  <1> QED
    BY <1>4, <1>5, <1>6

-----------------------------------------------------------------------------

ArcCode == [v \in Arc |-> ArcBytes(v)]
ReadArc == [in \in Seq(Byte) |-> parseBase128(in)]

LEMMA ArcIsNat ==
    /\ \A v \in Arc : v \in Nat /\ v # Infinity /\ v < ArcLimit
    /\ {0, 1, 2} \subseteq Arc
  BY WidthAssumption DEF Arc

LEMMA ArcCodec ==
    IsCodec(Arc, ArcCode, ReadArc)
  <1>1. \A v \in Arc : ArcCode[v] = ArcBytes(v) /\ ArcBytes(v) \in Seq(Byte) /\ ArcBytes(v) # <<>>
    BY ArcIsNat, ArcBytesAre DEF ArcCode
  <1>2. ArcCode \in [Arc -> Seq(Byte)]
    BY <1>1 DEF ArcCode
  <1>3. \A in \in Seq(Byte) : ReadArc[in] = parseBase128(in)
    BY Zenon DEF ReadArc
  <1>4. ASSUME NEW v \in Arc, NEW s \in Seq(Byte)
        PROVE  ReadArc[ArcCode[v] \o s] = [ok |-> TRUE, value |-> v, rest |-> s]
    <2>1. ArcBytes(v) \o s \in Seq(Byte)
      BY <1>1
    <2>2. ReadArc[ArcBytes(v) \o s] = parseBase128(ArcBytes(v) \o s)
      BY <1>3, <2>1
    <2> QED
      BY <1>1, <2>2, EncodedArcIsRead
  <1>5. ASSUME NEW in \in Seq(Byte), ReadArc[in].ok
        PROVE  /\ ReadArc[in].value \in Arc /\ ReadArc[in].rest \in Seq(Byte)
               /\ in = ArcCode[ReadArc[in].value] \o ReadArc[in].rest
               /\ Len(ReadArc[in].rest) < Len(in)
    <2> DEFINE p == parseBase128(in)
    <2>1. ReadArc[in] = p
      BY <1>3
    <2>2. p.ok
      BY <1>5, <2>1
    <2>3. /\ p.value \in Arc /\ p.rest \in Seq(Byte) /\ in = ArcBytes(p.value) \o p.rest
          /\ Len(p.rest) < Len(in)
      BY <2>2, ReadArcIsEncoded
    <2> HIDE DEF p
    <2> QED
      BY <1>1, <2>1, <2>3
  <1> QED
    BY <1>1, <1>2, <1>4, <1>5, Zenon DEF IsCodec

\* TextOf does what is described here, of IDs ...
LEMMA StringIs ==
    ASSUME NEW b \in Seq(Byte)
    PROVE  \A at : IsPrinting(ReadArc, b, at) => String(b) = TextAfter(b, at)
  <1> DEFINE init == [ok |-> TRUE, text |-> <<>>, rest |-> b]
             next(s) ==
               LET p == parseBase128(s.rest)
               IN  IF ~s.ok \/ s.rest = <<>> THEN s
                   ELSE IF p.ok
                   THEN [ok |-> TRUE, text |-> Append(s.text, p.value), rest |-> p.rest]
                   ELSE Failed
             al == CHOOSE at : at = [k \in 0 .. Len(b) |-> IF k = 0 THEN init ELSE next(at[k - 1])]
  <1>1. String(b) = TextAfter(b, al)
    BY DEF String, TextOf, TextAfter
  <1>2. \A s \in Printings(Arc) : next(s) = PrintNext(ReadArc, s)
    <2> TAKE s \in Printings(Arc)
    <2>1. CASE s.ok
      <3>1. s.rest \in Seq(Byte)
        BY <2>1, ArcCodec, PrintNextIs
      <3>2. ReadArc[s.rest] = parseBase128(s.rest)
        BY <3>1, Zenon DEF ReadArc
      <3> QED
        BY <3>2, Zenon DEF PrintNext
    <2>2. CASE ~s.ok
      BY <2>2, Zenon DEF PrintNext
    <2> QED
      BY <2>1, <2>2
  <1> HIDE DEF next, init
  <1>3. PICK g \in [0 .. Len(b) -> Printings(Arc)] : IsPrinting(ReadArc, b, g)
    BY ArcCodec, PrintingExists
  <1>4. g = [k \in 0 .. Len(b) |-> IF k = 0 THEN init ELSE next(g[k - 1])]
    <2>1. \A k \in 0 .. Len(b) : k # 0 => k \in 1 .. Len(b) /\ k - 1 \in 0 .. Len(b)
      OBVIOUS
    <2>2. g[0] = init /\ \A k \in 1 .. Len(b) : g[k] = PrintNext(ReadArc, g[k - 1])
      BY <1>3 DEF IsPrinting, init
    <2>3. \A k \in 0 .. Len(b) : k # 0 => g[k] = next(g[k - 1])
      BY <1>2, <2>1, <2>2
    <2>4. g = [k \in 0 .. Len(b) |-> g[k]]
      OBVIOUS
    <2> QED
      BY <2>2, <2>3, <2>4, Zenon
  <1>5. al = [k \in 0 .. Len(b) |-> IF k = 0 THEN init ELSE next(al[k - 1])]
    BY <1>4
  <1> HIDE DEF al
  <1>6. al[0] = g[0] /\ \A k \in 1 .. Len(b) : al[k - 1] = g[k - 1] => al[k] = g[k]
    <2>1. 0 \in 0 .. Len(b) /\ \A k \in 1 .. Len(b) : k # 0 /\ k \in 0 .. Len(b)
      OBVIOUS
    <2> QED
      BY <1>4, <1>5, <2>1, Zenon
  <1>7. Len(b) \in Nat /\ Len(b) \in 0 .. Len(b)
    OBVIOUS
  <1>8. al[Len(b)] = g[Len(b)]
    BY <1>6, <1>7, StepsUnique
  <1>9. \A at : IsPrinting(ReadArc, b, at) => at[Len(b)] = g[Len(b)]
    BY <1>3, <1>7, ArcCodec, PrintingExists
  <1> QED
    BY <1>1, <1>8, <1>9, Zenon DEF TextAfter

Ranges == [min : Arc, max : Arc \cup {Infinity}]

RangeBytes(r) == ArcBytes(r.min) \o (IF r.max = Infinity THEN <<More>> ELSE ArcBytes(r.max))

RangeCode == [r \in Ranges |-> RangeBytes(r)]
ReadRange == [in \in Seq(Byte) |-> parseRange(in)]

LEMMA RangeBytesAre ==
    /\ RangeCode \in [Ranges -> Seq(Byte)]
    /\ \A r \in Ranges : RangeCode[r] = RangeBytes(r)
    /\ \A r \in Ranges : RangeCode[r] # <<>> /\ RangeCode[r] \in Seq(Byte)
  <1>1. \A r \in Ranges : RangeBytes(r) # <<>> /\ RangeBytes(r) \in Seq(Byte)
    <2> TAKE r \in Ranges
    <2> DEFINE m == IF r.max = Infinity THEN <<More>> ELSE ArcBytes(r.max)
               a == ArcBytes(r.min)
    <2>1. r.min \in Nat /\ (r.max # Infinity => r.max \in Nat)
      BY ArcIsNat DEF Ranges
    <2>2. a \in Seq(Byte) /\ a # <<>>
      BY <2>1, ArcBytesAre
    <2>3. More \in Byte
      BY ByteIs DEF Byte
    <2>4. m \in Seq(Byte)
      <3>1. CASE r.max = Infinity
        BY <2>3, <3>1
      <3>2. CASE r.max # Infinity
        BY <2>1, <3>2, ArcBytesAre
      <3> QED
        BY <3>1, <3>2
    <2> HIDE DEF m, a
    <2>5. a \o m \in Seq(Byte) /\ a \o m # <<>>
      BY <2>2, <2>4
    <2> QED
      BY <2>5, Zenon DEF RangeBytes, a, m
  <1>2. \A r \in Ranges : RangeCode[r] = RangeBytes(r)
    BY Zenon DEF RangeCode
  <1>3. RangeCode \in [Ranges -> Seq(Byte)]
    BY <1>1, Zenon DEF RangeCode
  <1> QED
    BY <1>1, <1>2, <1>3

\* What an arc begins with is no byte that adds nothing to it.
LEMMA FirstByte ==
    ASSUME NEW v \in Arc, NEW s \in Seq(Byte)
    PROVE  ArcBytes(v) \o s # <<>> /\ (ArcBytes(v) \o s)[1] # More
  <1> DEFINE in == ArcBytes(v) \o s
             p == parseBase128(in)
  <1>1. in \in Seq(Byte)
    BY ArcBytesAre, ArcIsNat
  <1>2. p = [ok |-> TRUE, value |-> v, rest |-> s]
    BY EncodedArcIsRead
  <1>3. p.ok
    <2> HIDE DEF p
    <2> QED
      BY <1>2
  <1> QED
    BY <1>1, <1>3, ReadArcIsEncoded

LEMMA RangeCodec ==
    IsCodec(Ranges, RangeCode, ReadRange)
  <1>1. \A in \in Seq(Byte) : ReadRange[in] = parseRange(in)
    BY Zenon DEF ReadRange
  <1>2. More \in Byte
    BY ByteIs DEF Byte
  <1>3. ASSUME NEW r \in Ranges, NEW s \in Seq(Byte)
        PROVE  ReadRange[RangeCode[r] \o s] = [ok |-> TRUE, value |-> r, rest |-> s]
    <2> DEFINE m == IF r.max = Infinity THEN <<More>> ELSE ArcBytes(r.max)
               a == ArcBytes(r.min)
               in == a \o (m \o s)
               p == parseBase128(in)
               q == parseBase128(m \o s)
    <2>1. /\ r.min \in Arc /\ (r.max # Infinity => r.max \in Arc)
          /\ r = [min |-> r.min, max |-> r.max]
      BY DEF Ranges
    <2>2. a \in Seq(Byte)
      BY <2>1, ArcIsNat, ArcBytesAre
    <2>3. m \in Seq(Byte)
      <3>1. CASE r.max = Infinity
        BY <1>2, <3>1
      <3>2. CASE r.max # Infinity
        BY <2>1, <3>2, ArcIsNat, ArcBytesAre
      <3> QED
        BY <3>1, <3>2
    <2>4. RangeCode[r] \o s = in
      <3>1. RangeCode[r] = a \o m
        BY RangeBytesAre DEF RangeBytes
      <3> HIDE DEF a, m
      <3>2. (a \o m) \o s = a \o (m \o s)
        BY <2>2, <2>3, BytesJoin
      <3> QED
        BY <3>1, <3>2
    <2>5. in \in Seq(Byte) /\ m \o s \in Seq(Byte)
      BY <2>2, <2>3
    <2>6. p = [ok |-> TRUE, value |-> r.min, rest |-> m \o s]
      BY <2>1, <2>5, EncodedArcIsRead
    <2>7. ReadRange[RangeCode[r] \o s] = parseRange(in)
      BY <1>1, <2>4, <2>5
    <2>8. p.ok /\ p.value = r.min /\ p.rest = m \o s
      <3> DEFINE x == r.min
                 y == m \o s
      <3>1. p = [ok |-> TRUE, value |-> x, rest |-> y]
        BY <2>6
      <3> HIDE DEF p, x, y
      <3>2. p.ok /\ p.value = x /\ p.rest = y
        BY <3>1
      <3> QED
        BY <3>2 DEF x, y
    <2>9. CASE r.max = Infinity
      <3>1. m \o s # <<>> /\ (m \o s)[1] = More /\ Tail(m \o s) = s
        <4>1. m = <<More>>
          BY <2>9
        <4>2. <<More>> \o s # <<>> /\ (<<More>> \o s)[1] = More
          BY <1>2
        <4>3. Tail(<<More>> \o s) = s
          <5>1. /\ Tail(<<More>> \o s) \in Seq(Byte) /\ Len(Tail(<<More>> \o s)) = Len(s)
                /\ \A i \in 1 .. Len(s) : Tail(<<More>> \o s)[i] = s[i]
            BY <1>2
          <5> QED
            BY <5>1, SeqEqual
        <4> QED
          BY <4>1, <4>2, <4>3
      <3> HIDE DEF m, p
      <3>2. parseRange(in) = [ok |-> TRUE, value |-> [min |-> r.min, max |-> Infinity],
                              rest |-> Tail(m \o s)]
        BY <2>8, <3>1, Zenon DEF parseRange, p
      <3> QED
        BY <2>1, <2>7, <2>9, <3>1, <3>2
    <2>10. CASE r.max # Infinity
      <3>1. m = ArcBytes(r.max) /\ r.max \in Arc
        BY <2>1, <2>10
      <3>2. m \o s # <<>> /\ (m \o s)[1] # More
        BY <3>1, FirstByte
      <3>3. q = [ok |-> TRUE, value |-> r.max, rest |-> s]
        BY <3>1, EncodedArcIsRead
      <3>4. q.ok /\ q.value = r.max /\ q.rest = s
        <4> DEFINE x == r.max
        <4>1. q = [ok |-> TRUE, value |-> x, rest |-> s]
          BY <3>3
        <4> HIDE DEF q, x
        <4>2. q.ok /\ q.value = x /\ q.rest = s
          BY <4>1
        <4> QED
          BY <4>2 DEF x
      <3> HIDE DEF m, p
      <3>5. parseBase128(p.rest) = q
        BY <2>8, Zenon
      <3> HIDE DEF q
      <3>6. parseRange(in) = [ok |-> TRUE, value |-> [min |-> r.min, max |-> r.max], rest |-> s]
        BY <2>8, <3>2, <3>4, <3>5, Zenon DEF parseRange, p
      <3> QED
        BY <2>1, <2>7, <3>6
    <2> QED
      BY <2>9, <2>10
  <1>4. ASSUME NEW in \in Seq(Byte), ReadRange[in].ok
        PROVE  /\ ReadRange[in].value \in Ranges /\ ReadRange[in].rest \in Seq(Byte)
               /\ in = RangeCode[ReadRange[in].value] \o ReadRange[in].rest
               /\ Len(ReadRange[in].rest) < Len(in)
    <2> DEFINE p == parseBase128(in)
               q == parseBase128(p.rest)
               z == parseRange(in)
               inf == p.rest # <<>> /\ p.rest[1] = More
    <2>1. ReadRange[in] = z
      BY <1>1
    <2>2. z = IF ~p.ok THEN Failed
              ELSE IF inf
              THEN [ok |-> TRUE, value |-> [min |-> p.value, max |-> Infinity],
                    rest |-> Tail(p.rest)]
              ELSE IF ~q.ok THEN Failed
              ELSE [ok |-> TRUE, value |-> [min |-> p.value, max |-> q.value], rest |-> q.rest]
      BY Zenon DEF parseRange
    <2> HIDE DEF z
    <2>3. ~Failed.ok
      BY DEF Failed
    <2>4. p.ok /\ (inf \/ q.ok)
      BY <1>4, <2>1, <2>2, <2>3, Zenon
    <2>5. /\ p.value \in Arc /\ p.rest \in Seq(Byte) /\ in = ArcBytes(p.value) \o p.rest
          /\ Len(p.rest) < Len(in)
      BY <2>4, ReadArcIsEncoded
    <2> DEFINE a == ArcBytes(p.value)
    <2>6. a \in Seq(Byte)
      BY <2>5, ArcIsNat, ArcBytesAre
    <2>7. CASE inf
      <3> DEFINE r == [min |-> p.value, max |-> Infinity]
                 s == Tail(p.rest)
      <3>1. z = [ok |-> TRUE, value |-> r, rest |-> s]
        BY <2>2, <2>4, <2>7, Zenon
      <3>2. r \in Ranges
        BY <2>5 DEF Ranges
      <3>3. RangeCode[r] = a \o <<More>>
        BY <3>2, RangeBytesAre DEF RangeBytes
      <3>4. s \in Seq(Byte) /\ p.rest = <<More>> \o s /\ Len(s) < Len(p.rest)
        <4> DEFINE t == p.rest
        <4>1. t \in Seq(Byte) /\ t # <<>> /\ t[1] = More
          BY <2>5, <2>7
        <4> HIDE DEF t
        <4>2. /\ Tail(t) \in Seq(Byte) /\ Len(Tail(t)) = Len(t) - 1 /\ Len(t) \in Nat \ {0}
              /\ \A i \in 1 .. Len(t) - 1 : Tail(t)[i] = t[i + 1]
          BY <4>1
        <4>3. /\ <<More>> \o Tail(t) \in Seq(Byte) /\ Len(<<More>> \o Tail(t)) = Len(t)
              /\ \A i \in 1 .. Len(t) : (<<More>> \o Tail(t))[i] = t[i]
          BY <1>2, <4>1, <4>2
        <4>4. t = <<More>> \o Tail(t)
          BY <4>1, <4>3, SeqEqual
        <4> QED
          BY <4>2, <4>4 DEF t
      <3> HIDE DEF r, s, p, a
      <3>5. z.value = r /\ z.rest = s
        BY <3>1
      <3>6. (a \o <<More>>) \o s = a \o (<<More>> \o s)
        <4>1. <<More>> \in Seq(Byte)
          BY <1>2
        <4> QED
          BY <2>6, <3>4, <4>1, BytesJoin
      <3>7. in = a \o p.rest
        BY <2>5 DEF a, p
      <3>8. Len(s) < Len(in)
        <4>1. Len(p.rest) < Len(in)
          BY <2>5
        <4>2. Len(s) \in Nat /\ Len(p.rest) \in Nat /\ Len(in) \in Nat
          BY <2>5, <3>4
        <4> QED
          BY <3>4, <4>1, <4>2
      <3> QED
        BY <2>1, <3>2, <3>3, <3>4, <3>5, <3>6, <3>7, <3>8
    <2>8. CASE ~inf
      <3> DEFINE r == [min |-> p.value, max |-> q.value]
                 s == q.rest
                 b == ArcBytes(q.value)
      <3>1. q.ok
        BY <2>4, <2>8
      <3>2. /\ q.value \in Arc /\ s \in Seq(Byte) /\ p.rest = b \o s
            /\ Len(s) < Len(p.rest)
        BY <2>5, <3>1, ReadArcIsEncoded
      <3>3. z = [ok |-> TRUE, value |-> r, rest |-> s]
        BY <2>2, <2>4, <2>8, <3>1, Zenon
      <3>4. r \in Ranges
        BY <2>5, <3>2 DEF Ranges
      <3>5. RangeCode[r] = a \o b
        <4>1. r.max = q.value /\ r.min = p.value
          OBVIOUS
        <4>2. q.value # Infinity
          BY <3>2, ArcIsNat
        <4> HIDE DEF r, p, q
        <4>3. RangeCode[r] = RangeBytes(r)
          BY <3>4, RangeBytesAre
        <4> QED
          BY <4>1, <4>2, <4>3, Zenon DEF RangeBytes
      <3>6. b \in Seq(Byte)
        BY <3>2, ArcIsNat, ArcBytesAre
      <3> HIDE DEF r, s, b, p, q, a
      <3>7. z.value = r /\ z.rest = s
        BY <3>3
      <3>8. (a \o b) \o s = a \o (b \o s)
        BY <2>6, <3>2, <3>6, BytesJoin
      <3>9. in = a \o p.rest
        BY <2>5 DEF a, p
      <3>10. Len(s) < Len(in)
        <4>1. Len(p.rest) < Len(in)
          BY <2>5
        <4>2. Len(s) \in Nat /\ Len(p.rest) \in Nat /\ Len(in) \in Nat
          BY <2>5, <3>2
        <4> QED
          BY <3>2, <4>1, <4>2
      <3> QED
        BY <2>1, <3>2, <3>4, <3>5, <3>7, <3>8, <3>9, <3>10
    <2> QED
      BY <2>7, <2>8
  <1>5. \A r \in Ranges : RangeCode[r] # <<>>
    BY RangeBytesAre
  <1>6. RangeCode \in [Ranges -> Seq(Byte)]
    BY RangeBytesAre
  <1> QED
    BY <1>3, <1>4, <1>5, <1>6, Zenon DEF IsCodec

\* ... and of patterns.
LEMMA PatternStringIs ==
    ASSUME NEW b \in Seq(Byte)
    PROVE  \A at : IsPrinting(ReadRange, b, at) => PatternString(b) = TextAfter(b, at)
  <1> DEFINE init == [ok |-> TRUE, text |-> <<>>, rest |-> b]
             next(s) ==
               LET p == parseRange(s.rest)
               IN  IF ~s.ok \/ s.rest = <<>> THEN s
                   ELSE IF p.ok
                   THEN [ok |-> TRUE, text |-> Append(s.text, p.value), rest |-> p.rest]
                   ELSE Failed
             al == CHOOSE at : at = [k \in 0 .. Len(b) |-> IF k = 0 THEN init ELSE next(at[k - 1])]
  <1>1. PatternString(b) = TextAfter(b, al)
    BY DEF PatternString, TextOf, TextAfter
  <1>2. \A s \in Printings(Ranges) : next(s) = PrintNext(ReadRange, s)
    <2> TAKE s \in Printings(Ranges)
    <2>1. CASE s.ok
      <3>1. s.rest \in Seq(Byte)
        BY <2>1, RangeCodec, PrintNextIs
      <3>2. ReadRange[s.rest] = parseRange(s.rest)
        BY <3>1, Zenon DEF ReadRange
      <3> QED
        BY <3>2, Zenon DEF PrintNext
    <2>2. CASE ~s.ok
      BY <2>2, Zenon DEF PrintNext
    <2> QED
      BY <2>1, <2>2
  <1> HIDE DEF next, init
  <1>3. PICK g \in [0 .. Len(b) -> Printings(Ranges)] : IsPrinting(ReadRange, b, g)
    BY RangeCodec, PrintingExists
  <1>4. g = [k \in 0 .. Len(b) |-> IF k = 0 THEN init ELSE next(g[k - 1])]
    <2>1. \A k \in 0 .. Len(b) : k # 0 => k \in 1 .. Len(b) /\ k - 1 \in 0 .. Len(b)
      OBVIOUS
    <2>2. g[0] = init /\ \A k \in 1 .. Len(b) : g[k] = PrintNext(ReadRange, g[k - 1])
      BY <1>3 DEF IsPrinting, init
    <2>3. \A k \in 0 .. Len(b) : k # 0 => g[k] = next(g[k - 1])
      BY <1>2, <2>1, <2>2
    <2>4. g = [k \in 0 .. Len(b) |-> g[k]]
      OBVIOUS
    <2> QED
      BY <2>2, <2>3, <2>4, Zenon
  <1>5. al = [k \in 0 .. Len(b) |-> IF k = 0 THEN init ELSE next(al[k - 1])]
    BY <1>4
  <1> HIDE DEF al
  <1>6. al[0] = g[0] /\ \A k \in 1 .. Len(b) : al[k - 1] = g[k - 1] => al[k] = g[k]
    <2>1. 0 \in 0 .. Len(b) /\ \A k \in 1 .. Len(b) : k # 0 /\ k \in 0 .. Len(b)
      OBVIOUS
    <2> QED
      BY <1>4, <1>5, <2>1, Zenon
  <1>7. Len(b) \in Nat /\ Len(b) \in 0 .. Len(b)
    OBVIOUS
  <1>8. al[Len(b)] = g[Len(b)]
    BY <1>6, <1>7, StepsUnique
  <1>9. \A at : IsPrinting(ReadRange, b, at) => at[Len(b)] = g[Len(b)]
    BY <1>3, <1>7, RangeCodec, PrintingExists
  <1> QED
    BY <1>1, <1>8, <1>9, Zenon DEF TextAfter

-----------------------------------------------------------------------------

\* The loops over the parts of a text write it: of an ID, ...
LEMMA ArcsAppended ==
    ASSUME NEW t \in Seq(Arc)
    PROVE  AppendAll(appendBase128, t) = Written(ArcCode, t)
  <1> DEFINE al == CHOOSE al : al = [i \in 0 .. Len(t) |->
                        IF i = 0 THEN <<>> ELSE appendBase128(al[i - 1], t[i])]
             g == WrittenAfter(ArcCode, t)
  <1>1. AppendAll(appendBase128, t) = al[Len(t)]
    BY DEF AppendAll
  <1>2. ArcCode \in [Arc -> Seq(Byte)]
    BY ArcCodec DEF IsCodec
  <1>3. IsWriting(ArcCode, t, g)
    BY <1>2, WritingExists
  <1>4. \A d : \A i \in 1 .. Len(t) : appendBase128(d, t[i]) = d \o ArcCode[t[i]]
    <2>1. \A i \in 1 .. Len(t) : t[i] \in Arc
      OBVIOUS
    <2>2. \A v \in Arc : ArcCode[v] = ArcBytes(v) /\ v \in Nat
      BY ArcIsNat DEF ArcCode
    <2> QED
      BY <2>1, <2>2, ArcBytesAre
  <1>5. g = [i \in 0 .. Len(t) |-> IF i = 0 THEN <<>> ELSE appendBase128(g[i - 1], t[i])]
    <2> DEFINE A(i) == IF i = 0 THEN <<>> ELSE g[i - 1] \o ArcCode[t[i]]
               B(i) == IF i = 0 THEN <<>> ELSE appendBase128(g[i - 1], t[i])
    <2>1. g = [i \in 0 .. Len(t) |-> A(i)]
      <3>1. IsWritingLoop(ArcCode, t, g)
        BY <1>2, WritingExists
      <3> QED
        BY <3>1 DEF IsWritingLoop
    <2>2. \A i \in 0 .. Len(t) : i # 0 => i \in 1 .. Len(t)
      OBVIOUS
    <2> HIDE DEF g
    <2>3. \A i \in 0 .. Len(t) : A(i) = B(i)
      BY <1>4, <2>2, Zenon
    <2> HIDE DEF A, B
    <2>4. g = [i \in 0 .. Len(t) |-> B(i)]
      BY <2>1, <2>3, Zenon
    <2> QED
      BY <2>4, Zenon DEF B
  <1>6. al = [i \in 0 .. Len(t) |-> IF i = 0 THEN <<>> ELSE appendBase128(al[i - 1], t[i])]
    BY <1>5
  <1> HIDE DEF al, g
  <1>7. IsWriting(ArcCode, t, al)
    <2>1. 0 \in 0 .. Len(t) /\ \A i \in 1 .. Len(t) : i # 0 /\ i \in 0 .. Len(t)
      OBVIOUS
    <2>2. al[0] = <<>>
      BY <1>6, <2>1
    <2>3. \A i \in 1 .. Len(t) : al[i] = al[i - 1] \o ArcCode[t[i]]
      <3> TAKE i \in 1 .. Len(t)
      <3>1. al[i] = appendBase128(al[i - 1], t[i])
        BY <1>6, <2>1, Zenon
      <3> QED
        BY <1>4, <3>1
    <2> QED
      BY <2>2, <2>3 DEF IsWriting
  <1> QED
    BY <1>1, <1>2, <1>7, WritingExists

\* ... of a pattern, ...
LEMMA RangeAppended ==
    ASSUME NEW d \in Seq(Byte), NEW r \in Ranges
    PROVE  /\ appendRange(d, r) = d \o RangeCode[r]
           /\ r.max # Infinity => appendPatternRange(d, r.min, r.max) = d \o RangeCode[r]
           /\ r.max = Infinity => appendPatternRangeWithInfinity(d, r.min) = d \o RangeCode[r]
  <1> DEFINE a == ArcBytes(r.min)
             b == ArcBytes(r.max)
  <1>1. r.min \in Nat /\ (r.max # Infinity => r.max \in Nat)
    BY ArcIsNat DEF Ranges
  <1>2. a \in Seq(Byte) /\ \A s : appendBase128(s, r.min) = s \o a
    BY <1>1, ArcBytesAre
  <1>3. RangeCode[r] = a \o (IF r.max = Infinity THEN <<More>> ELSE b)
    BY RangeBytesAre DEF RangeBytes
  <1>4. CASE r.max = Infinity
    <2>1. More \in Byte
      BY ByteIs DEF Byte
    <2>2. Append(d \o a, More) = (d \o a) \o <<More>>
      <3> DEFINE x == d \o a
      <3>1. x \in Seq(Byte)
        BY <1>2
      <3> HIDE DEF x
      <3>2. Append(x, More) = x \o <<More>>
        BY <2>1, <3>1
      <3> QED
        BY <3>2 DEF x
    <2>3. (d \o a) \o <<More>> = d \o (a \o <<More>>)
      <3>1. <<More>> \in Seq(Byte)
        BY <2>1
      <3> HIDE DEF a
      <3> QED
        BY <1>2, <3>1, BytesJoin
    <2>4. appendPatternRangeWithInfinity(d, r.min) = d \o (a \o <<More>>)
      BY <1>2, <2>2, <2>3 DEF appendPatternRangeWithInfinity
    <2> QED
      BY <1>3, <1>4, <2>4 DEF appendRange
  <1>5. CASE r.max # Infinity
    <2>1. b \in Seq(Byte) /\ \A s : appendBase128(s, r.max) = s \o b
      BY <1>1, <1>5, ArcBytesAre
    <2>2. appendPatternRange(d, r.min, r.max) = (d \o a) \o b
      BY <1>2, <2>1 DEF appendPatternRange
    <2>3. (d \o a) \o b = d \o (a \o b)
      <3> HIDE DEF a, b
      <3> QED
        BY <1>2, <2>1, BytesJoin
    <2> QED
      BY <1>3, <1>5, <2>2, <2>3 DEF appendRange
  <1> QED
    BY <1>4, <1>5

\* ... of a pattern, ...
LEMMA RangesAppended ==
    ASSUME NEW t \in Seq(Ranges)
    PROVE  AppendAll(appendRange, t) = Written(RangeCode, t)
  <1> DEFINE al == CHOOSE al : al = [i \in 0 .. Len(t) |->
                        IF i = 0 THEN <<>> ELSE appendRange(al[i - 1], t[i])]
             u == t
             g == WrittenAfter(RangeCode, u)
  <1>1. AppendAll(appendRange, t) = al[Len(t)]
    BY DEF AppendAll
  <1>2. RangeCode \in [Ranges -> Seq(Byte)]
    BY RangeBytesAre
  <1>8. u \in Seq(Ranges) /\ Len(u) = Len(t)
    OBVIOUS
  <1>3. IsWriting(RangeCode, u, g) /\ \A i \in 0 .. Len(t) : g[i] \in Seq(Byte)
    BY <1>2, <1>8, WritingExists
  <1>4. \A d \in Seq(Byte) : \A i \in 1 .. Len(t) : appendRange(d, t[i]) = d \o RangeCode[u[i]]
    <2>1. \A i \in 1 .. Len(t) : t[i] \in Ranges
      OBVIOUS
    <2> QED
      BY <2>1, RangeAppended
  <1>9. \A i \in 1 .. Len(t) : i - 1 \in 0 .. Len(t) /\ i # 0 /\ i \in 0 .. Len(t)
    OBVIOUS
  <1>5. g = [i \in 0 .. Len(t) |-> IF i = 0 THEN <<>> ELSE appendRange(g[i - 1], t[i])]
    <2> DEFINE A(i) == IF i = 0 THEN <<>> ELSE g[i - 1] \o RangeCode[u[i]]
               B(i) == IF i = 0 THEN <<>> ELSE appendRange(g[i - 1], t[i])
    <2>1. g = [i \in 0 .. Len(t) |-> A(i)]
      <3>1. IsWritingLoop(RangeCode, u, g)
        BY <1>2, <1>8, WritingExists
      <3> HIDE DEF u, g
      <3> QED
        BY <1>8, <3>1, Zenon DEF IsWritingLoop
    <2>2. \A i \in 0 .. Len(t) : i # 0 => i \in 1 .. Len(t)
      OBVIOUS
    <2> HIDE DEF g, u
    <2>3. \A i \in 0 .. Len(t) : A(i) = B(i)
      <3> TAKE i \in 0 .. Len(t)
      <3>1. CASE i = 0
        BY <3>1
      <3>2. CASE i # 0
        <4>1. g[i - 1] \in Seq(Byte) /\ i \in 1 .. Len(t)
          BY <1>3, <1>9, <2>2, <3>2
        <4>2. appendRange(g[i - 1], t[i]) = g[i - 1] \o RangeCode[u[i]]
          BY <1>4, <4>1
        <4> QED
          BY <3>2, <4>2, Zenon
      <3> QED
        BY <3>1, <3>2
    <2> HIDE DEF A, B
    <2>4. g = [i \in 0 .. Len(t) |-> B(i)]
      BY <2>1, <2>3, Zenon
    <2> QED
      BY <2>4, Zenon DEF B
  <1>6. al = [i \in 0 .. Len(t) |-> IF i = 0 THEN <<>> ELSE appendRange(al[i - 1], t[i])]
    BY <1>5
  <1> HIDE DEF al, g, u
  <1>7. al[0] = g[0] /\ \A i \in 1 .. Len(t) : al[i - 1] = g[i - 1] => al[i] = g[i]
    <2>1. 0 \in 0 .. Len(t)
      OBVIOUS
    <2> QED
      BY <1>5, <1>6, <1>9, <2>1, Zenon
  <1>10. Len(t) \in Nat /\ Len(t) \in 0 .. Len(t)
    OBVIOUS
  <1>11. al[Len(t)] = g[Len(t)]
    BY <1>7, <1>10, StepsUnique
  <1>12. al[Len(t)] = Written(RangeCode, u)
    BY <1>8, <1>11 DEF Written, g
  <1> QED
    BY <1>1, <1>8, <1>12 DEF u

\* The ranges that the arcs of an ID alone are in.
Singles(t) == [i \in DOMAIN t |-> [min |-> t[i], max |-> t[i]]]

\* ... and of the pattern of an ID.
LEMMA SinglesAppended ==
    ASSUME NEW t \in Seq(Arc)
    PROVE  Singles(t) \in Seq(Ranges) /\ Len(Singles(t)) = Len(t) /\ AppendAll(LAMBDA pattern, v : appendPatternRange(pattern, v, v), t) = Written(RangeCode, Singles(t))
  <1> DEFINE al == CHOOSE al : al = [i \in 0 .. Len(t) |->
                        IF i = 0 THEN <<>> ELSE appendPatternRange(al[i - 1], t[i], t[i])]
             u == Singles(t)
             g == WrittenAfter(RangeCode, u)
  <1>1. AppendAll(LAMBDA pattern, v : appendPatternRange(pattern, v, v), t) = al[Len(t)]
    BY DEF AppendAll
  <1>2. RangeCode \in [Ranges -> Seq(Byte)]
    BY RangeBytesAre
  <1>8. u \in Seq(Ranges) /\ Len(u) = Len(t)
    <2>1. \A i \in 1 .. Len(t) : t[i] \in Arc
      OBVIOUS
    <2>2. \A i \in 1 .. Len(t) : [min |-> t[i], max |-> t[i]] \in Ranges
      BY <2>1 DEF Ranges
    <2> QED
      BY <2>2 DEF Singles
  <1>3. IsWriting(RangeCode, u, g) /\ \A i \in 0 .. Len(t) : g[i] \in Seq(Byte)
    BY <1>2, <1>8, WritingExists
  <1>4. \A d \in Seq(Byte) : \A i \in 1 .. Len(t) : appendPatternRange(d, t[i], t[i]) = d \o RangeCode[u[i]]
    <2> TAKE d \in Seq(Byte)
    <2> TAKE i \in 1 .. Len(t)
    <2>1. t[i] \in Arc /\ t[i] # Infinity
      <3>1. t[i] \in Arc
        OBVIOUS
      <3> QED
        BY <3>1, ArcIsNat
    <2> DEFINE r == [min |-> t[i], max |-> t[i]]
    <2>2. r \in Ranges /\ r.min = t[i] /\ r.max = t[i] /\ r.max # Infinity
      BY <2>1 DEF Ranges
    <2>3. u[i] = r
      BY DEF Singles
    <2> HIDE DEF r, u
    <2> QED
      BY <2>2, <2>3, RangeAppended
  <1>9. \A i \in 1 .. Len(t) : i - 1 \in 0 .. Len(t) /\ i # 0 /\ i \in 0 .. Len(t)
    OBVIOUS
  <1>5. g = [i \in 0 .. Len(t) |-> IF i = 0 THEN <<>> ELSE appendPatternRange(g[i - 1], t[i], t[i])]
    <2> DEFINE A(i) == IF i = 0 THEN <<>> ELSE g[i - 1] \o RangeCode[u[i]]
               B(i) == IF i = 0 THEN <<>> ELSE appendPatternRange(g[i - 1], t[i], t[i])
    <2>1. g = [i \in 0 .. Len(t) |-> A(i)]
      <3>1. IsWritingLoop(RangeCode, u, g)
        BY <1>2, <1>8, WritingExists
      <3> HIDE DEF u, g
      <3> QED
        BY <1>8, <3>1, Zenon DEF IsWritingLoop
    <2>2. \A i \in 0 .. Len(t) : i # 0 => i \in 1 .. Len(t)
      OBVIOUS
    <2> HIDE DEF g, u
    <2>3. \A i \in 0 .. Len(t) : A(i) = B(i)
      <3> TAKE i \in 0 .. Len(t)
      <3>1. CASE i = 0
        BY <3>1
      <3>2. CASE i # 0
        <4>1. g[i - 1] \in Seq(Byte) /\ i \in 1 .. Len(t)
          BY <1>3, <1>9, <2>2, <3>2
        <4>2. appendPatternRange(g[i - 1], t[i], t[i]) = g[i - 1] \o RangeCode[u[i]]
          BY <1>4, <4>1
        <4> QED
          BY <3>2, <4>2, Zenon
      <3> QED
        BY <3>1, <3>2
    <2> HIDE DEF A, B
    <2>4. g = [i \in 0 .. Len(t) |-> B(i)]
      BY <2>1, <2>3, Zenon
    <2> QED
      BY <2>4, Zenon DEF B
  <1>6. al = [i \in 0 .. Len(t) |-> IF i = 0 THEN <<>> ELSE appendPatternRange(al[i - 1], t[i], t[i])]
    BY <1>5
  <1> HIDE DEF al, g, u
  <1>7. al[0] = g[0] /\ \A i \in 1 .. Len(t) : al[i - 1] = g[i - 1] => al[i] = g[i]
    <2>1. 0 \in 0 .. Len(t)
      OBVIOUS
    <2> QED
      BY <1>5, <1>6, <1>9, <2>1, Zenon
  <1>10. Len(t) \in Nat /\ Len(t) \in 0 .. Len(t)
    OBVIOUS
  <1>11. al[Len(t)] = g[Len(t)]
    BY <1>7, <1>10, StepsUnique
  <1>12. al[Len(t)] = Written(RangeCode, u)
    BY <1>8, <1>11 DEF Written, g
  <1> QED
    BY <1>1, <1>8, <1>12 DEF u

\* An ID that can be printed, and one that was encoded.
LEMMA IDTexts ==
    ASSUME NEW b \in Seq(Byte)
    PROVE  /\ String(b).valid =>
                 /\ String(b).text \in Seq(Arc) /\ String(b).text # <<>>
                 /\ Written(ArcCode, String(b).text) = b
           /\ String(b).valid \in BOOLEAN
           /\ \A t \in Seq(Arc) : t # <<>> /\ b = Written(ArcCode, t) =>
                 String(b) = [valid |-> TRUE, text |-> t]
  <1>1. \A at : IsPrinting(ReadArc, b, at) => String(b) = TextAfter(b, at)
    BY StringIs
  <1> DEFINE r == String(b)
  <1> HIDE DEF r
  <1>2. \A at : IsPrinting(ReadArc, b, at) => r = TextAfter(b, at)
    BY <1>1 DEF r
  <1>3. /\ r.valid => r.text \in Seq(Arc) /\ r.text # <<>> /\ Written(ArcCode, r.text) = b
        /\ r.valid \in BOOLEAN
        /\ \A t \in Seq(Arc) : t # <<>> /\ b = Written(ArcCode, t) =>
              r = [valid |-> TRUE, text |-> t]
    BY <1>2, ArcCodec, CodecText
  <1> QED
    BY <1>3 DEF r

LEMMA PatternTexts ==
    ASSUME NEW b \in Seq(Byte)
    PROVE  /\ PatternString(b).valid =>
                 /\ PatternString(b).text \in Seq(Ranges) /\ PatternString(b).text # <<>>
                 /\ Written(RangeCode, PatternString(b).text) = b
           /\ PatternString(b).valid \in BOOLEAN
           /\ \A t \in Seq(Ranges) : t # <<>> /\ b = Written(RangeCode, t) =>
                 PatternString(b) = [valid |-> TRUE, text |-> t]
  <1>1. \A at : IsPrinting(ReadRange, b, at) => PatternString(b) = TextAfter(b, at)
    BY PatternStringIs
  <1> DEFINE r == PatternString(b)
  <1> HIDE DEF r
  <1>2. \A at : IsPrinting(ReadRange, b, at) => r = TextAfter(b, at)
    BY <1>1 DEF r
  <1>3. /\ r.valid => r.text \in Seq(Ranges) /\ r.text # <<>> /\ Written(RangeCode, r.text) = b
        /\ r.valid \in BOOLEAN
        /\ \A t \in Seq(Ranges) : t # <<>> /\ b = Written(RangeCode, t) =>
              r = [valid |-> TRUE, text |-> t]
    BY <1>2, RangeCodec, CodecText
  <1> QED
    BY <1>3 DEF r

\* A text that is encoded.
LEMMA EncodedIDs ==
    ASSUME NEW t, t # <<>>, t \in Seq(Arc)
    PROVE  /\ TrustAnchorIDFromString(t) = [ok |-> TRUE, value |-> Written(ArcCode, t)]
           /\ Written(ArcCode, t) \in Seq(Byte) /\ Written(ArcCode, t) # <<>>
  <1>1. ArcCode \in [Arc -> Seq(Byte)] /\ \A v \in Arc : ArcCode[v] # <<>>
    BY ArcCodec DEF IsCodec
  <1>2. Written(ArcCode, t) \in Seq(Byte)
    BY <1>1, WrittenIs
  <1>3. Written(ArcCode, t) # <<>>
    <2>1. Len(t) <= Len(Written(ArcCode, t))
      BY <1>1, WrittenBegins
    <2> QED
      BY <2>1
  <1>4. \A i \in DOMAIN t : t[i] \in Arc
    OBVIOUS
  <1> QED
    BY <1>2, <1>3, <1>4, ArcsAppended DEF TrustAnchorIDFromString, Encoded

LEMMA EncodedPatterns ==
    ASSUME NEW t, t # <<>>, t \in Seq(Ranges)
    PROVE  /\ TrustAnchorIDPatternFromString(t) = [ok |-> TRUE, value |-> Written(RangeCode, t)]
           /\ Written(RangeCode, t) \in Seq(Byte) /\ Written(RangeCode, t) # <<>>
  <1>1. RangeCode \in [Ranges -> Seq(Byte)] /\ \A v \in Ranges : RangeCode[v] # <<>>
    BY RangeCodec DEF IsCodec
  <1>2. Written(RangeCode, t) \in Seq(Byte)
    BY <1>1, WrittenIs
  <1>3. Written(RangeCode, t) # <<>>
    <2>1. Len(t) <= Len(Written(RangeCode, t))
      BY <1>1, WrittenBegins
    <2> QED
      BY <2>1
  <1>4. \A i \in DOMAIN t : t[i].min \in Arc /\ t[i].max \in Arc \cup {Infinity}
    <2>1. \A i \in DOMAIN t : t[i] \in Ranges
      OBVIOUS
    <2> QED
      BY <2>1 DEF Ranges
  <1> QED
    BY <1>2, <1>3, <1>4, RangesAppended DEF TrustAnchorIDPatternFromString, Encoded

-----------------------------------------------------------------------------

\* The type invariant.
NamesInv ==
    /\ bytes \in Seq(Byte)
    /\ parts \in Seq([min : EdgeNumbers, max : EdgeNumbers \cup {Infinity}])
    /\ request \in Claims \cup {NoRequest}
    /\ timestamp \in {0, 1}

\* The strings and the texts of the runs are strings and texts.
THEOREM NamesAreTyped ==
    Spec => []NamesInv
  <1>1. Init => NamesInv
    BY DEF Init, NamesInv
  <1>2. NamesInv /\ [Next]_vars => NamesInv'
    <2> SUFFICES ASSUME NamesInv, [Next]_vars PROVE NamesInv'
      OBVIOUS
    <2>1. CASE AddByte
      BY <2>1 DEF NamesInv, AddByte
    <2>2. CASE AddPart
      BY <2>2 DEF NamesInv, AddPart
    <2>3. CASE TimePasses
      BY <2>3 DEF NamesInv, TimePasses
    <2>4. CASE UNCHANGED vars
      BY <2>4 DEF NamesInv, vars
    <2> QED
      BY <2>1, <2>2, <2>3, <2>4 DEF Next
  <1> QED
    BY <1>1, <1>2, PTL DEF Spec

\* No two names are printed alike: what can be read is the one encoding of its
\* text (config.go:257-279, 318-337).
THEOREM NamesAreNotConfused ==
    Spec => []TextDeterminesBytes
  <1>1. NamesInv => TextDeterminesBytes
    <2> SUFFICES ASSUME bytes \in Seq(Byte) PROVE TextDeterminesBytes
      BY DEF NamesInv
    <2>1. ASSUME String(bytes).valid
          PROVE  TrustAnchorIDFromString(String(bytes).text).value = bytes
      <3> DEFINE t == String(bytes).text
      <3>1. t \in Seq(Arc) /\ t # <<>> /\ Written(ArcCode, t) = bytes
        BY <2>1, IDTexts
      <3> HIDE DEF t
      <3>2. TrustAnchorIDFromString(t) = [ok |-> TRUE, value |-> bytes]
        BY <3>1, EncodedIDs
      <3> QED
        BY <3>2 DEF t
    <2>2. ASSUME PatternString(bytes).valid
          PROVE  TrustAnchorIDPatternFromString(PatternString(bytes).text).value = bytes
      <3> DEFINE t == PatternString(bytes).text
      <3>1. t \in Seq(Ranges) /\ t # <<>> /\ Written(RangeCode, t) = bytes
        BY <2>2, PatternTexts
      <3> HIDE DEF t
      <3>2. TrustAnchorIDPatternFromString(t) = [ok |-> TRUE, value |-> bytes]
        BY <3>1, EncodedPatterns
      <3> QED
        BY <3>2 DEF t
    <2> QED
      BY <2>1, <2>2 DEF TextDeterminesBytes
  <1> QED
    BY <1>1, NamesAreTyped, PTL

\* Every text is refused, or survives its encoding (config.go:281-316, 350-431).
THEOREM NamesSurvive ==
    Spec => []TextsSurviveEncoding
  <1>1. NamesInv => TextsSurviveEncoding
    <2> DEFINE mins == [i \in DOMAIN parts |-> parts[i].min]
               id == TrustAnchorIDFromString(mins)
               pattern == TrustAnchorIDPatternFromString(parts)
    <2> SUFFICES ASSUME parts \in Seq([min : EdgeNumbers, max : EdgeNumbers \cup {Infinity}]),
                        parts # <<>>
                 PROVE  /\ IF \A i \in DOMAIN parts : mins[i] \in Arc
                           THEN id.ok /\ String(id.value) = [valid |-> TRUE, text |-> mins]
                           ELSE ~id.ok
                        /\ pattern.ok =>
                              PatternString(pattern.value) = [valid |-> TRUE, text |-> parts]
      BY Zenon DEF NamesInv, TextsSurviveEncoding
    <2>1. DOMAIN mins = DOMAIN parts /\ DOMAIN parts = 1 .. Len(parts) /\ Len(parts) \in Nat \ {0}
      OBVIOUS
    <2>2. ASSUME \A i \in DOMAIN parts : mins[i] \in Arc
          PROVE  id.ok /\ String(id.value) = [valid |-> TRUE, text |-> mins]
      <3> DEFINE n == Len(parts)
      <3>1. n \in Nat \ {0} /\ mins = [i \in 1 .. n |-> mins[i]] /\ \A i \in 1 .. n : mins[i] \in Arc
        BY <2>1, <2>2
      <3> HIDE DEF mins, n
      <3>2. mins \in Seq(Arc) /\ Len(mins) = n /\ mins # <<>>
        BY <3>1
      <3> DEFINE w == Written(ArcCode, mins)
      <3>3. id = [ok |-> TRUE, value |-> w] /\ w \in Seq(Byte)
        BY <3>2, EncodedIDs
      <3>4. String(w) = [valid |-> TRUE, text |-> mins]
        BY <3>2, <3>3, IDTexts
      <3> HIDE DEF w, id
      <3>5. id.ok /\ id.value = w
        BY <3>3
      <3> QED
        BY <3>4, <3>5
    <2>3. ASSUME ~\A i \in DOMAIN parts : mins[i] \in Arc
          PROVE  ~id.ok
      <3>1. id = Failed
        BY <2>1, <2>3, Zenon DEF TrustAnchorIDFromString
      <3> QED
        BY <3>1 DEF Failed
    <2>4. ASSUME pattern.ok
          PROVE  PatternString(pattern.value) = [valid |-> TRUE, text |-> parts]
      <3>1. \A i \in DOMAIN parts : parts[i].min \in Arc /\ parts[i].max \in Arc \cup {Infinity}
        <4> SUFFICES ASSUME ~\A i \in DOMAIN parts :
                               parts[i].min \in Arc /\ parts[i].max \in Arc \cup {Infinity}
                     PROVE  FALSE
          OBVIOUS
        <4>1. pattern = Failed
          BY Zenon DEF TrustAnchorIDPatternFromString
        <4> QED
          BY <2>4, <4>1 DEF Failed
      <3>2. \A i \in DOMAIN parts : parts[i] \in Ranges
        <4> TAKE i \in DOMAIN parts
        <4>1. parts[i] \in [min : EdgeNumbers, max : EdgeNumbers \cup {Infinity}]
          <5> DEFINE T == [min : EdgeNumbers, max : EdgeNumbers \cup {Infinity}]
          <5>1. parts \in Seq(T)
            OBVIOUS
          <5> HIDE DEF T
          <5>2. parts[i] \in T
            BY <5>1
          <5> QED
            BY <5>2 DEF T
        <4>2. parts[i] = [min |-> parts[i].min, max |-> parts[i].max]
          BY <4>1
        <4> QED
          BY <3>1, <4>2 DEF Ranges
      <3>3. parts \in Seq(Ranges)
        BY <3>2
      <3> DEFINE w == Written(RangeCode, parts)
      <3>4. pattern = [ok |-> TRUE, value |-> w] /\ w \in Seq(Byte)
        BY <3>3, EncodedPatterns
      <3>5. PatternString(w) = [valid |-> TRUE, text |-> parts]
        BY <3>3, <3>4, PatternTexts
      <3> HIDE DEF w, pattern
      <3>6. pattern.value = w
        BY <3>4
      <3> QED
        BY <3>5, <3>6
    <2> QED
      BY <2>2, <2>3, <2>4
  <1> QED
    BY <1>1, NamesAreTyped, PTL

-----------------------------------------------------------------------------

\* An ID with another arc, and a pattern with another range.
LEMMA ArcAppended ==
    ASSUME NEW t \in Seq(Arc), NEW v \in Arc
    PROVE  /\ appendBase128(Written(ArcCode, t), v) = Written(ArcCode, Append(t, v))
           /\ Append(t, v) \in Seq(Arc) /\ Append(t, v) # <<>>
  <1>1. ArcCode \in [Arc -> Seq(Byte)]
    BY ArcCodec DEF IsCodec
  <1>2. Written(ArcCode, Append(t, v)) = Written(ArcCode, t) \o ArcCode[v]
    BY <1>1, WrittenIs
  <1>3. ArcCode[v] = ArcBytes(v) /\ v \in Nat
    BY ArcIsNat DEF ArcCode
  <1>4. appendBase128(Written(ArcCode, t), v) = Written(ArcCode, t) \o ArcBytes(v)
    BY <1>3, ArcBytesAre
  <1>5. Append(t, v) \in Seq(Arc) /\ Append(t, v) # <<>>
    <2>1. Append(t, v) \in Seq(Arc) /\ Len(Append(t, v)) = Len(t) + 1 /\ Len(t) \in Nat
      OBVIOUS
    <2> QED
      BY <2>1
  <1> QED
    BY <1>2, <1>3, <1>4, <1>5

LEMMA RangeAppendedTo ==
    ASSUME NEW t \in Seq(Ranges), NEW m \in Arc
    PROVE  LET w == Written(RangeCode, t)
               i == Append(t, [min |-> m, max |-> Infinity])
               s == Append(t, [min |-> m, max |-> m])
           IN  /\ appendPatternRangeWithInfinity(w, m) = Written(RangeCode, i)
               /\ appendPatternRange(w, m, m) = Written(RangeCode, s)
               /\ i \in Seq(Ranges) /\ i # <<>> /\ s \in Seq(Ranges) /\ s # <<>>
  <1> DEFINE w == Written(RangeCode, t)
             ri == [min |-> m, max |-> Infinity]
             rs == [min |-> m, max |-> m]
  <1>1. RangeCode \in [Ranges -> Seq(Byte)]
    BY RangeBytesAre
  <1>2. w \in Seq(Byte)
    BY <1>1, WrittenIs
  <1>3. /\ ri \in Ranges /\ ri.min = m /\ ri.max = Infinity
        /\ rs \in Ranges /\ rs.min = m /\ rs.max = m /\ m # Infinity
    BY ArcIsNat DEF Ranges
  <1> HIDE DEF ri, rs
  <1>4. /\ Written(RangeCode, Append(t, ri)) = w \o RangeCode[ri]
        /\ Written(RangeCode, Append(t, rs)) = w \o RangeCode[rs]
    BY <1>1, <1>3, WrittenIs
  <1> HIDE DEF w
  <1>5. /\ appendPatternRangeWithInfinity(w, m) = w \o RangeCode[ri]
        /\ appendPatternRange(w, m, m) = w \o RangeCode[rs]
    BY <1>2, <1>3, RangeAppended
  <1>6. /\ Append(t, ri) \in Seq(Ranges) /\ Append(t, ri) # <<>>
        /\ Append(t, rs) \in Seq(Ranges) /\ Append(t, rs) # <<>>
    BY <1>3
  <1> QED
    BY <1>4, <1>5, <1>6 DEF w, ri, rs

IsPrintedAs(id, t) == id \in Seq(Byte) /\ String(id) = [valid |-> TRUE, text |-> t]

\* The IDs that are built from an ID, by their texts.
LEMMA LongerIDs ==
    ASSUME NEW t \in Seq(Arc), NEW a \in Arc, NEW b \in Arc, NEW c \in Arc
    PROVE  LET w == Written(ArcCode, t)
               two == appendBase128(appendBase128(w, a), b)
               three == appendBase128(two, c)
           IN  /\ IsPrintedAs(two, Append(Append(t, a), b))
               /\ IsPrintedAs(three, Append(Append(Append(t, a), b), c))
  <1> DEFINE ta == Append(t, a)
             tb == Append(ta, b)
             tc == Append(tb, c)
  <1>1. ta \in Seq(Arc) /\ appendBase128(Written(ArcCode, t), a) = Written(ArcCode, ta)
    BY ArcAppended
  <1> HIDE DEF ta
  <1>2. /\ tb \in Seq(Arc) /\ tb # <<>>
        /\ appendBase128(Written(ArcCode, ta), b) = Written(ArcCode, tb)
    BY <1>1, ArcAppended
  <1> HIDE DEF tb
  <1>3. /\ tc \in Seq(Arc) /\ tc # <<>>
        /\ appendBase128(Written(ArcCode, tb), c) = Written(ArcCode, tc)
    BY <1>2, ArcAppended
  <1> HIDE DEF tc
  <1>4. /\ Written(ArcCode, tb) \in Seq(Byte)
        /\ String(Written(ArcCode, tb)) = [valid |-> TRUE, text |-> tb]
    BY <1>2, EncodedIDs, IDTexts
  <1>5. /\ Written(ArcCode, tc) \in Seq(Byte)
        /\ String(Written(ArcCode, tc)) = [valid |-> TRUE, text |-> tc]
    BY <1>3, EncodedIDs, IDTexts
  <1> QED
    BY <1>1, <1>2, <1>3, <1>4, <1>5 DEF ta, tb, tc, IsPrintedAs

GroupText(t, log, landmarkNum) ==
    IF landmarkNum > 0
    THEN Append(Append(Append(Singles(t), [min |-> 2, max |-> 2]), [min |-> log, max |-> log]),
                [min |-> landmarkNum, max |-> Infinity])
    ELSE Append(Append(Append(Singles(t), [min |-> 2, max |-> 2]), [min |-> 0, max |-> Infinity]),
                [min |-> 0, max |-> Infinity])

\* So are the groups of its certificates.
LEMMA GroupTexts ==
    ASSUME NEW id \in Seq(Byte), String(id).valid, NEW log \in Arc, NEW landmarkNum \in Arc
    PROVE  PatternString(TrustAnchorGroup(id, log, landmarkNum)) =
               [valid |-> TRUE, text |-> GroupText(String(id).text, log, landmarkNum)]
  <1> DEFINE t == String(id).text
             s0 == Singles(t)
             s1 == Append(s0, [min |-> 2, max |-> 2])
             l2 == Append(s1, [min |-> log, max |-> log])
             l3 == Append(l2, [min |-> landmarkNum, max |-> Infinity])
             e2 == Append(s1, [min |-> 0, max |-> Infinity])
             e3 == Append(e2, [min |-> 0, max |-> Infinity])
             Coded(s) == Written(RangeCode, s)
             g == appendPatternRange(TrustAnchorIDToPattern(id), 2, 2)
  <1>1. t \in Seq(Arc)
    BY IDTexts
  <1> HIDE DEF t
  <1>2. s0 \in Seq(Ranges) /\ TrustAnchorIDToPattern(id) = Coded(s0)
    BY <1>1, SinglesAppended DEF TrustAnchorIDToPattern, t
  <1> HIDE DEF s0, Coded
  <1>3. s1 \in Seq(Ranges) /\ g = Coded(s1)
    <2>1. 2 \in Arc
      BY ArcIsNat
    <2> QED
      BY <1>2, <2>1, RangeAppendedTo DEF Coded
  <1> HIDE DEF s1, g
  <1>4. l2 \in Seq(Ranges) /\ appendPatternRange(g, log, log) = Coded(l2)
    BY <1>3, RangeAppendedTo DEF Coded
  <1>5. e2 \in Seq(Ranges) /\ appendPatternRangeWithInfinity(g, 0) = Coded(e2)
    <2>1. 0 \in Arc
      BY ArcIsNat
    <2> QED
      BY <1>3, <2>1, RangeAppendedTo DEF Coded
  <1> HIDE DEF l2, e2
  <1>6. /\ l3 \in Seq(Ranges) /\ l3 # <<>>
        /\ appendPatternRangeWithInfinity(Coded(l2), landmarkNum) = Coded(l3)
    BY <1>4, RangeAppendedTo DEF Coded
  <1>7. e3 \in Seq(Ranges) /\ e3 # <<>> /\ appendPatternRangeWithInfinity(Coded(e2), 0) = Coded(e3)
    <2>1. 0 \in Arc
      BY ArcIsNat
    <2> QED
      BY <1>5, <2>1, RangeAppendedTo DEF Coded
  <1> HIDE DEF l3, e3
  <1>8. /\ PatternString(Coded(l3)) = [valid |-> TRUE, text |-> l3]
        /\ PatternString(Coded(e3)) = [valid |-> TRUE, text |-> e3]
    BY <1>6, <1>7, EncodedPatterns, PatternTexts DEF Coded
  <1>9. CASE landmarkNum > 0
    <2>1. TrustAnchorGroup(id, log, landmarkNum) = Coded(l3)
      BY <1>4, <1>6, <1>9, Zenon DEF TrustAnchorGroup, g
    <2>2. GroupText(t, log, landmarkNum) = l3
      BY <1>9, Zenon DEF GroupText, l3, l2, s1, s0
    <2> QED
      BY <1>8, <2>1, <2>2, Zenon DEF t
  <1>10. CASE ~(landmarkNum > 0)
    <2>1. TrustAnchorGroup(id, log, landmarkNum) = Coded(e3)
      BY <1>5, <1>7, <1>10, Zenon DEF TrustAnchorGroup, g
    <2>2. GroupText(t, log, landmarkNum) = e3
      BY <1>10, Zenon DEF GroupText, e3, e2, s1, s0
    <2> QED
      BY <1>8, <2>1, <2>2, Zenon DEF t
  <1> QED
    BY <1>9, <1>10

\* The relatives of an ID that are IDs.
LEMMA RelativesAreIDs ==
    ASSUME NEW id \in Seq(Byte), String(id).valid, NEW ca \in Relatives(id)
    PROVE  /\ ca \in Seq(Byte) /\ String(ca).valid
           /\ String(ca).text \in Seq(Arc) /\ ca = Written(ArcCode, String(ca).text)
           /\ String(id).text \in Seq(Arc) /\ id = Written(ArcCode, String(id).text)
  <1>1. ca \in {id, Append(id, 0), Append(id, 1), Append(id, 2), Tail(id)} /\ String(ca).valid
    BY DEF Relatives
  <1>2. {0, 1, 2} \subseteq Byte
    BY ByteIs DEF Byte
  <1>3. id # <<>>
    <2>1. String(id).text # <<>> /\ String(id).text \in Seq(Arc)
          /\ Written(ArcCode, String(id).text) = id
      BY IDTexts
    <2> QED
      BY <2>1, EncodedIDs
  <1>4. Append(id, 0) \in Seq(Byte) /\ Append(id, 1) \in Seq(Byte) /\ Append(id, 2) \in Seq(Byte)
    BY <1>2
  <1>5. Tail(id) \in Seq(Byte)
    BY <1>3
  <1>6. ca \in Seq(Byte)
    BY <1>1, <1>4, <1>5
  <1> QED
    BY <1>1, <1>6, IDTexts

\* What is seen of a sequence to which three values were appended.
LEMMA ThreeAppended ==
    ASSUME NEW S, NEW t \in Seq(S), NEW a \in S, NEW b \in S, NEW c \in S
    PROVE  LET s == Append(Append(Append(t, a), b), c)
               n == Len(t)
           IN  /\ n \in Nat /\ s \in Seq(S) /\ Len(s) = n + 3
               /\ DOMAIN s = 1 .. n + 3
               /\ \A i \in 1 .. n : s[i] = t[i]
               /\ s[n + 1] = a /\ s[n + 2] = b /\ s[n + 3] = c
  OBVIOUS

Covers(ranges, arcs) ==
    /\ Len(ranges) = Len(arcs)
    /\ \A i \in DOMAIN arcs : ranges[i].min <= arcs[i] /\ arcs[i] <= ranges[i].max

\* When an ID of three more arcs is in the group.
LEMMA InGroupIf ==
    ASSUME NEW t \in Seq(Arc), NEW u \in Seq(Arc), NEW log \in Arc, NEW landmarkNum \in Arc,
           NEW n \in Arc, NEW latest \in Arc
    PROVE  Covers(GroupText(t, log, landmarkNum), Append(Append(Append(u, 2), n), latest)) <=>
               /\ u = t
               /\ landmarkNum > 0 => n = log /\ landmarkNum <= latest
  <1> DEFINE arcs == Append(Append(Append(u, 2), n), latest)
             ranges == GroupText(t, log, landmarkNum)
             k == Len(t)
             r1 == [min |-> 2, max |-> 2]
             r2 == IF landmarkNum > 0 THEN [min |-> log, max |-> log]
                                      ELSE [min |-> 0, max |-> Infinity]
             r3 == IF landmarkNum > 0 THEN [min |-> landmarkNum, max |-> Infinity]
                                      ELSE [min |-> 0, max |-> Infinity]
  <1>1. ranges = Append(Append(Append(Singles(t), r1), r2), r3)
    BY Zenon DEF GroupText
  <1>2. 2 \in Arc /\ 0 \in Arc
    BY ArcIsNat
  <1>3. r1 \in Ranges /\ r1.min = 2 /\ r1.max = 2
    BY <1>2 DEF Ranges
  <1>4. r2 \in Ranges /\ r3 \in Ranges
    <2>1. CASE landmarkNum > 0
      BY <2>1 DEF Ranges
    <2>2. CASE ~(landmarkNum > 0)
      BY <1>2, <2>2 DEF Ranges
    <2> QED
      BY <2>1, <2>2
  <1>5. /\ landmarkNum > 0 => /\ r2.min = log /\ r2.max = log
                              /\ r3.min = landmarkNum /\ r3.max = Infinity
        /\ ~(landmarkNum > 0) => /\ r2.min = 0 /\ r2.max = Infinity
                                 /\ r3.min = 0 /\ r3.max = Infinity
    OBVIOUS
  <1>6. Singles(t) \in Seq(Ranges) /\ Len(Singles(t)) = k
    BY SinglesAppended
  <1>7. \A i \in 1 .. k : Singles(t)[i].min = t[i] /\ Singles(t)[i].max = t[i]
    BY DEF Singles
  <1> HIDE DEF r1, r2, r3
  <1>8. /\ k \in Nat /\ Len(ranges) = k + 3
        /\ \A i \in 1 .. k : ranges[i] = Singles(t)[i]
        /\ ranges[k + 1] = r1 /\ ranges[k + 2] = r2 /\ ranges[k + 3] = r3
    <2> DEFINE s == Singles(t)
    <2>1. s \in Seq(Ranges) /\ Len(s) = k /\ ranges = Append(Append(Append(s, r1), r2), r3)
      BY <1>1, <1>6
    <2> HIDE DEF s, k
    <2>2. /\ Len(s) \in Nat /\ Len(ranges) = Len(s) + 3
          /\ \A i \in 1 .. Len(s) : ranges[i] = s[i]
          /\ ranges[Len(s) + 1] = r1 /\ ranges[Len(s) + 2] = r2 /\ ranges[Len(s) + 3] = r3
      BY <1>3, <1>4, <2>1, ThreeAppended
    <2> QED
      BY <2>1, <2>2 DEF s
  <1>9. /\ Len(u) \in Nat /\ Len(arcs) = Len(u) + 3 /\ DOMAIN arcs = 1 .. Len(u) + 3
        /\ \A i \in 1 .. Len(u) : arcs[i] = u[i]
        /\ arcs[Len(u) + 1] = 2 /\ arcs[Len(u) + 2] = n /\ arcs[Len(u) + 3] = latest
    BY <1>2, ThreeAppended
  <1> HIDE DEF arcs, ranges
  <1>10. /\ \A v \in Arc : v \in Nat /\ v < ArcLimit
         /\ ArcLimit \in Nat /\ Infinity \in Nat /\ ArcLimit < Infinity
    BY WidthAssumption, ArcIsNat
  <1>11. n \in Nat /\ latest \in Nat /\ log \in Nat /\ landmarkNum \in Nat
         /\ n < Infinity /\ latest < Infinity
    BY <1>10
  <1>12. (\A i \in 1 .. k : t[i] \in Nat) /\ (\A i \in 1 .. Len(u) : u[i] \in Nat)
    <2>1. (\A i \in 1 .. k : t[i] \in Arc) /\ (\A i \in 1 .. Len(u) : u[i] \in Arc)
      OBVIOUS
    <2> QED
      BY <1>10, <2>1
  <1>13. ASSUME Len(ranges) = Len(arcs),
                \A i \in DOMAIN arcs : ranges[i].min <= arcs[i] /\ arcs[i] <= ranges[i].max
         PROVE  u = t /\ (landmarkNum > 0 => n = log /\ landmarkNum <= latest)
    <2>1. Len(u) = k
      BY <1>8, <1>9, <1>13
    <2>2. \A i \in 1 .. k : t[i] = u[i]
      <3> TAKE i \in 1 .. k
      <3>1. i \in DOMAIN arcs /\ arcs[i] = u[i] /\ ranges[i].min = t[i] /\ ranges[i].max = t[i]
        BY <1>7, <1>8, <1>9, <2>1
      <3>2. t[i] <= u[i] /\ u[i] <= t[i]
        BY <1>13, <3>1
      <3> QED
        BY <1>12, <2>1, <3>2
    <2>3. u = t
      BY <2>1, <2>2, SeqEqual
    <2>4. landmarkNum > 0 => n = log /\ landmarkNum <= latest
      <3> SUFFICES ASSUME landmarkNum > 0 PROVE n = log /\ landmarkNum <= latest
        OBVIOUS
      <3>1. k + 2 \in DOMAIN arcs /\ k + 3 \in DOMAIN arcs
        BY <1>8, <1>9, <2>1
      <3>2. log <= n /\ n <= log /\ landmarkNum <= latest
        BY <1>5, <1>8, <1>9, <1>13, <2>1, <3>1
      <3> QED
        BY <1>11, <3>2
    <2> QED
      BY <2>3, <2>4
  <1>14. ASSUME u = t, landmarkNum > 0 => n = log /\ landmarkNum <= latest
         PROVE  /\ Len(ranges) = Len(arcs)
                /\ \A i \in DOMAIN arcs : ranges[i].min <= arcs[i] /\ arcs[i] <= ranges[i].max
    <2>1. Len(ranges) = Len(arcs) /\ Len(u) = k
      BY <1>8, <1>9, <1>14
    <2>2. ASSUME NEW i \in DOMAIN arcs
          PROVE  ranges[i].min <= arcs[i] /\ arcs[i] <= ranges[i].max
      <3>1. i \in 1 .. k \/ i = k + 1 \/ i = k + 2 \/ i = k + 3
        BY <1>8, <1>9, <2>1
      <3>2. CASE i \in 1 .. k
        BY <1>7, <1>8, <1>9, <1>12, <1>14, <2>1, <3>2
      <3>3. CASE i = k + 1
        BY <1>3, <1>8, <1>9, <2>1, <3>3
      <3>4. CASE i = k + 2
        BY <1>5, <1>8, <1>9, <1>10, <1>11, <1>14, <2>1, <3>4
      <3>5. CASE i = k + 3
        BY <1>5, <1>8, <1>9, <1>10, <1>11, <1>14, <2>1, <3>5
      <3> QED
        BY <3>1, <3>2, <3>3, <3>4, <3>5
    <2> QED
      BY <2>1, <2>2
  <1> QED
    BY <1>13, <1>14, Zenon DEF Covers, arcs, ranges

\* A relying party's latest landmark is in the group of a certificate exactly
\* if it says that the relying party accepts the certificate
\* (generate.go:250-261).
THEOREM GroupsAreRight ==
    Spec => []GroupsSignalSupport
  <1>1. NamesInv => GroupsSignalSupport
    <2> SUFFICES ASSUME bytes \in Seq(Byte), String(bytes).valid,
                        NEW log \in LogNumbers, NEW landmarkNum \in LandmarkNumbers \cup {0},
                        NEW ca \in Relatives(bytes), NEW n \in LogNumbers,
                        NEW latest \in LandmarkNumbers
                 PROVE  InGroup(LandmarkOf(ca, n, latest),
                                TrustAnchorGroup(bytes, log, landmarkNum)) <=>
                            /\ ca = bytes
                            /\ landmarkNum > 0 => n = log /\ landmarkNum <= latest
      BY Zenon DEF NamesInv, GroupsSignalSupport
    <2> DEFINE t == String(bytes).text
               u == String(ca).text
               arcs == Append(Append(Append(u, 2), n), latest)
               ranges == GroupText(t, log, landmarkNum)
               id == LandmarkOf(ca, n, latest)
               group == TrustAnchorGroup(bytes, log, landmarkNum)
    <2>1. /\ log \in Arc /\ landmarkNum \in Arc /\ n \in Arc /\ latest \in Arc /\ 2 \in Arc
      BY NamesAssumption, ArcIsNat
    <2>2. /\ u \in Seq(Arc) /\ ca = Written(ArcCode, u)
          /\ t \in Seq(Arc) /\ bytes = Written(ArcCode, t)
      BY RelativesAreIDs
    <2>3. PatternString(group) = [valid |-> TRUE, text |-> ranges]
      BY <2>1, GroupTexts
    <2>4. String(id) = [valid |-> TRUE, text |-> arcs]
      <3> DEFINE k == 2
      <3>1. k \in Arc
        BY <2>1
      <3> HIDE DEF u, k
      <3>2. IsPrintedAs(appendBase128(appendBase128(appendBase128(Written(ArcCode, u), k), n), latest),
                    Append(Append(Append(u, k), n), latest))
        BY <2>1, <2>2, <3>1, LongerIDs
      <3> QED
        BY <2>2, <3>2, Zenon DEF LandmarkOf, k, IsPrintedAs
    <2> HIDE DEF t, u, arcs, ranges, id, group
    <2>5. PatternString(group).text = ranges /\ String(id).text = arcs
      <3> DEFINE x == PatternString(group)
                 y == String(id)
      <3>1. x = [valid |-> TRUE, text |-> ranges] /\ y = [valid |-> TRUE, text |-> arcs]
        BY <2>3, <2>4
      <3> HIDE DEF x, y
      <3>2. x.text = ranges /\ y.text = arcs
        BY <3>1
      <3> QED
        BY <3>2 DEF x, y
    <2>6. InGroup(id, group) <=> Covers(ranges, arcs)
      BY <2>5, Zenon DEF InGroup, Covers
    <2>7. InGroup(id, group) <=>
            /\ u = t
            /\ landmarkNum > 0 => n = log /\ landmarkNum <= latest
      BY <2>1, <2>2, <2>6, InGroupIf DEF arcs, ranges
    <2>8. u = t <=> ca = bytes
      BY <2>2 DEF u, t
    <2> QED
      BY <2>7, <2>8 DEF id, group
  <1> QED
    BY <1>1, NamesAreTyped, PTL

\* A landmark's ID is its own, and no log's (generate.go:246-249, encode.go:388-396).
THEOREM LandmarksHaveOneID ==
    Spec => []LandmarkIDsAreDistinct
  <1>1. NamesInv => LandmarkIDsAreDistinct
    <2> SUFFICES ASSUME bytes \in Seq(Byte), String(bytes).valid,
                        NEW log \in LogNumbers, NEW n \in LogNumbers,
                        NEW l \in LandmarkNumbers, NEW m \in LandmarkNumbers,
                        NEW ca \in Relatives(bytes)
                 PROVE  /\ CertificateTrustAnchorID(bytes, log, l) =
                                CertificateTrustAnchorID(ca, n, m) =>
                             ca = bytes /\ n = log /\ m = l
                        /\ CertificateTrustAnchorID(bytes, log, l) # LogID(TRUE, ca, n)
      BY Zenon DEF NamesInv, LandmarkIDsAreDistinct
    <2> DEFINE t == String(bytes).text
               u == String(ca).text
               a == Append(Append(Append(t, 1), log), l)
               b == Append(Append(Append(u, 1), n), m)
               c == Append(Append(u, 0), n)
               x == CertificateTrustAnchorID(bytes, log, l)
               y == CertificateTrustAnchorID(ca, n, m)
               z == LogID(TRUE, ca, n)
    <2>1. /\ log \in Arc \ {0} /\ l \in Arc \ {0} /\ n \in Arc /\ m \in Arc \ {0}
          /\ 1 \in Arc /\ 0 \in Arc /\ l > 0 /\ m > 0
      BY NamesAssumption, ArcIsNat
    <2>2. /\ u \in Seq(Arc) /\ ca = Written(ArcCode, u)
          /\ t \in Seq(Arc) /\ bytes = Written(ArcCode, t)
      BY RelativesAreIDs
    <2> HIDE DEF t, u
    <2>3. /\ String(x) = [valid |-> TRUE, text |-> a]
          /\ String(y) = [valid |-> TRUE, text |-> b]
          /\ String(z) = [valid |-> TRUE, text |-> c]
      <3> DEFINE k == 1
                 o == 0
      <3>1. k \in Arc /\ o \in Arc
        BY <2>1
      <3> HIDE DEF k, o
      <3>2. IsPrintedAs(appendBase128(appendBase128(appendBase128(Written(ArcCode, t), k), log), l),
                    Append(Append(Append(t, k), log), l))
        BY <2>1, <2>2, <3>1, LongerIDs
      <3>3. IsPrintedAs(appendBase128(appendBase128(appendBase128(Written(ArcCode, u), k), n), m),
                    Append(Append(Append(u, k), n), m))
        BY <2>1, <2>2, <3>1, LongerIDs
      <3>4. IsPrintedAs(appendBase128(appendBase128(Written(ArcCode, u), o), n),
                    Append(Append(u, o), n))
        BY <2>1, <2>2, <3>1, LongerIDs
      <3> QED
        BY <2>1, <2>2, <3>2, <3>3, <3>4, Zenon DEF CertificateTrustAnchorID, LogID, k, o, IsPrintedAs
    <2> HIDE DEF x, y, z
    <2>4. /\ Len(t) \in Nat /\ Len(a) = Len(t) + 3 /\ a \in Seq(Arc)
          /\ \A i \in 1 .. Len(t) : a[i] = t[i]
          /\ a[Len(t) + 2] = log /\ a[Len(t) + 3] = l
      BY <2>1, <2>2, ThreeAppended
    <2>5. /\ Len(u) \in Nat /\ Len(b) = Len(u) + 3
          /\ \A i \in 1 .. Len(u) : b[i] = u[i]
          /\ b[Len(u) + 2] = n /\ b[Len(u) + 3] = m
      BY <2>1, <2>2, ThreeAppended
    <2>6. Len(c) = Len(u) + 2 /\ c[Len(u) + 1] = 0
      BY <2>1, <2>2
    <2> HIDE DEF a, b, c
    <2>7. ASSUME x = y PROVE ca = bytes /\ n = log /\ m = l
      <3>1. a = b
        <4>1. [valid |-> TRUE, text |-> a] = [valid |-> TRUE, text |-> b]
          BY <2>3, <2>7
        <4> QED
          BY <4>1
      <3>2. Len(t) = Len(u)
        BY <2>4, <2>5, <3>1
      <3>3. \A i \in 1 .. Len(t) : t[i] = u[i]
        BY <2>4, <2>5, <3>1, <3>2
      <3>4. t = u
        BY <2>2, <3>2, <3>3, SeqEqual
      <3> QED
        BY <2>2, <2>4, <2>5, <3>1, <3>2, <3>4
    <2>8. x # z
      <3> SUFFICES ASSUME x = z PROVE FALSE
        OBVIOUS
      <3>1. a = c
        <4>1. [valid |-> TRUE, text |-> a] = [valid |-> TRUE, text |-> c]
          BY <2>3
        <4> QED
          BY <4>1
      <3>2. Len(u) + 1 = Len(t) + 2
        BY <2>4, <2>5, <2>6, <3>1
      <3> QED
        BY <2>1, <2>4, <2>6, <3>1, <3>2
    <2> QED
      BY <2>7, <2>8 DEF x, y, z
  <1> QED
    BY <1>1, NamesAreTyped, PTL

-----------------------------------------------------------------------------

\* What a message consists of, and its parts one after the other.
Word8 == Int \cup Hashes \cup (0 .. MaxSize)

DraftBody(c, l, t, s, e, h) ==
    <<SubtreeLabel>> \o (LengthPrefixed(tlogOrigin(c)) \o
        (<<t>> \o (LengthPrefixed(tlogOrigin(l)) \o <<s, e, h>>)))

PlainBody(c, l, s, e, h) ==
    <<MTCSubtreeLabel>> \o (LengthPrefixed(c) \o (LengthPrefixed(l) \o <<s, e, h>>))

Body(plants04, c, l, t, s, e, h) ==
    IF plants04 THEN DraftBody(c, l, t, s, e, h) ELSE PlainBody(c, l, s, e, h)

IsConcat(p, a, x) == p = a \o x

LEMMA ConcatIs ==
    ASSUME NEW S, NEW a \in Seq(S), NEW x \in Seq(S), NEW p, IsConcat(p, a, x)
    PROVE  /\ Len(a) \in Nat /\ Len(x) \in Nat /\ p \in Seq(S) /\ Len(p) = Len(a) + Len(x)
           /\ \A i \in 1 .. Len(a) : p[i] = a[i]
           /\ \A i \in 1 .. Len(x) : p[Len(a) + i] = x[i]
  BY DEF IsConcat

\* Two sequences whose first parts are as long are equal part by part.
LEMMA PartsEqual ==
    ASSUME NEW S, NEW a \in Seq(S), NEW b \in Seq(S), NEW x \in Seq(S), NEW y \in Seq(S),
           NEW p, IsConcat(p, a, x), IsConcat(p, b, y), Len(a) = Len(b)
    PROVE  a = b /\ x = y
  <1>1. /\ Len(a) \in Nat /\ Len(x) \in Nat /\ Len(p) = Len(a) + Len(x)
        /\ \A i \in 1 .. Len(a) : p[i] = a[i]
        /\ \A i \in 1 .. Len(x) : p[Len(a) + i] = x[i]
    BY ConcatIs
  <1>2. /\ Len(b) \in Nat /\ Len(y) \in Nat /\ Len(p) = Len(b) + Len(y)
        /\ \A i \in 1 .. Len(b) : p[i] = b[i]
        /\ \A i \in 1 .. Len(y) : p[Len(b) + i] = y[i]
    BY ConcatIs
  <1>3. Len(x) = Len(y)
    BY <1>1, <1>2
  <1>4. (\A i \in 1 .. Len(a) : a[i] = b[i]) /\ (\A i \in 1 .. Len(x) : x[i] = y[i])
    BY <1>1, <1>2, <1>3
  <1>5. a = b
    BY <1>4, SeqEqual
  <1>6. x = y
    BY <1>3, <1>4, SeqEqual
  <1> QED
    BY <1>5, <1>6

LEMMA OneEqual ==
    ASSUME NEW S, NEW u \in S, NEW v \in S, NEW x \in Seq(S), NEW y \in Seq(S),
           NEW p, IsConcat(p, <<u>>, x), IsConcat(p, <<v>>, y)
    PROVE  u = v /\ x = y
  <1> DEFINE a == <<u>>
             b == <<v>>
  <1>1. a \in Seq(S) /\ b \in Seq(S) /\ Len(a) = Len(b) /\ a[1] = u /\ b[1] = v
    OBVIOUS
  <1>2. IsConcat(p, a, x) /\ IsConcat(p, b, y)
    OBVIOUS
  <1> HIDE DEF a, b
  <1>3. a = b /\ x = y
    BY <1>1, <1>2, PartsEqual
  <1> QED
    BY <1>1, <1>3

LEMMA WordsJoin ==
    \A a, b, c \in Seq(Word8) : (a \o b) \o c = a \o (b \o c)
  <1> TAKE a, b, c \in Seq(Word8)
  <1> QED
    BY ConcatAssociative

LEMMA PrefixedIs ==
    ASSUME NEW a \in Seq(Word8)
    PROVE  LengthPrefixed(a) \in Seq(Word8)
  <1>1. Len(a) \in Word8
    BY DEF Word8
  <1> QED
    BY <1>1 DEF LengthPrefixed

LEMMA PrefixedSplits ==
    ASSUME NEW a \in Seq(Word8), NEW x \in Seq(Word8), NEW p, IsConcat(p, LengthPrefixed(a), x)
    PROVE  Len(a) \in Word8 /\ a \o x \in Seq(Word8) /\ IsConcat(p, <<Len(a)>>, a \o x)
  <1> DEFINE k == Len(a)
             y == <<k>>
  <1>1. k \in Word8 /\ a \o x \in Seq(Word8)
    BY DEF Word8
  <1>2. y \in Seq(Word8)
    BY <1>1
  <1>3. p = (y \o a) \o x
    BY DEF LengthPrefixed, IsConcat
  <1> HIDE DEF k, y
  <1>4. (y \o a) \o x = y \o (a \o x)
    BY <1>2, WordsJoin
  <1> QED
    BY <1>1, <1>3, <1>4 DEF IsConcat, k, y

LEMMA PrefixedEqual ==
    ASSUME NEW a \in Seq(Word8), NEW b \in Seq(Word8), NEW x \in Seq(Word8), NEW y \in Seq(Word8),
           NEW p, IsConcat(p, LengthPrefixed(a), x), IsConcat(p, LengthPrefixed(b), y)
    PROVE  a = b /\ x = y
  <1> DEFINE k == Len(a)
             l == Len(b)
             q == a \o x
             r == b \o y
  <1>1. /\ k \in Word8 /\ q \in Seq(Word8) /\ IsConcat(p, <<k>>, q)
        /\ l \in Word8 /\ r \in Seq(Word8) /\ IsConcat(p, <<l>>, r)
    BY PrefixedSplits
  <1>2. k = l /\ q = r
    <2> HIDE DEF k, l, q, r
    <2> QED
      BY <1>1, OneEqual
  <1>3. IsConcat(q, a, x) /\ IsConcat(q, b, y)
    <2>1. q = a \o x /\ r = b \o y
      OBVIOUS
    <2> HIDE DEF q, r
    <2> QED
      BY <1>2, <2>1, Zenon DEF IsConcat
  <1> HIDE DEF q, r
  <1> QED
    BY <1>2, <1>3, PartsEqual DEF k, l

LEMMA WordsAre ==
    /\ Seq(Byte) \subseteq Seq(Word8) /\ Seq(Arc) \subseteq Seq(Word8)
    /\ SubtreeLabel \in Word8 /\ MTCSubtreeLabel \in Word8 /\ OriginPrefix \in Word8
    /\ SubtreeLabel # MTCSubtreeLabel
  <1>1. Byte \subseteq Word8 /\ Arc \subseteq Word8
    BY ByteIs, ArcIsNat DEF Word8
  <1>2. ASSUME NEW A, A \subseteq Word8, NEW s \in Seq(A) PROVE s \in Seq(Word8)
    <2>1. Len(s) \in Nat /\ s = [i \in 1 .. Len(s) |-> s[i]] /\ \A i \in 1 .. Len(s) : s[i] \in Word8
      BY <1>2
    <2> QED
      BY <2>1
  <1>3. SubtreeLabel \in Int /\ MTCSubtreeLabel \in Int /\ OriginPrefix \in Int
    BY DEF SubtreeLabel, MTCSubtreeLabel, OriginPrefix
  <1>4. SubtreeLabel # MTCSubtreeLabel
    BY DEF SubtreeLabel, MTCSubtreeLabel
  <1> QED
    BY <1>1, <1>2, <1>3, <1>4 DEF Word8

\* However they are put together.
FourJoined(a, b, c, d) ==
    /\ ((a \o b) \o c) \o d = a \o (b \o (c \o d))
    /\ a # <<>> => a \o (b \o (c \o d)) # <<>>

FiveJoined(a, b, c, d, e) ==
    /\ (((a \o b) \o c) \o d) \o e = a \o (b \o (c \o (d \o e)))
    /\ a # <<>> => a \o (b \o (c \o (d \o e))) # <<>>

LEMMA FourJoin ==
    ASSUME NEW a \in Seq(Word8), NEW b \in Seq(Word8), NEW c \in Seq(Word8), NEW d \in Seq(Word8)
    PROVE  FourJoined(a, b, c, d)
  <1> DEFINE p == a \o b
             q == c \o d
             r == b \o q
  <1>1. p \in Seq(Word8) /\ q \in Seq(Word8)
    OBVIOUS
  <1>2. (a \o b) \o q = a \o (b \o q)
    <2> HIDE DEF q
    <2> QED
      BY <1>1, WordsJoin
  <1>3. (p \o c) \o d = p \o (c \o d)
    <2> HIDE DEF p
    <2> QED
      BY <1>1, WordsJoin
  <1>4. r \in Seq(Word8)
    <2> HIDE DEF q
    <2> QED
      BY <1>1
  <1>5. a # <<>> => a \o r # <<>>
    <2> HIDE DEF r
    <2>1. Len(a \o r) = Len(a) + Len(r) /\ Len(a) \in Nat /\ Len(r) \in Nat
      BY <1>4
    <2>2. a # <<>> => Len(a) # 0
      OBVIOUS
    <2> QED
      BY <2>1, <2>2
  <1> QED
    BY <1>2, <1>3, <1>5, Zenon DEF FourJoined

LEMMA FiveJoin ==
    ASSUME NEW a \in Seq(Word8), NEW b \in Seq(Word8), NEW c \in Seq(Word8), NEW d \in Seq(Word8),
           NEW e \in Seq(Word8)
    PROVE  FiveJoined(a, b, c, d, e)
  <1> DEFINE p == (a \o b) \o c
             q == d \o e
  <1>1. p \in Seq(Word8) /\ q \in Seq(Word8)
    <2> DEFINE r == a \o b
    <2>1. r \in Seq(Word8)
      OBVIOUS
    <2> HIDE DEF r
    <2>2. r \o c \in Seq(Word8)
      BY <2>1
    <2> QED
      BY <2>2 DEF r
  <1>2. (p \o d) \o e = p \o (d \o e)
    <2> HIDE DEF p
    <2> QED
      BY <1>1, WordsJoin
  <1>3. FourJoined(a, b, c, q)
    <2> HIDE DEF q
    <2> QED
      BY <1>1, FourJoin
  <1> QED
    BY <1>2, <1>3, Zenon DEF FourJoined, FiveJoined

\* The message is nothing, or its parts.
LEMMA MessageIs ==
    ASSUME NEW plants04 \in BOOLEAN, NEW c, NEW l, NEW t \in Word8,
           NEW s \in Word8, NEW e \in Word8, NEW h \in Word8,
           plants04 => tlogOrigin(c) \in Seq(Word8) /\ tlogOrigin(l) \in Seq(Word8),
           ~plants04 => c \in Seq(Word8) /\ l \in Seq(Word8)
    PROVE  /\ cosignedMessage(plants04, c, l, t, s, e, h) =
                 IF \/ t # 0 /\ s # 0
                    \/ t # 0 /\ ~plants04
                    \/ ~IsValidSubtree(s, e)
                 THEN NoMessage ELSE Body(plants04, c, l, t, s, e, h)
           /\ Body(plants04, c, l, t, s, e, h) # NoMessage
  <1> DEFINE z == <<s, e, h>>
  <1>1. z \in Seq(Word8) /\ <<t>> \in Seq(Word8)
    OBVIOUS
  <1>2. <<SubtreeLabel>> \in Seq(Word8) /\ <<MTCSubtreeLabel>> \in Seq(Word8)
    BY WordsAre
  <1> HIDE DEF z
  <1>3. CASE plants04
    <2> DEFINE a == LengthPrefixed(tlogOrigin(c))
               b == LengthPrefixed(tlogOrigin(l))
               x == <<SubtreeLabel>>
    <2>1. a \in Seq(Word8) /\ b \in Seq(Word8) /\ x \in Seq(Word8) /\ x # <<>>
      BY <1>2, <1>3, PrefixedIs
    <2> HIDE DEF a, b, x
    <2> DEFINE y == <<t>>
    <2>2. y \in Seq(Word8)
      BY <1>1
    <2> HIDE DEF y
    <2>3. FiveJoined(x, a, y, b, z)
      BY <1>1, <2>1, <2>2, FiveJoin
    <2>4. /\ (((x \o a) \o y) \o b) \o z = x \o (a \o (y \o (b \o z)))
          /\ x \o (a \o (y \o (b \o z))) # <<>>
      BY <2>1, <2>3, Zenon DEF FiveJoined
    <2> QED
      BY <1>3, <2>4, Zenon DEF cosignedMessage, Body, DraftBody, NoMessage, a, b, x, y, z
  <1>4. CASE ~plants04
    <2> DEFINE a == LengthPrefixed(c)
               b == LengthPrefixed(l)
               x == <<MTCSubtreeLabel>>
    <2>1. a \in Seq(Word8) /\ b \in Seq(Word8) /\ x \in Seq(Word8) /\ x # <<>>
      BY <1>2, <1>4, PrefixedIs
    <2> HIDE DEF a, b, x
    <2>2. FourJoined(x, a, b, z)
      BY <1>1, <2>1, FourJoin
    <2>3. /\ ((x \o a) \o b) \o z = x \o (a \o (b \o z))
          /\ x \o (a \o (b \o z)) # <<>>
      BY <2>1, <2>2, Zenon DEF FourJoined
    <2> QED
      BY <1>4, <2>3, Zenon DEF cosignedMessage, Body, PlainBody, NoMessage, a, b, x, z
  <1> QED
    BY <1>3, <1>4

IDInWords(id) ==
    /\ id \in Seq(Byte) /\ String(id).valid
    /\ id \in Seq(Word8) /\ tlogOrigin(id) \in Seq(Word8)

LEMMA OriginIs ==
    ASSUME NEW id \in Seq(Byte), String(id).valid
    PROVE  IDInWords(id)
  <1> DEFINE t == String(id).text
             o == <<OriginPrefix>>
  <1>1. t \in Seq(Arc)
    BY IDTexts
  <1> HIDE DEF t
  <1>2. t \in Seq(Word8) /\ id \in Seq(Word8) /\ OriginPrefix \in Word8
    BY <1>1, WordsAre
  <1>3. o \in Seq(Word8)
    BY <1>2
  <1> HIDE DEF o
  <1>4. o \o t \in Seq(Word8)
    BY <1>2, <1>3
  <1>5. tlogOrigin(id) = o \o t
    BY Zenon DEF tlogOrigin, o, t
  <1> QED
    BY <1>2, <1>4, <1>5 DEF IDInWords

\* What is named alike is one ID.
LEMMA OriginsEqual ==
    ASSUME NEW x \in Seq(Byte), String(x).valid, NEW y \in Seq(Byte), String(y).valid,
           tlogOrigin(x) = tlogOrigin(y)
    PROVE  x = y
  <1> DEFINE t == String(x).text
             u == String(y).text
             p == tlogOrigin(x)
  <1>1. t \in Seq(Arc) /\ Written(ArcCode, t) = x /\ u \in Seq(Arc) /\ Written(ArcCode, u) = y
    BY IDTexts
  <1>2. IsConcat(p, <<OriginPrefix>>, t) /\ IsConcat(p, <<OriginPrefix>>, u)
    BY Zenon DEF tlogOrigin, IsConcat
  <1> HIDE DEF t, u, p
  <1>3. t \in Seq(Word8) /\ u \in Seq(Word8) /\ OriginPrefix \in Word8
    BY <1>1, WordsAre
  <1>4. t = u
    <2> DEFINE v == OriginPrefix
    <2> HIDE DEF v
    <2>1. IsConcat(p, <<v>>, t) /\ IsConcat(p, <<v>>, u) /\ v \in Word8
      BY <1>2, <1>3 DEF v
    <2> QED
      BY <1>3, <2>1, OneEqual
  <1> QED
    BY <1>1, <1>4

EndsIn(s, t, o, m) == s = Append(Append(t, o), m)

LEMMA TwoAppendedEqual ==
    ASSUME NEW S, NEW t \in Seq(S), NEW u \in Seq(S), NEW o \in S, NEW m \in S, NEW n \in S,
           NEW s, EndsIn(s, t, o, m), EndsIn(s, u, o, n)
    PROVE  t = u /\ m = n
  <1> DEFINE a == Append(Append(t, o), m)
             b == Append(Append(u, o), n)
  <1>1. /\ Len(t) \in Nat /\ Len(a) = Len(t) + 2 /\ a[Len(t) + 2] = m
        /\ \A i \in 1 .. Len(t) : a[i] = t[i]
    OBVIOUS
  <1>2. /\ Len(u) \in Nat /\ Len(b) = Len(u) + 2 /\ b[Len(u) + 2] = n
        /\ \A i \in 1 .. Len(u) : b[i] = u[i]
    OBVIOUS
  <1>3. a = b
    BY DEF EndsIn
  <1> HIDE DEF a, b
  <1>4. Len(t) = Len(u)
    BY <1>1, <1>2, <1>3
  <1>5. \A i \in 1 .. Len(t) : t[i] = u[i]
    BY <1>1, <1>2, <1>3, <1>4
  <1>6. t = u
    BY <1>4, <1>5, SeqEqual
  <1> QED
    BY <1>1, <1>2, <1>3, <1>4, <1>6

NumberedLog(ca, n) == appendBase128(appendBase128(ca, 0), n)

LogIsPrintedAs(ca, n, t) ==
    /\ ca = Written(ArcCode, t) /\ t \in Seq(Arc)
    /\ IsPrintedAs(NumberedLog(ca, n), Append(Append(t, 0), n))

LEMMA LogIs ==
    ASSUME NEW ca \in Seq(Byte), String(ca).valid, NEW n \in Arc
    PROVE  LogIsPrintedAs(ca, n, String(ca).text)
  <1> DEFINE t == String(ca).text
             o == 0
  <1>1. t \in Seq(Arc) /\ ca = Written(ArcCode, t) /\ o \in Arc
    BY IDTexts, ArcIsNat
  <1> HIDE DEF t, o
  <1>2. IsPrintedAs(appendBase128(appendBase128(Written(ArcCode, t), o), n),
                    Append(Append(t, o), n))
    BY <1>1, LongerIDs
  <1> QED
    BY <1>1, <1>2, Zenon DEF LogIsPrintedAs, NumberedLog, o, t

LEMMA LogInWords ==
    ASSUME NEW ca \in Seq(Byte), String(ca).valid, NEW n \in Arc, NEW plants04 \in BOOLEAN
    PROVE  IDInWords(LogID(plants04, ca, n))
  <1>1. CASE plants04
    <2> DEFINE l == NumberedLog(ca, n)
               t == Append(Append(String(ca).text, 0), n)
    <2>1. l \in Seq(Byte) /\ String(l) = [valid |-> TRUE, text |-> t]
      BY LogIs, Zenon DEF LogIsPrintedAs, IsPrintedAs
    <2> HIDE DEF l, t
    <2>2. String(l).valid
      BY <2>1
    <2>3. IDInWords(l)
      BY <2>1, <2>2, OriginIs
    <2> QED
      BY <1>1, <2>3, Zenon DEF LogID, NumberedLog, l
  <1>2. CASE ~plants04
    <2>1. LogID(plants04, ca, n) = ca
      BY <1>2 DEF LogID
    <2> QED
      BY <2>1, OriginIs
  <1> QED
    BY <1>1, <1>2

\* The logs of two CAs, or two logs of one, have two IDs.
LEMMA LogsEqual ==
    ASSUME NEW a \in Seq(Byte), String(a).valid, NEW b \in Seq(Byte), String(b).valid,
           NEW m \in Arc, NEW n \in Arc, NumberedLog(a, m) = NumberedLog(b, n)
    PROVE  a = b /\ m = n
  <1> DEFINE t == String(a).text
             u == String(b).text
             l == NumberedLog(a, m)
             k == NumberedLog(b, n)
             o == 0
             v == Append(Append(t, o), m)
             w == Append(Append(u, o), n)
  <1>1. /\ a = Written(ArcCode, t) /\ t \in Seq(Arc) /\ String(l) = [valid |-> TRUE, text |-> v]
        /\ b = Written(ArcCode, u) /\ u \in Seq(Arc) /\ String(k) = [valid |-> TRUE, text |-> w]
    BY LogIs, Zenon DEF LogIsPrintedAs, IsPrintedAs
  <1>2. k = l /\ o \in Arc
    BY ArcIsNat
  <1> HIDE DEF t, u, l, k, o
  <1>3. v = w
    <2> HIDE DEF v, w
    <2>1. [valid |-> TRUE, text |-> v] = [valid |-> TRUE, text |-> w]
      BY <1>1, <1>2
    <2> QED
      BY <2>1
  <1>4. t = u /\ m = n
    <2>1. EndsIn(v, t, o, m) /\ EndsIn(v, u, o, n)
      BY <1>3 DEF EndsIn
    <2> HIDE DEF v, w
    <2> QED
      BY <1>1, <1>2, <2>1, TwoAppendedEqual
  <1> QED
    BY <1>1, <1>4

\* The parts of a message that bind the subtree.
SameSubtree(s, e, h, t, f, k) == s = t /\ e = f /\ h = k

LEMMA ThreeEqual ==
    ASSUME NEW s, NEW e, NEW h, NEW t, NEW f, NEW k, <<s, e, h>> = <<t, f, k>>
    PROVE  SameSubtree(s, e, h, t, f, k)
  BY DEF SameSubtree

IsDraftBody(p, c, l, t, s, e, h) == p = DraftBody(c, l, t, s, e, h)
IsPlainBody(p, c, l, s, e, h) == p = PlainBody(c, l, s, e, h)

LEMMA DraftBodiesEqual ==
    ASSUME NEW c, IDInWords(c), NEW d, IDInWords(d), NEW l, IDInWords(l), NEW m, IDInWords(m),
           NEW t \in Word8, NEW s \in Word8, NEW e \in Word8, NEW h \in Word8,
           NEW u \in Word8, NEW v \in Word8, NEW f \in Word8, NEW k \in Word8,
           NEW p, IsDraftBody(p, c, l, t, s, e, h), IsDraftBody(p, d, m, u, v, f, k)
    PROVE  c = d /\ l = m /\ t = u /\ SameSubtree(s, e, h, v, f, k)
  <1> DEFINE w == SubtreeLabel
             oc == tlogOrigin(c)
             od == tlogOrigin(d)
             ol == tlogOrigin(l)
             om == tlogOrigin(m)
             z == <<s, e, h>>
             y == <<v, f, k>>
             z1 == LengthPrefixed(ol) \o z
             y1 == LengthPrefixed(om) \o y
             z2 == <<t>> \o z1
             y2 == <<u>> \o y1
             z3 == LengthPrefixed(oc) \o z2
             y3 == LengthPrefixed(od) \o y2
  <1>1. /\ oc \in Seq(Word8) /\ od \in Seq(Word8) /\ ol \in Seq(Word8) /\ om \in Seq(Word8)
        /\ w \in Word8
    BY WordsAre DEF IDInWords
  <1>2. z \in Seq(Word8) /\ y \in Seq(Word8)
    OBVIOUS
  <1>3. IsConcat(p, <<w>>, z3) /\ IsConcat(p, <<w>>, y3)
    BY Zenon DEF IsDraftBody, DraftBody, IsConcat
  <1>4. z = y => SameSubtree(s, e, h, v, f, k)
    BY ThreeEqual
  <1>5. /\ IsConcat(z3, LengthPrefixed(oc), z2) /\ IsConcat(y3, LengthPrefixed(od), y2)
        /\ IsConcat(z2, <<t>>, z1) /\ IsConcat(y2, <<u>>, y1)
        /\ IsConcat(z1, LengthPrefixed(ol), z) /\ IsConcat(y1, LengthPrefixed(om), y)
    BY Zenon DEF IsConcat
  <1> HIDE DEF z, y, w, oc, od, ol, om
  <1>6. z1 \in Seq(Word8) /\ y1 \in Seq(Word8)
    BY <1>1, <1>2, PrefixedIs
  <1> HIDE DEF z1, y1
  <1>7. z2 \in Seq(Word8) /\ y2 \in Seq(Word8)
    BY <1>6
  <1> HIDE DEF z2, y2
  <1>8. z3 \in Seq(Word8) /\ y3 \in Seq(Word8)
    BY <1>1, <1>7, PrefixedIs
  <1> HIDE DEF z3, y3
  <1>9. z3 = y3
    BY <1>1, <1>3, <1>8, OneEqual
  <1>10. oc = od /\ z2 = y2
    BY <1>1, <1>5, <1>7, <1>9, PrefixedEqual
  <1>11. t = u /\ z1 = y1
    BY <1>5, <1>6, <1>10, OneEqual
  <1>12. ol = om /\ z = y
    BY <1>1, <1>2, <1>5, <1>11, PrefixedEqual
  <1>13. c = d
    BY <1>10, OriginsEqual DEF IDInWords, oc, od
  <1>14. l = m
    BY <1>12, OriginsEqual DEF IDInWords, ol, om
  <1> QED
    BY <1>4, <1>11, <1>12, <1>13, <1>14

LEMMA PlainBodiesEqual ==
    ASSUME NEW c, IDInWords(c), NEW d, IDInWords(d), NEW l, IDInWords(l), NEW m, IDInWords(m),
           NEW s \in Word8, NEW e \in Word8, NEW h \in Word8,
           NEW v \in Word8, NEW f \in Word8, NEW k \in Word8,
           NEW p, IsPlainBody(p, c, l, s, e, h), IsPlainBody(p, d, m, v, f, k)
    PROVE  c = d /\ l = m /\ SameSubtree(s, e, h, v, f, k)
  <1> DEFINE w == MTCSubtreeLabel
             z == <<s, e, h>>
             y == <<v, f, k>>
             z1 == LengthPrefixed(l) \o z
             y1 == LengthPrefixed(m) \o y
             z2 == LengthPrefixed(c) \o z1
             y2 == LengthPrefixed(d) \o y1
  <1>1. /\ c \in Seq(Word8) /\ d \in Seq(Word8) /\ l \in Seq(Word8) /\ m \in Seq(Word8)
        /\ w \in Word8
    BY WordsAre DEF IDInWords
  <1>2. z \in Seq(Word8) /\ y \in Seq(Word8)
    OBVIOUS
  <1>3. IsConcat(p, <<w>>, z2) /\ IsConcat(p, <<w>>, y2)
    BY Zenon DEF IsPlainBody, PlainBody, IsConcat
  <1>4. z = y => SameSubtree(s, e, h, v, f, k)
    BY ThreeEqual
  <1>5. /\ IsConcat(z2, LengthPrefixed(c), z1) /\ IsConcat(y2, LengthPrefixed(d), y1)
        /\ IsConcat(z1, LengthPrefixed(l), z) /\ IsConcat(y1, LengthPrefixed(m), y)
    BY Zenon DEF IsConcat
  <1> HIDE DEF z, y, w
  <1>6. z1 \in Seq(Word8) /\ y1 \in Seq(Word8)
    BY <1>1, <1>2, PrefixedIs
  <1> HIDE DEF z1, y1
  <1>7. z2 \in Seq(Word8) /\ y2 \in Seq(Word8)
    BY <1>1, <1>6, PrefixedIs
  <1> HIDE DEF z2, y2
  <1>8. z2 = y2
    BY <1>1, <1>3, <1>7, OneEqual
  <1>9. c = d /\ z1 = y1
    BY <1>1, <1>5, <1>6, <1>8, PrefixedEqual
  <1>10. l = m /\ z = y
    BY <1>1, <1>2, <1>5, <1>9, PrefixedEqual
  <1> QED
    BY <1>4, <1>9, <1>10

\* The two kinds of messages begin differently.
LEMMA BodiesDiffer ==
    ASSUME NEW c, IDInWords(c), NEW d, IDInWords(d), NEW l, IDInWords(l), NEW m, IDInWords(m),
           NEW t \in Word8, NEW s \in Word8, NEW e \in Word8, NEW h \in Word8,
           NEW v \in Word8, NEW f \in Word8, NEW k \in Word8,
           NEW p, IsDraftBody(p, c, l, t, s, e, h), IsPlainBody(p, d, m, v, f, k)
    PROVE  FALSE
  <1> DEFINE a == SubtreeLabel
             b == MTCSubtreeLabel
             z == <<s, e, h>>
             y == <<v, f, k>>
             z1 == LengthPrefixed(tlogOrigin(l)) \o z
             z2 == <<t>> \o z1
             z3 == LengthPrefixed(tlogOrigin(c)) \o z2
             y1 == LengthPrefixed(m) \o y
             y2 == LengthPrefixed(d) \o y1
  <1>1. a \in Word8 /\ b \in Word8 /\ a # b
    BY WordsAre
  <1>2. IsConcat(p, <<a>>, z3) /\ IsConcat(p, <<b>>, y2)
    BY Zenon DEF IsDraftBody, IsPlainBody, DraftBody, PlainBody, IsConcat
  <1> HIDE DEF a, b
  <1>3. z \in Seq(Word8) /\ y \in Seq(Word8)
    OBVIOUS
  <1> HIDE DEF z, y
  <1>4. z1 \in Seq(Word8) /\ y1 \in Seq(Word8)
    BY <1>3, PrefixedIs DEF IDInWords
  <1> HIDE DEF z1, y1
  <1>5. z2 \in Seq(Word8) /\ y2 \in Seq(Word8)
    BY <1>4, PrefixedIs DEF IDInWords
  <1> HIDE DEF z2, y2
  <1>6. z3 \in Seq(Word8)
    BY <1>5, PrefixedIs DEF IDInWords
  <1> HIDE DEF z3
  <1> QED
    BY <1>1, <1>2, <1>5, <1>6, OneEqual

\* What is signed for a claim.
ClaimBody(r, t, s, e) == Body(r.plants04, r.cosigner, Log(r), t, s, e, r.hash)

LEMMA ClaimInWords ==
    ASSUME NEW r \in Claims
    PROVE  /\ r.plants04 \in BOOLEAN /\ r.hash \in Word8 /\ r.start \in Word8 /\ r.end \in Word8
           /\ IDInWords(r.cosigner) /\ IDInWords(Log(r))
           /\ r.ca \in Seq(Byte) /\ String(r.ca).valid /\ r.log \in Arc
           /\ Log(r) = LogID(r.plants04, r.ca, r.log)
  <1>1. /\ r.plants04 \in BOOLEAN /\ r.cosigner \in IDs /\ r.ca \in IDs /\ r.log \in SigningLogs
        /\ r.start \in 0..MaxSize /\ r.end \in 0..MaxSize /\ r.hash \in Hashes
    BY DEF Claims
  <1>2. r.log \in Arc /\ \A id \in IDs : id \in Seq(Byte) /\ String(id).valid
    BY <1>1, NamesAssumption
  <1>3. IDInWords(r.cosigner)
    BY <1>1, <1>2, OriginIs
  <1>4. IDInWords(LogID(r.plants04, r.ca, r.log))
    BY <1>1, <1>2, LogInWords
  <1> QED
    BY <1>1, <1>2, <1>3, <1>4 DEF Log, Word8

LEMMA ClaimMessage ==
    ASSUME NEW r \in Claims, NEW t \in Word8, NEW s \in Word8, NEW e \in Word8
    PROVE  /\ cosignedMessage(r.plants04, r.cosigner, Log(r), t, s, e, r.hash) =
                 IF \/ t # 0 /\ s # 0
                    \/ t # 0 /\ ~r.plants04
                    \/ ~IsValidSubtree(s, e)
                 THEN NoMessage ELSE ClaimBody(r, t, s, e)
           /\ ClaimBody(r, t, s, e) # NoMessage
  <1> DEFINE p == r.plants04
             c == r.cosigner
             l == Log(r)
             h == r.hash
  <1>1. p \in BOOLEAN /\ h \in Word8 /\ IDInWords(c) /\ IDInWords(l)
    BY ClaimInWords
  <1> HIDE DEF p, c, l, h
  <1>2. /\ cosignedMessage(p, c, l, t, s, e, h) =
                 IF \/ t # 0 /\ s # 0
                    \/ t # 0 /\ ~p
                    \/ ~IsValidSubtree(s, e)
                 THEN NoMessage ELSE Body(p, c, l, t, s, e, h)
        /\ Body(p, c, l, t, s, e, h) # NoMessage
    BY <1>1, MessageIs DEF IDInWords
  <1> QED
    BY <1>2, Zenon DEF ClaimBody, p, c, l, h

\* One message is signed for one claim: what binds a plants-02 message to a log
\* is the CA alone.
LEMMA ClaimsEqual ==
    ASSUME NEW q \in Claims, NEW r \in Claims,
           NEW t \in Word8, NEW s \in Word8, NEW e \in Word8,
           NEW u \in Word8, NEW v \in Word8, NEW f \in Word8,
           ClaimBody(q, t, s, e) = ClaimBody(r, u, v, f)
    PROVE  /\ q.plants04 = r.plants04 /\ q.cosigner = r.cosigner /\ q.ca = r.ca
           /\ SameSubtree(s, e, q.hash, v, f, r.hash)
           /\ r.plants04 => q.log = r.log /\ t = u
  <1> DEFINE a == q.plants04
             b == r.plants04
             c == q.cosigner
             d == r.cosigner
             l == Log(q)
             m == Log(r)
             h == q.hash
             k == r.hash
             p == ClaimBody(q, t, s, e)
  <1>1. /\ a \in BOOLEAN /\ b \in BOOLEAN /\ h \in Word8 /\ k \in Word8
        /\ IDInWords(c) /\ IDInWords(d) /\ IDInWords(l) /\ IDInWords(m)
    BY ClaimInWords
  <1>2. /\ p = IF a THEN DraftBody(c, l, t, s, e, h) ELSE PlainBody(c, l, s, e, h)
        /\ p = IF b THEN DraftBody(d, m, u, v, f, k) ELSE PlainBody(d, m, v, f, k)
    BY Zenon DEF ClaimBody, Body
  <1>3. /\ l = LogID(a, q.ca, q.log) /\ m = LogID(b, r.ca, r.log)
        /\ q.ca \in Seq(Byte) /\ String(q.ca).valid /\ q.log \in Arc
        /\ r.ca \in Seq(Byte) /\ String(r.ca).valid /\ r.log \in Arc
    BY ClaimInWords
  <1> HIDE DEF a, b, c, d, l, m, h, k, p
  <1>4. CASE a /\ b
    <2>1. IsDraftBody(p, c, l, t, s, e, h) /\ IsDraftBody(p, d, m, u, v, f, k)
      BY <1>2, <1>4 DEF IsDraftBody
    <2>2. c = d /\ l = m /\ t = u /\ SameSubtree(s, e, h, v, f, k)
      BY <1>1, <2>1, DraftBodiesEqual
    <2>3. NumberedLog(q.ca, q.log) = NumberedLog(r.ca, r.log)
      BY <1>3, <1>4, <2>2, Zenon DEF LogID, NumberedLog
    <2>4. q.ca = r.ca /\ q.log = r.log
      BY <1>3, <2>3, LogsEqual
    <2>5. a = b
      BY <1>1, <1>4
    <2> QED
      BY <2>2, <2>4, <2>5, Zenon DEF a, b, c, d, h, k
  <1>5. CASE ~a /\ ~b
    <2>1. IsPlainBody(p, c, l, s, e, h) /\ IsPlainBody(p, d, m, v, f, k)
      BY <1>2, <1>5 DEF IsPlainBody
    <2>2. c = d /\ l = m /\ SameSubtree(s, e, h, v, f, k)
      BY <1>1, <2>1, PlainBodiesEqual
    <2>3. q.ca = r.ca
      BY <1>3, <1>5, <2>2 DEF LogID
    <2>4. a = b
      BY <1>1, <1>5
    <2> QED
      BY <1>5, <2>2, <2>3, <2>4, Zenon DEF a, b, c, d, h, k
  <1>6. CASE a /\ ~b
    <2>1. IsDraftBody(p, c, l, t, s, e, h) /\ IsPlainBody(p, d, m, v, f, k)
      BY <1>2, <1>6 DEF IsDraftBody, IsPlainBody
    <2> QED
      BY <1>1, <2>1, BodiesDiffer
  <1>7. CASE ~a /\ b
    <2>1. IsDraftBody(p, d, m, u, v, f, k) /\ IsPlainBody(p, c, l, s, e, h)
      BY <1>2, <1>7 DEF IsDraftBody, IsPlainBody
    <2> QED
      BY <1>1, <2>1, BodiesDiffer
  <1> QED
    BY <1>4, <1>5, <1>6, <1>7

\* A subtree's message, when it is not nothing.
SubtreeMessage(r) ==
    cosignedMessage(r.plants04, r.cosigner, Log(r), 0, r.start, r.end, r.hash)

LEMMA SubtreeMessageIs ==
    ASSUME NEW r \in Claims
    PROVE  /\ SubtreeMessage(r) # NoMessage <=> IsValidSubtree(r.start, r.end)
           /\ SubtreeMessage(r) # NoMessage =>
                 SubtreeMessage(r) = ClaimBody(r, 0, r.start, r.end)
  <1> DEFINE o == 0
             s == r.start
             e == r.end
             x == cosignedMessage(r.plants04, r.cosigner, Log(r), o, s, e, r.hash)
             y == ClaimBody(r, o, s, e)
  <1>1. o \in Word8 /\ s \in Word8 /\ e \in Word8 /\ o = 0
    BY ClaimInWords DEF Word8
  <1> HIDE DEF o, s, e
  <1>2. /\ x = IF \/ o # 0 /\ s # 0
                  \/ o # 0 /\ ~r.plants04
                  \/ ~IsValidSubtree(s, e)
               THEN NoMessage ELSE y
        /\ y # NoMessage
    BY <1>1, ClaimMessage
  <1> HIDE DEF x, y
  <1>3. /\ x # NoMessage <=> IsValidSubtree(s, e)
        /\ x # NoMessage => x = y
    BY <1>1, <1>2
  <1> QED
    BY <1>3, Zenon DEF SubtreeMessage, x, y, o, s, e

AsAsked(r, q) == [r EXCEPT !.log = IF r.plants04 THEN @ ELSE q.log] = q

LEMMA AsAskedIf ==
    ASSUME NEW q \in Claims, NEW r \in Claims
    PROVE  AsAsked(r, q) <=>
               /\ q.plants04 = r.plants04 /\ q.cosigner = r.cosigner /\ q.ca = r.ca
               /\ q.start = r.start /\ q.end = r.end /\ q.hash = r.hash
               /\ r.plants04 => q.log = r.log
  <1> DEFINE n == IF r.plants04 THEN r.log ELSE q.log
             x == [r EXCEPT !.log = n]
  <1>1. /\ x = [plants04 |-> r.plants04, cosigner |-> r.cosigner, ca |-> r.ca, log |-> n,
                start |-> r.start, end |-> r.end, hash |-> r.hash]
        /\ q = [plants04 |-> q.plants04, cosigner |-> q.cosigner, ca |-> q.ca, log |-> q.log,
                start |-> q.start, end |-> q.end, hash |-> q.hash]
    <2> HIDE DEF n
    <2> QED
      BY DEF Claims
  <1>2. AsAsked(r, q) <=> x = q
    BY Zenon DEF AsAsked
  <1>3. r.plants04 \in BOOLEAN /\ q.plants04 \in BOOLEAN
    BY DEF Claims
  <1> HIDE DEF x
  <1>4. x = q <=>
          /\ q.plants04 = r.plants04 /\ q.cosigner = r.cosigner /\ q.ca = r.ca
          /\ q.start = r.start /\ q.end = r.end /\ q.hash = r.hash
          /\ q.log = n
    <2> HIDE DEF n
    <2> QED
      BY <1>1
  <1>5. q.log = n <=> (r.plants04 => q.log = r.log)
    OBVIOUS
  <1> QED
    BY <1>2, <1>4, <1>5, Zenon

\* A subtree's signature is accepted for that subtree alone (cosign.go:34-63).
THEOREM CosignaturesAreForOneSubtree ==
    Spec => []CosignatureIsForOneSubtree
  <1>1. NamesInv => CosignatureIsForOneSubtree
    <2> SUFFICES ASSUME request \in Claims, NEW r \in Claims
                 PROVE  Accepts(r, cosignature) <=>
                            /\ IsValidSubtree(r.start, r.end)
                            /\ AsAsked(r, request)
      BY Zenon DEF NamesInv, CosignatureIsForOneSubtree, AsAsked
    <2> DEFINE q == request
               x == SubtreeMessage(q)
               y == SubtreeMessage(r)
    <2>1. Accepts(r, cosignature) <=>
             /\ x # NoMessage /\ y # NoMessage /\ x = y
             /\ KeyOf[q.cosigner] = KeyOf[r.cosigner]
      <3>1. cosignature = Signed(<<>>, q.cosigner, x)
        BY Zenon DEF cosignature, Sign, SubtreeMessage
      <3>2. Accepts(r, cosignature) <=>
               /\ cosignature.ok /\ cosignature.prefix = <<>>
               /\ cosignature.key = KeyOf[r.cosigner]
               /\ y # NoMessage /\ cosignature.message = y
        BY Zenon DEF Accepts, Verify, SubtreeMessage
      <3> HIDE DEF x, y
      <3>3. CASE x = NoMessage
        <4>1. ~cosignature.ok
          BY <3>1, <3>3 DEF Signed, Failed
        <4> QED
          BY <3>2, <3>3, <4>1
      <3>4. CASE x # NoMessage
        <4>1. cosignature = [ok |-> TRUE, prefix |-> <<>>, key |-> KeyOf[q.cosigner], message |-> x]
          BY <3>1, <3>4, Zenon DEF Signed
        <4>2. /\ cosignature.ok /\ cosignature.prefix = <<>>
              /\ cosignature.key = KeyOf[q.cosigner] /\ cosignature.message = x
          BY <4>1
        <4> QED
          BY <3>2, <3>4, <4>2, Zenon
      <3> QED
        BY <3>3, <3>4
    <2>2. /\ x # NoMessage <=> IsValidSubtree(q.start, q.end)
          /\ x # NoMessage => x = ClaimBody(q, 0, q.start, q.end)
          /\ y # NoMessage <=> IsValidSubtree(r.start, r.end)
          /\ y # NoMessage => y = ClaimBody(r, 0, r.start, r.end)
      BY SubtreeMessageIs
    <2>3. AsAsked(r, q) <=>
               /\ q.plants04 = r.plants04 /\ q.cosigner = r.cosigner /\ q.ca = r.ca
               /\ q.start = r.start /\ q.end = r.end /\ q.hash = r.hash
               /\ r.plants04 => q.log = r.log
      BY AsAskedIf
    <2>4. ASSUME x # NoMessage, y # NoMessage, x = y
          PROVE  AsAsked(r, q)
      <3> DEFINE o == 0
                 s == q.start
                 e == q.end
                 v == r.start
                 f == r.end
      <3>1. o \in Word8 /\ s \in Word8 /\ e \in Word8 /\ v \in Word8 /\ f \in Word8
        BY ClaimInWords DEF Word8
      <3>2. ClaimBody(q, o, s, e) = ClaimBody(r, o, v, f)
        BY <2>2, <2>4, Zenon
      <3> HIDE DEF o, s, e, v, f, q
      <3>3. /\ q.plants04 = r.plants04 /\ q.cosigner = r.cosigner /\ q.ca = r.ca
            /\ SameSubtree(s, e, q.hash, v, f, r.hash)
            /\ r.plants04 => q.log = r.log /\ o = o
        <4>1. q \in Claims
          BY DEF q
        <4> QED
          BY <3>1, <3>2, <4>1, ClaimsEqual
      <3> QED
        BY <2>3, <3>3, Zenon DEF SameSubtree, s, e, v, f
    <2>5. ASSUME y # NoMessage, AsAsked(r, q)
          PROVE  x = y
      <3>1. Log(q) = Log(r)
        <4>1. /\ Log(q) = LogID(q.plants04, q.ca, q.log)
              /\ Log(r) = LogID(r.plants04, r.ca, r.log)
          BY Zenon DEF Log
        <4>2. /\ q.plants04 = r.plants04 /\ q.ca = r.ca
              /\ r.plants04 => q.log = r.log
          BY <2>3, <2>5
        <4> HIDE DEF q
        <4>3. LogID(q.plants04, q.ca, q.log) = LogID(r.plants04, r.ca, r.log)
          BY <4>2 DEF LogID
        <4> QED
          BY <4>1, <4>3, Zenon
      <3> QED
        BY <2>3, <2>5, <3>1, Zenon DEF SubtreeMessage
    <2>6. AsAsked(r, q) => q.cosigner = r.cosigner
      BY <2>3, Zenon
    <2> QED
      <3> HIDE DEF x, y, q
      <3>1. y # NoMessage <=> IsValidSubtree(r.start, r.end)
        BY <2>2, Zenon
      <3> QED
        BY <2>1, <2>4, <2>5, <2>6, <3>1, Zenon DEF q
  <1> QED
    BY <1>1, NamesAreTyped, PTL

\* From plants-04 on a checkpoint's signature is no subtree's (cosign.go:171-180, 227-231).
THEOREM CheckpointsAreNoSubtrees ==
    Spec => []CheckpointIsNoSubtree
  <1>1. NamesInv => CheckpointIsNoSubtree
    <2> SUFFICES ASSUME request \in Claims, timestamp = 1, request.plants04, checkpoint.ok,
                        NEW r \in Claims, Accepts(r, Bare(checkpoint))
                 PROVE  FALSE
      BY DEF NamesInv, CheckpointIsNoSubtree
    <2> DEFINE q == request
               i == timestamp
               o == 0
               e == q.end
               x == cosignedMessage(q.plants04, q.cosigner, Log(q), i, o, e, q.hash)
               y == SubtreeMessage(r)
    <2>1. checkpoint = Signed(<<i>>, q.cosigner, x)
      BY Zenon DEF checkpoint, SignCheckpoint
    <2>2. Bare(checkpoint).message = y /\ y # NoMessage
      BY Zenon DEF Accepts, Verify, SubtreeMessage
    <2>3. x # NoMessage /\ x = y
      <3> HIDE DEF x, y
      <3>1. x # NoMessage
        BY <2>1 DEF Signed, Failed
      <3>2. checkpoint = [ok |-> TRUE, prefix |-> <<i>>, key |-> KeyOf[q.cosigner], message |-> x]
        BY <2>1, <3>1, Zenon DEF Signed
      <3>3. Bare(checkpoint).message = x
        <4> HIDE DEF i
        <4> DEFINE k == KeyOf[q.cosigner]
                   p == <<i>>
        <4>1. checkpoint = [ok |-> TRUE, prefix |-> p, key |-> k, message |-> x]
          BY <3>2
        <4> HIDE DEF k, p
        <4> QED
          BY <4>1 DEF Bare
      <3> QED
        BY <2>2, <3>1, <3>3
    <2>4. i \in Word8 /\ o \in Word8 /\ e \in Word8 /\ i # o
      BY ClaimInWords DEF Word8
    <2>5. y = ClaimBody(r, o, r.start, r.end)
      BY <2>2, SubtreeMessageIs
    <2> HIDE DEF i, o, e, y
    <2>6. x = ClaimBody(q, i, o, e)
      <3>1. x = (IF \/ i # 0 /\ o # 0
                    \/ i # 0 /\ ~q.plants04
                    \/ ~IsValidSubtree(o, e)
                 THEN NoMessage ELSE ClaimBody(q, i, o, e))
        BY <2>4, ClaimMessage
      <3> HIDE DEF x
      <3> QED
        BY <2>3, <3>1
    <2>7. ClaimBody(q, i, o, e) = ClaimBody(r, o, r.start, r.end)
      BY <2>3, <2>5, <2>6, Zenon
    <2> DEFINE v == r.start
               f == r.end
    <2>8. v \in Word8 /\ f \in Word8
      BY ClaimInWords
    <2>9. ClaimBody(q, i, o, e) = ClaimBody(r, o, v, f)
      BY <2>7
    <2> HIDE DEF v, f, x
    <2>10. q.plants04 = r.plants04 /\ (r.plants04 => i = o)
      <3> HIDE DEF q
      <3>1. q \in Claims
        BY DEF q
      <3> QED
        BY <2>4, <2>8, <2>9, <3>1, ClaimsEqual
    <2> QED
      BY <2>4, <2>10, Zenon
  <1> QED
    BY <1>1, NamesAreTyped, PTL
=============================================================================
