---------------------------- MODULE MerkleProofs ----------------------------
(***************************************************************************)
(* Proofs about the Merkle tree, for every word width and size of the log: *)
(* the subtree arithmetic is that of the draft, the hash of a subtree is   *)
(* the one the draft defines from the top, and so is an inclusion proof,   *)
(* which evaluates to that hash for the entry it proves and no other; and  *)
(* a consistency proof convinces a verifier of that hash and of no other.  *)
(***************************************************************************)
EXTENDS MCMerkle, MCInclusionProof, SubtreeProofs, FiniteSetTheorems

\* The interval asked about has words for its ends.
AreWords == start \in Word /\ end \in Word

LEMMA QuestionsAreWords ==
    /\ FirstQuestion => AreWords
    /\ AreWords /\ [NextQuestion]_question => AreWords'
  <1>0. 0 \in Word /\ Pow2[W] \in Nat \ {0} /\ Word \subseteq Nat
    BY WordFacts
  <1>1. ASSUME NEW x \in Nat PROVE x % Pow2[W] \in Word
    BY <1>0, DivMod, WordFacts
  <1>2. FirstQuestion => AreWords
    BY <1>0 DEF FirstQuestion, AreWords
  <1>3. ASSUME AreWords, [NextQuestion]_question PROVE AreWords'
    <2>1. start + 1 \in Nat /\ end + 1 \in Nat
      BY <1>0, <1>3 DEF AreWords
    <2>2. (start + 1) % Pow2[W] \in Word /\ (end + 1) % Pow2[W] \in Word
      BY <1>1, <2>1
    <2> QED
      BY <1>3, <2>2 DEF AreWords, NextQuestion, MoveStart, MoveEnd, MoveSize, question
  <1> QED
    BY <1>2, <1>3

\* IsValidSubtree, computed in words of any width, decides for every two words
\* what the draft defines over the unbounded integers (log.go:40-49).
THEOREM ValidityAlwaysMatches == Questions => []ValidityMatchesDefinition
  <1>1. AreWords => ValidityMatchesDefinition
    BY ValidSubtreeIs DEF AreWords, ValidityMatchesDefinition
  <1> QED
    BY <1>1, QuestionsAreWords, PTL DEF Questions

\* SubtreesForInterval covers every interval of words by two subtrees, tightly,
\* whatever the width of a word (log.go:229-255).
THEOREM CoversAreTight == Questions => []CoverIsTight
  <1>1. AreWords => CoverIsTight
    BY TightCover DEF AreWords, CoverIsTight, IsTightCover
  <1> QED
    BY <1>1, QuestionsAreWords, PTL DEF Questions

-----------------------------------------------------------------------------

\* The static tree is made of its complete nodes, and has the size of the log.
LEMMA TreeIs ==
    /\ DOMAIN MCTree = 0 .. W
    /\ \A i \in 0 .. W : MCTree[i] = FullLevel(D, i)
    /\ Size(MCTree) = LeafCount
  <1>1. Len(D) = LeafCount /\ LeafCount \in Nat
    BY LeafCountAssumption, WordFacts DEF D
  <1>2. DOMAIN MCTree = 0 .. W /\ \A i \in 0 .. W : MCTree[i] = FullLevel(D, i)
    BY <1>1, LevelsAre DEF MCTree
  <1>3. LeafCount \div Pow2[0] = LeafCount /\ 0 \in 0 .. W
    BY <1>1, WordFacts, Pow2Equations
  <1>4. DOMAIN MCTree[0] = 0 .. LeafCount - 1
    BY <1>1, <1>2, <1>3 DEF FullLevel
  <1>5. Cardinality(0 .. LeafCount - 1) = LeafCount
    BY <1>1, FS_Interval
  <1>6. Size(MCTree) = LeafCount
    BY <1>4, <1>5 DEF Size
  <1> QED
    BY <1>2, <1>6

\* A complete node of the log is looked up.
LEMMA FullSubtreeHashIs ==
    ASSUME NEW l \in 0 .. W, NEW j \in Nat, Pow2[l] * (j + 1) <= LeafCount
    PROVE  FullSubtreeHashByLevel(MCTree, l, j)
              = MTH(D, Pow2[l] * j, Pow2[l] * (j + 1))
  <1>1. l \in Nat /\ LeafCount \in Nat /\ Len(D) = LeafCount
    BY LeafCountAssumption, WordFacts DEF D
  <1>2. j \in DOMAIN FullLevel(D, l) /\ FullLevel(D, l)[j] = FullHash(D, l, j)
    BY <1>1, Complete DEF FullLevel
  <1> QED
    BY <1>2, TreeIs DEF FullSubtreeHashByLevel, FullHash

\* The loop of SubtreeHash at one level, given the hashes of the levels below.
ClimbTo(s, e, f, l) ==
    IF l = EdgeLevel(s, e - 1)
    THEN FullSubtreeHashByLevel(MCTree, l, (e - 1) \div Pow2[l])
    ELSE IF /\ s \div Pow2[l - 1] < (e - 1) \div Pow2[l - 1]
            /\ ((e - 1) \div Pow2[l - 1]) % 2 = 1
         THEN HashNode(FullSubtreeHashByLevel(MCTree, l - 1, ((e - 1) \div Pow2[l - 1]) - 1),
                       f[l - 1])
         ELSE f[l - 1]

\* It starts at the subtree's last node, which is complete.
LEMMA ClimbStart ==
    ASSUME NEW s \in Word, NEW e \in Word, NEW k \in 0 .. W, IsAligned(s, e, k),
           e <= LeafCount, NEW f
    PROVE  ClimbTo(s, e, f, EdgeLevel(s, e - 1)) = HashAt(D, e - 1, s, e, EdgeLevel(s, e - 1))
  <1> DEFINE n == EdgeLevel(s, e - 1)
             last == e - 1
             P == Pow2[n]
             j == last \div P
             a == At(last, s, n)
             c == s \div P
  <1>1. n \in 0 .. W /\ n \in Nat /\ P <= e - s /\ s % P = 0 /\ e % P = 0
    <2>1. W \in Nat /\ k \in Nat
      BY WordFacts
    <2> QED
      BY <2>1, EdgeLevelIs
  <1> HIDE DEF n
  <1>2. /\ W \in Nat /\ s \in Nat /\ e \in Nat /\ s < e /\ last \in Nat /\ P \in Nat \ {0}
        /\ LeafCount \in Nat
    BY <1>1, WordFacts, Pow2Type, LeafCountAssumption DEF IsAligned
  <1> HIDE DEF last
  <1>3. s <= last /\ last < e /\ e = last + 1
    BY <1>2 DEF last
  <1>4. c \in Nat /\ j = c + a /\ a \in Nat /\ j \in Nat /\ s = P * c
    <2>0. n \in Nat /\ last \in Nat /\ s <= last /\ last < e
      BY <1>1, <1>2, <1>3
    <2>1. c \in Nat /\ j = c + a
      BY <2>0, Absolute
    <2>2. j \in Nat /\ a \in Nat
      <3>1. last - s \in Nat
        BY <1>2, <1>3
      <3> QED
        BY <1>2, <3>1, DivMod DEF At
    <2>3. s = P * c
      <3> HIDE DEF P
      <3>1. s = P * (s \div P) + (s % P)
        BY <1>2, DivMod
      <3>2. P * c \in Nat
        BY <1>2, <2>1
      <3> QED
        BY <1>1, <1>2, <3>1, <3>2
    <2> QED
      BY <2>1, <2>2, <2>3
  <1>5. P * (j + 1) = e
    <2> HIDE DEF P
    <2>1. PICK q \in Nat : e = P * q
      BY <1>1, <1>2, Multiples
    <2>2. q # 0 /\ q - 1 \in Nat
      BY <1>2, <2>1
    <2>3. last = P * (q - 1) + (P - 1)
      <3>1. P * q = P * (q - 1) + P /\ P * (q - 1) \in Nat
        BY <1>2, <2>2
      <3> QED
        BY <1>2, <1>3, <2>1, <3>1
    <2>4. j = q - 1
      <3> DEFINE g == q - 1
                 rest == P - 1
      <3>1. g \in Nat /\ rest \in Nat /\ rest < P /\ last = P * g + rest
        BY <1>2, <2>2, <2>3
      <3> HIDE DEF g, rest
      <3>2. (P * g + rest) \div P = g
        BY <1>2, <3>1, DivModUnique
      <3> QED
        BY <3>1, <3>2 DEF g
    <2> QED
      BY <2>1, <2>2, <2>4
  <1>6. FullSubtreeHashByLevel(MCTree, n, j) = MTH(D, P * j, P * (j + 1))
    BY <1>1, <1>4, <1>5, FullSubtreeHashIs
  <1>7. Lo(last, s, n) = P * j /\ Hi(last, s, e, n) = e
    <2>1. Lo(last, s, n) = s + P * a
      BY DEF Lo
    <2>2. P * j = P * c + P * a /\ P * a \in Nat
      <3> HIDE DEF P, c, a
      <3> QED
        BY <1>2, <1>4
    <2>3. P * (j + 1) = P * j + P
      <3> HIDE DEF P, j
      <3> QED
        BY <1>2, <1>4
    <2> DEFINE b == P * a
               d == P * j
    <2> HIDE DEF P, j, c, a, b, d
    <2>4. Lo(last, s, n) = d
      BY <1>4, <2>1, <2>2 DEF b, d
    <2>5. Lo(last, s, n) + P = e /\ d \in Nat
      BY <1>2, <1>4, <1>5, <2>3, <2>4 DEF d
    <2> QED
      BY <1>2, <2>4, <2>5 DEF Hi, P, d
  <1>8. ClimbTo(s, e, f, n) = FullSubtreeHashByLevel(MCTree, n, j)
    BY Zenon DEF ClimbTo, n, last, P
  <1> QED
    BY <1>5, <1>6, <1>7, <1>8, Zenon DEF HashAt, last, n

\* It goes on as the nodes on the right edge are made.
LEMMA ClimbStep ==
    ASSUME NEW s \in Word, NEW e \in Word, NEW k \in 0 .. W, IsAligned(s, e, k),
           e <= LeafCount, NEW f, NEW l \in 0 .. W, l > EdgeLevel(s, e - 1),
           f[l - 1] = HashAt(D, e - 1, s, e, l - 1)
    PROVE  ClimbTo(s, e, f, l) = HashAt(D, e - 1, s, e, l)
  <1> DEFINE h == l - 1
             last == e - 1
             P == Pow2[h]
             edge == last \div P
             a == At(last, s, h)
             c == s \div P
  <1>1. /\ EdgeLevel(s, e - 1) \in Nat /\ l # EdgeLevel(s, e - 1)
        /\ h \in 0 .. W /\ h \in Nat /\ h + 1 = l
    <2>1. W \in Nat /\ k \in Nat
      BY WordFacts
    <2> QED
      BY <2>1, EdgeLevelIs
  <1>2. ClimbTo(s, e, f, l) =
           IF c < edge /\ edge % 2 = 1
           THEN HashNode(FullSubtreeHashByLevel(MCTree, h, edge - 1), f[h])
           ELSE f[h]
    BY <1>1, Zenon DEF ClimbTo
  <1> HIDE DEF h, last
  <1>3. /\ W \in Nat /\ s \in Nat /\ e \in Nat /\ s < e /\ last \in Nat /\ P \in Nat \ {0}
        /\ LeafCount \in Nat /\ s <= last /\ last < e
    BY <1>1, WordFacts, Pow2Type, LeafCountAssumption DEF IsAligned, last
  <1>4. /\ c \in Nat /\ edge = c + a /\ a \in Nat
        /\ a # 0 => s = P * c /\ c % 2 = 0
    <2>0. h \in Nat /\ last \in Nat /\ s <= last /\ last < e
      BY <1>1, <1>3
    <2>1. c \in Nat /\ edge = c + a /\ (a # 0 => s = P * c /\ c % 2 = 0)
      BY <2>0, Absolute
    <2>2. a \in Nat
      <3>1. last - s \in Nat
        BY <1>3
      <3> QED
        BY <1>3, <3>1, DivMod DEF At
    <2> QED
      BY <2>1, <2>2
  <1>5. f[h] = HashAt(D, last, s, e, h)
    BY DEF h, last
  <1> DEFINE lo == Lo(last, s, h)
  <1>6. lo \in Nat /\ lo <= last /\ lo = s + P * a
    BY <1>1, <1>3, NodeFacts DEF Lo
  <1> HIDE DEF c, edge, a, lo
  <1>7. CASE a % 2 = 1
    <2>1. a # 0 /\ c < edge /\ edge % 2 = 1 /\ edge - 1 \in Nat
      BY <1>4, <1>7
    <2>2. P * edge = lo /\ P * (edge - 1) = lo - P
      <3>1. P * edge = P * c + P * a /\ P * (edge - 1) = P * edge - P
        <4> HIDE DEF P
        <4> QED
          BY <1>3, <1>4, <2>1
      <3> QED
        BY <1>4, <1>6, <2>1, <3>1
    <2>3. FullSubtreeHashByLevel(MCTree, h, edge - 1) = MTH(D, lo - P, lo)
      <3> DEFINE j == edge - 1
      <3>1. j \in Nat /\ P * (j + 1) = lo /\ P * j = lo - P
        <4>1. j + 1 = edge
          BY <2>1, <1>4
        <4> QED
          BY <2>1, <2>2, <4>1
      <3> HIDE DEF j
      <3>2. P * (j + 1) <= LeafCount
        BY <1>3, <1>6, <3>1
      <3>3. FullSubtreeHashByLevel(MCTree, h, j) = MTH(D, P * j, P * (j + 1))
        BY <1>1, <3>1, <3>2, FullSubtreeHashIs
      <3> QED
        BY <3>1, <3>3 DEF j
    <2>4. Sibling(D, last, s, e, h) = MTH(D, lo - P, lo)
      BY <1>7 DEF Sibling, a, lo
    <2>5. HashAt(D, last, s, e, h + 1)
             = HashNode(Sibling(D, last, s, e, h), HashAt(D, last, s, e, h))
      BY <1>1, <1>3, <1>7, NodeStep DEF a
    <2>6. ClimbTo(s, e, f, l) = HashNode(MTH(D, lo - P, lo), f[h])
      BY <1>2, <2>1, <2>3
    <2> QED
      BY <1>1, <1>5, <2>4, <2>5, <2>6 DEF last
  <1>8. CASE a % 2 = 0
    <2>1. ~(c < edge /\ edge % 2 = 1)
      BY <1>4, <1>8
    <2>2. HashAt(D, last, s, e, h + 1) = HashAt(D, last, s, e, h)
      <3>1. At(last, s, h) = At(e - 1, s, h)
        BY DEF last
      <3> QED
        BY <1>1, <1>3, <1>8, <3>1, NodeStep DEF a
    <2> QED
      BY <1>1, <1>2, <1>5, <2>1, <2>2 DEF last
  <1> QED
    BY <1>4, <1>7, <1>8

\* The loop ends with the hash of the subtree.
LEMMA SubtreeHashIs ==
    ASSUME NEW s \in Word, NEW e \in Word
    PROVE  SubtreeHash(MCTree, s, e) =
              IF IsValidSubtree(s, e) /\ e <= LeafCount THEN MTH(D, s, e) ELSE NoHash
  <1>0. W \in Nat /\ s \in Nat /\ e \in Nat /\ e < Pow2[W] /\ LeafCount \in Nat
    BY WordFacts, LeafCountAssumption
  <1> DEFINE n == EdgeLevel(s, e - 1)
             IsLoop(f) ==
               f = [j \in n .. W |->
                     IF j = n
                     THEN FullSubtreeHashByLevel(MCTree, j, (e - 1) \div Pow2[j])
                     ELSE IF /\ s \div Pow2[j - 1] < (e - 1) \div Pow2[j - 1]
                             /\ ((e - 1) \div Pow2[j - 1]) % 2 = 1
                          THEN HashNode(FullSubtreeHashByLevel(MCTree, j - 1,
                                           ((e - 1) \div Pow2[j - 1]) - 1),
                                        f[j - 1])
                          ELSE f[j - 1]]
             hash == CHOOSE f : IsLoop(f)
  <1>1. SubtreeHash(MCTree, s, e) =
           IF ~IsValidSubtree(s, e) \/ e > LeafCount THEN NoHash
           ELSE IF s = e THEN HashEmpty ELSE hash[W]
    <2>1. SubtreeHash(MCTree, s, e) =
             IF ~IsValidSubtree(s, e) \/ e > Size(MCTree) THEN NoHash
             ELSE IF s = e THEN HashEmpty ELSE hash[W]
      BY DEF SubtreeHash
    <2> HIDE DEF hash
    <2> QED
      BY <2>1, TreeIs
  <1>2. CASE ~IsValidSubtree(s, e) \/ e > LeafCount
    BY <1>0, <1>1, <1>2
  <1>3. CASE s = e /\ e <= LeafCount
    <2>1. MTH(D, s, e) = HashEmpty /\ IsValidSubtree(s, e) /\ ~(e > LeafCount)
      BY <1>0, <1>3, MTHEquations DEF IsValidSubtree
    <2> QED
      BY <1>1, <1>3, <2>1
  <1>4. CASE IsValidSubtree(s, e) /\ e <= LeafCount /\ s # e
    <2>1. s < e
      BY <1>0, <1>4 DEF IsValidSubtree
    <2>2. PICK k \in 0 .. W : IsAligned(s, e, k)
      BY <1>4, <2>1, ValidIsAligned
    <2>3. n \in 0 .. W /\ n \in Nat
      BY <1>0, <2>2, EdgeLevelIs
    <2>4. ASSUME NEW f PROVE IsLoop(f) <=> f = [l \in n .. W |-> ClimbTo(s, e, f, l)]
      BY DEF ClimbTo
    <2> DEFINE H(l) == HashAt(D, e - 1, s, e, l)
               g == [l \in n .. W |-> H(l)]
    <2> HIDE DEF IsLoop
    <2>5. ASSUME NEW f, NEW l \in n .. W, l # n => f[l - 1] = H(l - 1)
          PROVE  ClimbTo(s, e, f, l) = H(l)
      <3>1. CASE l = n
        BY <1>4, <2>2, <3>1, ClimbStart
      <3>2. CASE l # n
        <4>1. l \in 0 .. W /\ l > n
          BY <1>0, <2>3, <3>2
        <4> QED
          BY <1>4, <2>2, <2>5, <3>2, <4>1, ClimbStep
      <3> QED
        BY <3>1, <3>2
    <2> HIDE DEF n, H
    <2>6. IsLoop(g)
      <3>1. ASSUME NEW l \in n .. W PROVE g[l] = ClimbTo(s, e, g, l)
        <4>1. l # n => l - 1 \in n .. W
          BY <1>0, <2>3
        <4>2. l # n => g[l - 1] = H(l - 1)
          BY <4>1
        <4>3. g[l] = H(l)
          OBVIOUS
        <4> HIDE DEF g
        <4> QED
          BY <2>5, <4>2, <4>3
      <3>2. g = [l \in n .. W |-> g[l]]
        OBVIOUS
      <3> HIDE DEF g
      <3> QED
        BY <2>4, <3>1, <3>2
    <2>7. IsLoop(hash)
      BY <2>6
    <2> HIDE DEF hash
    <2>8. \A l \in n .. W : hash[l] = ClimbTo(s, e, hash, l)
      <3>1. hash = [l \in n .. W |-> ClimbTo(s, e, hash, l)]
        BY <2>4, <2>7
      <3> QED
        BY <3>1
    <2> DEFINE S == {d \in Nat : n + d <= W => hash[n + d] = H(n + d)}
    <2>9. 0 \in S
      <3>1. n \in n .. W /\ n + 0 = n
        BY <1>0, <2>3
      <3>2. hash[n] = H(n)
        BY <2>5, <2>8, <3>1
      <3> QED
        BY <3>1, <3>2
    <2>10. ASSUME NEW d \in Nat, d \in S PROVE d + 1 \in S
      <3> SUFFICES ASSUME n + (d + 1) <= W PROVE hash[n + (d + 1)] = H(n + (d + 1))
        OBVIOUS
      <3> DEFINE l == n + (d + 1)
      <3>1. l \in n .. W /\ l - 1 = n + d /\ n + d <= W
        BY <1>0, <2>3
      <3>2. hash[l - 1] = H(l - 1)
        BY <2>10, <3>1
      <3> HIDE DEF l
      <3>3. hash[l] = H(l)
        BY <2>5, <2>8, <3>1, <3>2
      <3> QED
        BY <3>3 DEF l
    <2> HIDE DEF S
    <2>11. Nat \subseteq S
      BY <2>9, <2>10, NatInductionOnSets
    <2>12. hash[W] = H(W)
      <3>1. W - n \in Nat /\ n + (W - n) = W
        BY <1>0, <2>3
      <3>2. W - n \in S
        BY <2>11, <3>1
      <3> QED
        BY <1>0, <3>1, <3>2 DEF S
    <2>13. H(W) = MTH(D, s, e)
      <3>1. At(e - 1, s, W) = 0
        <4> DEFINE d == (e - 1) - s
                   M == Pow2[W]
        <4>1. d \in Nat /\ d < M /\ M \in Nat \ {0} /\ 0 \in Nat
          BY <1>0, <2>1, WordFacts
        <4>2. At(e - 1, s, W) = d \div M
          BY DEF At
        <4> HIDE DEF d, M
        <4>3. (M * 0 + d) \div M = 0
          BY <4>1, DivModUnique
        <4>4. M * 0 + d = d
          BY <4>1
        <4> QED
          BY <4>2, <4>3, <4>4
      <3> DEFINE last == e - 1
      <3>2. last \in Nat /\ s <= last /\ last < e
        BY <1>0, <2>1
      <3>3. HashAt(D, last, s, e, W) = MTH(D, s, e)
        BY <1>0, <3>1, <3>2, NodeTop
      <3> QED
        BY <3>3 DEF H
    <2>14. ~(e > LeafCount)
      BY <1>0, <1>4
    <2> QED
      BY <1>1, <1>4, <2>12, <2>13, <2>14
  <1> QED
    BY <1>0, <1>2, <1>3, <1>4

\* SubtreeHash, which climbs from the right edge of a subtree of the static
\* tree, returns for every two words the hash the draft defines from the top,
\* and fails exactly for an interval that is not a subtree of the log
\* (log.go:86-124).
THEOREM SubtreeHashesMatch == Questions => []HashMatchesDefinition
  <1>1. AreWords => HashMatchesDefinition
    BY SubtreeHashIs DEF AreWords, HashMatchesDefinition
  <1> QED
    BY <1>1, QuestionsAreWords, PTL DEF Questions

-----------------------------------------------------------------------------

\* The position is the one part of the state the loop's bounds depend on.
EvaluationInv == position \in Positions /\ PathIsInSubtree

\* Halving two numbers keeps them ordered, and an even one above zero stays
\* above zero.
LEMMA Halves ==
    ASSUME NEW x \in Nat, NEW y \in Nat, x <= y
    PROVE  /\ x \div 2 \in Nat /\ y \div 2 \in Nat /\ x \div 2 <= y \div 2
           /\ x % 2 = 0 /\ x # 0 => x \div 2 # 0
  OBVIOUS

LEMMA EvaluationInvInit == Init => EvaluationInv
  BY DEF Init, EvaluationInv, PathIsInSubtree

LEMMA EvaluationInvStep == EvaluationInv /\ [Next]_vars => EvaluationInv'
  <1> SUFFICES ASSUME EvaluationInv, [Next]_vars PROVE EvaluationInv'
    OBVIOUS
  <1> USE DEF EvaluationInv, PathIsInSubtree
  <1>1. CASE StartProof
    BY <1>1 DEF StartProof
  <1>2. CASE ProveLevel
    BY <1>2 DEF ProveLevel
  <1>3. CASE Deliver
    BY <1>3 DEF Deliver
  <1>4. CASE StartEvaluation
    <2>1. CASE Contains(position)
      <3>1. /\ position.index \in Nat /\ position.start \in Nat /\ position.end \in Nat
            /\ position.start <= position.index /\ position.index < position.end
        BY <2>1, PositionAssumption DEF Contains
      <3>2. /\ fn' = position.index - position.start
            /\ sn' = position.end - position.start - 1
            /\ stage' = "reading" /\ position' = position
        BY <1>4, <2>1 DEF StartEvaluation
      <3>3. fn' \in Nat /\ sn' \in Nat /\ fn' <= sn'
        BY <3>1, <3>2
      <3> QED
        BY <3>2, <3>3
    <2>2. CASE ~Contains(position)
      BY <1>4, <2>2 DEF StartEvaluation
    <2> QED
      BY <2>1, <2>2
  <1>5. CASE ReadHash
    <2>1. fn \in Nat /\ sn \in Nat /\ fn <= sn /\ stage = "reading"
      BY <1>5 DEF ReadHash
    <2>2. CASE sn = 0 /\ stage' = "done"
      BY <1>5, <2>2 DEF ReadHash
    <2>3. CASE /\ sn # 0 /\ OnRight
               /\ stage' = "shifting" /\ UNCHANGED <<fn, sn>>
      <3>1. fn # 0
        BY <2>1, <2>3 DEF OnRight
      <3> QED
        BY <1>5, <2>1, <2>3, <3>1 DEF ReadHash, OnRight
    <2>4. CASE fn' = fn \div 2 /\ sn' = sn \div 2 /\ UNCHANGED stage
      <3>1. fn' \in Nat /\ sn' \in Nat /\ fn' <= sn'
        BY <2>1, <2>4, Halves
      <3> QED
        BY <1>5, <2>1, <2>4, <3>1 DEF ReadHash
    <2> QED
      BY <1>5, <2>2, <2>3, <2>4 DEF ReadHash
  <1>6. CASE Shift
    <2>1. fn \in Nat /\ sn \in Nat /\ fn <= sn /\ fn # 0 /\ stage = "shifting"
      BY <1>6 DEF Shift
    <2>2. fn' = fn \div 2 /\ sn' = sn \div 2 /\ position' = position
      BY <1>6 DEF Shift
    <2>3. fn' \in Nat /\ sn' \in Nat /\ fn' <= sn'
      BY <2>1, <2>2, Halves
    <2>4. CASE fn % 2 = 0
      <3>1. fn = sn
        BY <1>6, <2>4 DEF Shift, OnRight
      <3>2. fn' # 0 /\ fn' = sn'
        BY <2>1, <2>2, <2>4, <3>1, Halves
      <3> QED
        BY <2>2, <2>3, <3>2 DEF OnRight
    <2>5. CASE fn % 2 # 0
      <3>1. stage' = "reading"
        BY <1>6, <2>5 DEF Shift
      <3> QED
        BY <2>2, <2>3, <3>1
    <2> QED
      BY <2>4, <2>5
  <1>7. CASE Finish
    BY <1>7 DEF Finish
  <1>8. CASE UNCHANGED vars
    BY <1>8 DEF vars, OnRight
  <1> QED
    BY <1>1, <1>2, <1>3, <1>4, <1>5, <1>6, <1>7, <1>8 DEF Next

\* While the verifier evaluates a proof of any length and content, the entry's
\* path stays within the subtree and the inner loop of
\* EvaluateSubtreeInclusionProof is entered only where it ends
\* (log.go:266-288).
THEOREM EvaluationStaysInSubtree == Spec => []PathIsInSubtree
  <1>1. EvaluationInv => PathIsInSubtree
    BY DEF EvaluationInv
  <1> QED
    BY <1>1, EvaluationInvInit, EvaluationInvStep, PTL DEF Spec

-----------------------------------------------------------------------------

\* An entry of a subtree of the log, and a level of the walk up from it.
IsClimb(i, s, e, k, l) ==
    /\ s \in Word /\ e \in Word /\ k \in 0 .. W /\ IsAligned(s, e, k) /\ e <= LeafCount
    /\ i \in Nat /\ s <= i /\ i < e /\ l \in Nat

\* Where the nodes of a level below the root of the subtree lie in the tree.
LEMMA LevelFacts ==
    ASSUME NEW i, NEW s, NEW e, NEW k, NEW l, IsClimb(i, s, e, k, l), At(e - 1, s, l) # 0,
           NEW P, P = Pow2[l], NEW z, z = s \div P,
           NEW f, f = At(i, s, l), NEW n, n = At(e - 1, s, l)
    PROVE  /\ l \in 0 .. W /\ P \in Nat \ {0} /\ z \in Nat /\ z % 2 = 0
           /\ f \in Nat /\ n \in Nat /\ f <= n
           /\ i \div P = z + f /\ (e - 1) \div P = z + n
           /\ P * (z + f) = Lo(i, s, l) /\ P * (z + f) \in Nat /\ P * (z + n) \in Nat
           /\ P * (z + f + 1) = Lo(i, s, l) + P /\ P * (z + f + 2) = Lo(i, s, l) + 2 * P
           /\ P * (z + n) <= e - 1 /\ e <= P * (z + n) + P
  <1>1. /\ s \in Nat /\ e \in Nat /\ k \in 0 .. W /\ i \in Nat /\ s <= i /\ i < e
        /\ l \in Nat /\ IsAligned(s, e, k) /\ W \in Nat /\ e - 1 \in Nat
        /\ s <= e - 1 /\ e - 1 < e
    BY WordFacts DEF IsClimb
  <1>2. /\ P \in Nat \ {0} /\ f \in Nat /\ n \in Nat /\ f <= n
    BY <1>1, Pow2Type, NodeFacts
  <1>3. /\ z \in Nat /\ (e - 1) \div P = z + n /\ l < k /\ s = P * z /\ z % 2 = 0
    <2> DEFINE x == e - 1
    <2>1. x \in Nat /\ s <= x /\ x < e /\ At(x, s, l) # 0
      BY <1>1
    <2> HIDE DEF x
    <2>2. /\ s \div Pow2[l] \in Nat
          /\ x \div Pow2[l] = (s \div Pow2[l]) + At(x, s, l)
          /\ l < k /\ s = Pow2[l] * (s \div Pow2[l]) /\ (s \div Pow2[l]) % 2 = 0
      BY <1>1, <2>1, Absolute
    <2> QED
      BY <2>2 DEF x
  <1>4. i \div P = z + f
    BY <1>1, Absolute
  <1>5. Lo(i, s, l) = s + P * f
    BY DEF Lo
  <1>6. /\ P * (z + f) = P * z + P * f /\ P * (z + f) \in Nat /\ P * (z + n) \in Nat
        /\ P * (z + f + 1) = P * (z + f) + P /\ P * (z + f + 2) = P * (z + f) + 2 * P
    BY <1>2, <1>3
  <1>7. P * (z + n) <= e - 1 /\ e <= P * (z + n) + P
    <2> DEFINE x == e - 1
               q == x \div P
    <2>1. x \in Nat
      BY <1>1
    <2> HIDE DEF x
    <2>2. q \in Nat /\ x % P \in Nat /\ x % P < P /\ x = P * q + (x % P)
      BY <1>2, <2>1, DivMod
    <2>3. q = z + n
      BY <1>3 DEF x
    <2> HIDE DEF q
    <2> DEFINE a == P * q
               m == x % P
    <2>4. x = a + m /\ a \in Nat /\ m \in Nat /\ m < P
      BY <1>2, <2>2
    <2> HIDE DEF a, m
    <2>5. a <= x /\ x + 1 <= a + P
      BY <1>2, <2>4
    <2> QED
      BY <1>1, <2>3, <2>5 DEF a, x
  <1> QED
    BY <1>1, <1>2, <1>3, <1>4, <1>5, <1>6, <1>7

\* The sibling of a left child, when there is one.
LEMMA RightSiblingIs ==
    ASSUME NEW X, NEW i \in Nat, NEW s \in Nat, NEW e \in Nat, s <= i, i < e, NEW l \in Nat,
           NEW P, P = Pow2[l], At(i, s, l) % 2 = 0
    PROVE  Sibling(X, i, s, e, l) =
              MTH(X, Lo(i, s, l) + P, IF Lo(i, s, l) + 2 * P < e THEN Lo(i, s, l) + 2 * P ELSE e)
  <1> DEFINE f == At(i, s, l)
  <1>1. P \in Nat \ {0} /\ Pow2[l + 1] = 2 * P /\ f \in Nat /\ i - s \in Nat
    BY Pow2Type, Pow2Equations, NodeFacts
  <1>2. At(i, s, l + 1) = f \div 2
    BY <1>1, Halving DEF At
  <1>3. 2 * P * (f \div 2) = P * f
    <2> DEFINE h == f \div 2
    <2>1. h \in Nat /\ f = 2 * h
      BY <1>1
    <2> HIDE DEF h, f
    <2>2. 2 * P * h = P * (2 * h)
      BY <1>1, <2>1
    <2> QED
      BY <2>1, <2>2 DEF h
  <1>4. Lo(i, s, l + 1) = Lo(i, s, l)
    BY <1>1, <1>2, <1>3 DEF Lo
  <1>5. Hi(i, s, e, l + 1) = IF Lo(i, s, l) + 2 * P < e THEN Lo(i, s, l) + 2 * P ELSE e
    BY <1>1, <1>4 DEF Hi
  <1>6. ~(f % 2 = 1)
    OBVIOUS
  <1> QED
    BY <1>5, <1>6 DEF Sibling

\* The three cases of NeighborHash exclude each other.
LEMMA NeighborCases ==
    ASSUME NEW a \in Nat, NEW b \in Nat
    PROVE  /\ a < b => NeighborHash(a, b) = <<FullSubtreeHashByLevel(tree, level, a)>>
           /\ a = b =>
                 NeighborHash(a, b) =
                    <<SubtreeHash(tree, b * Pow2[level] % Pow2[W], position.end)>>
           /\ a > b => NeighborHash(a, b) = <<>>
  <1>1. \/ a < b /\ a # b /\ ~(a > b)
        \/ a = b /\ ~(a < b) /\ ~(a > b)
        \/ a > b /\ a # b /\ ~(a < b)
    OBVIOUS
  <1> QED
    BY <1>1, Zenon DEF NeighborHash

\* The neighbor the prover looks up at a level is the sibling of the node the
\* entry is below, and it looks none up exactly where there is no sibling.
LEMMA NeighborHashIs ==
    ASSUME NEW i, NEW s, NEW e, NEW k, NEW l, IsClimb(i, s, e, k, l), At(e - 1, s, l) # 0,
           tree = MCTree, position.end = e, level = l
    PROVE  NeighborHash(Neighbor(i \div Pow2[l]), (e - 1) \div Pow2[l]) =
              IF At(i, s, l) % 2 = 1 \/ At(i, s, l) < At(e - 1, s, l)
              THEN <<Sibling(D, i, s, e, l)>> ELSE <<>>
  <1> DEFINE P == Pow2[l]
             z == s \div P
             f == At(i, s, l)
             n == At(e - 1, s, l)
             lo == Lo(i, s, l)
  <1>1. /\ l \in 0 .. W /\ P \in Nat \ {0} /\ z \in Nat /\ z % 2 = 0
        /\ f \in Nat /\ n \in Nat /\ f <= n
        /\ i \div P = z + f /\ (e - 1) \div P = z + n
        /\ P * (z + f) = lo /\ P * (z + f) \in Nat /\ P * (z + n) \in Nat
        /\ P * (z + f + 1) = lo + P /\ P * (z + f + 2) = lo + 2 * P
        /\ P * (z + n) <= e - 1 /\ e <= P * (z + n) + P
    BY LevelFacts
  <1>2. /\ s \in Nat /\ e \in Nat /\ i \in Nat /\ s <= i /\ i < e /\ l \in Nat
        /\ e \in Word /\ e <= LeafCount /\ LeafCount \in Nat /\ W \in Nat
    BY WordFacts, LeafCountAssumption DEF IsClimb
  <1>3. lo \in Nat /\ lo <= i
    BY <1>2, NodeFacts
  <1>4. f % 2 = 1 =>  Sibling(D, i, s, e, l) = MTH(D, lo - P, lo)
    BY DEF Sibling
  <1>5. f % 2 = 0 =>
           Sibling(D, i, s, e, l) = MTH(D, lo + P, IF lo + 2 * P < e THEN lo + 2 * P ELSE e)
    BY <1>2, RightSiblingIs
  <1>6. ASSUME NEW j \in Nat, P * (j + 1) <= LeafCount
        PROVE  FullSubtreeHashByLevel(tree, level, j) = MTH(D, P * j, P * (j + 1))
    BY <1>1, <1>6, FullSubtreeHashIs
  <1> HIDE DEF P, z, f, n, lo
  <1>7. (z + f) % 2 = 1 <=> f % 2 = 1
    BY <1>1
  <1>8. CASE f % 2 = 1
    <2> DEFINE j == z + f - 1
    <2>1. Neighbor(z + f) = j /\ j \in Nat /\ j < z + n /\ j + 1 = z + f
      BY <1>1, <1>7, <1>8 DEF Neighbor
    <2>2. P * (j + 1) = lo /\ P * j = lo - P
      <3>1. P * (j + 1) = P * j + P /\ P * j \in Nat
        BY <1>1, <2>1
      <3> QED
        BY <1>1, <2>1, <3>1
    <2> HIDE DEF j
    <2>3. P * (j + 1) <= LeafCount
      BY <1>2, <1>3, <2>2
    <2>4. FullSubtreeHashByLevel(tree, level, j) = MTH(D, lo - P, lo)
      BY <1>6, <2>1, <2>2, <2>3
    <2>5. NeighborHash(j, z + n) = <<FullSubtreeHashByLevel(tree, level, j)>>
      BY <1>1, <2>1, NeighborCases
    <2> QED
      BY <1>1, <1>4, <1>8, <2>1, <2>4, <2>5 DEF P, f, n
  <1>9. CASE f % 2 # 1 /\ f + 1 < n
    <2> DEFINE j == z + f + 1
    <2>1. Neighbor(z + f) = j /\ j \in Nat /\ j < z + n /\ j + 1 = z + f + 2 /\ f % 2 = 0
      BY <1>1, <1>7, <1>9 DEF Neighbor
    <2>2. P * (j + 1) = lo + 2 * P /\ P * j = lo + P
      BY <1>1, <2>1
    <2>3. P * (z + f + 2) <= P * (z + n)
      BY <1>1, <1>9
    <2> HIDE DEF j
    <2>4. lo + 2 * P < e /\ P * (j + 1) <= LeafCount
      BY <1>1, <1>2, <1>3, <2>2, <2>3
    <2>5. FullSubtreeHashByLevel(tree, level, j) = MTH(D, lo + P, lo + 2 * P)
      BY <1>6, <2>1, <2>2, <2>4
    <2>6. NeighborHash(j, z + n) = <<FullSubtreeHashByLevel(tree, level, j)>>
      BY <1>1, <2>1, NeighborCases
    <2>7. f < n
      BY <1>1, <1>9
    <2> QED
      BY <1>1, <1>5, <2>1, <2>4, <2>5, <2>6, <2>7 DEF P, f, n
  <1>10. CASE f % 2 # 1 /\ f + 1 = n
    <2> DEFINE a == lo + P
    <2>1. Neighbor(z + f) = z + n /\ f % 2 = 0 /\ z + n = z + f + 1
      BY <1>1, <1>7, <1>10 DEF Neighbor
    <2>2. a = P * (z + n) /\ a \in Nat /\ a < e /\ e <= a + P
      BY <1>1, <1>2, <2>1
    <2>3. a % P = 0
      <3>1. z + n \in Nat /\ P \in Nat \ {0}
        BY <1>1
      <3> HIDE DEF a
      <3> QED
        BY <2>2, <3>1, Multiples
    <2>4. a \in Word /\ a % Pow2[W] = a
      <3>1. a < Pow2[W] /\ Pow2[W] \in Nat \ {0}
        BY <1>2, <2>2, WordFacts
      <3> HIDE DEF a
      <3> QED
        BY <2>2, <3>1, WordFacts
    <2>5. IsValidSubtree(a, e)
      <3>1. IsAligned(a, e, l)
        BY <1>2, <2>2, <2>3 DEF IsAligned, P
      <3> HIDE DEF a
      <3> QED
        BY <1>1, <1>2, <2>2, <2>4, <3>1, ValidIsAligned
    <2>6. SubtreeHash(tree, a, e) = MTH(D, a, e)
      <3> HIDE DEF a
      <3> QED
        BY <1>2, <2>4, <2>5, SubtreeHashIs
    <2>7. (z + n) * Pow2[level] % Pow2[W] = a
      <3>1. (z + n) * P = P * (z + n)
        BY <1>1
      <3> HIDE DEF a
      <3> QED
        BY <2>2, <2>4, <3>1 DEF P
    <2> HIDE DEF a
    <2>8. NeighborHash(z + n, z + n) = <<SubtreeHash(tree, a, e)>>
      <3>1. z + n \in Nat
        BY <1>1
      <3> QED
        BY <2>7, <3>1, NeighborCases
    <2>9. Sibling(D, i, s, e, l) = MTH(D, a, e)
      <3>1. ~(lo + 2 * P < e)
        BY <1>1, <1>2, <1>3, <2>2 DEF a
      <3> QED
        BY <1>5, <2>1, <3>1 DEF a
    <2>10. f < n
      BY <1>1, <1>10
    <2> QED
      BY <1>1, <2>1, <2>6, <2>8, <2>9, <2>10 DEF P, f, n
  <1>11. CASE f % 2 # 1 /\ f = n
    <2>1. Neighbor(z + f) = z + n + 1 /\ ~(f < n)
      BY <1>1, <1>7, <1>11 DEF Neighbor
    <2>2. NeighborHash(z + n + 1, z + n) = <<>>
      <3>1. z + n \in Nat /\ z + n + 1 \in Nat /\ z + n + 1 > z + n
        BY <1>1
      <3> QED
        BY <3>1, NeighborCases
    <2> QED
      BY <1>1, <1>11, <2>1, <2>2 DEF P, f, n
  <1> QED
    BY <1>1, <1>8, <1>9, <1>10, <1>11

-----------------------------------------------------------------------------

\* Terms of hashes are equal only when their parts are, and no hash is an error.
LEMMA HashesDiffer ==
    ASSUME NEW a, NEW b, NEW c, NEW d
    PROVE  /\ HashNode(a, b) = HashNode(c, d) <=> a = c /\ b = d
           /\ HashNode(a, b) # NoHash /\ HashLeaf(a) # NoHash
  <1>1. /\ HashNode(a, b) = <<a, b>> /\ HashNode(c, d) = <<c, d>>
        /\ HashLeaf(a) = <<a>> /\ NoHash = <<0, 0, 0>>
    BY DEF HashNode, HashLeaf, NoHash
  <1>2. <<a, b>> = <<c, d>> <=> a = c /\ b = d
    <2>1. <<a, b>>[1] = a /\ <<a, b>>[2] = b /\ <<c, d>>[1] = c /\ <<c, d>>[2] = d
      OBVIOUS
    <2> QED
      BY <2>1
  <1>3. <<a, b>> # <<0, 0, 0>> /\ <<a>> # <<0, 0, 0>>
    <2>1. Len(<<a, b>>) = 2 /\ Len(<<a>>) = 1 /\ Len(<<0, 0, 0>>) = 3
      OBVIOUS
    <2> QED
      BY <2>1
  <1> QED
    BY <1>1, <1>2, <1>3

\* The hash of a subtree that is not empty is no error.
LEMMA HashesAreHashes ==
    ASSUME NEW X, NEW s \in Nat, NEW e \in Nat, s < e
    PROVE  MTH(X, s, e) # NoHash
  <1> DEFINE n == e - s
  <1>1. n \in Nat /\ n # 0 /\ s + n = e
    OBVIOUS
  <1> HIDE DEF n
  <1>2. CASE n = 1
    <2>1. MTH(X, s, e) = HashLeaf(X[s + 1])
      BY <1>1, <1>2, MTHEquations
    <2> QED
      BY <2>1, HashesDiffer
  <1>3. CASE n # 1
    <2>1. n > 1
      BY <1>1, <1>3
    <2>2. MTH(X, s, s + n) = HashNode(MTH(X, s, s + Split(n)), MTH(X, s + Split(n), s + n))
      BY <1>1, <2>1, MTHEquations
    <2> HIDE DEF n
    <2> QED
      BY <1>1, <2>2, HashesDiffer
  <1> QED
    BY <1>2, <1>3

-----------------------------------------------------------------------------

\* What the verifier has been given agrees, as far as it has read up to a
\* level, with the entry and its proof in the log.
Agrees(hashes, entry, i, s, e, l) ==
    /\ entry = HashLeaf(D[i + 1])
    /\ \A k \in 1 .. Len(PathAt(D, i, s, e, l)) : hashes[k] = PathAt(D, i, s, e, l)[k]

\* The verifier between two hashes: `left` is to be read, and the hash it has
\* computed is the node's exactly when what it has read agrees.
IsReading(hashes, entry, left, h, a, b, i, s, e, l) ==
    /\ l \in Nat /\ a = At(i, s, l) /\ b = At(e - 1, s, l)
    /\ Rest(left, hashes, Len(PathAt(D, i, s, e, l)))
    /\ h = HashAt(D, i, s, e, l) <=> Agrees(hashes, entry, i, s, e, l)

\* The verifier when it has taken a hash for a left sibling and has not yet
\* shifted to the level of that sibling.
IsShifting(hashes, entry, left, h, a, b, i, s, e, l) ==
    /\ l \in Nat /\ a = At(i, s, l) /\ b = At(e - 1, s, l)
    /\ Rest(left, hashes, Len(PathAt(D, i, s, e, l)) + 1)
    /\ \E x : /\ h = HashNode(hashes[Len(PathAt(D, i, s, e, l)) + 1], x)
              /\ x = HashAt(D, i, s, e, l) <=> Agrees(hashes, entry, i, s, e, l)

\* The indices of the next level.
LEMMA AtAbove ==
    ASSUME NEW i \in Nat, NEW s \in Nat, NEW e \in Nat, s <= i, i < e, NEW l \in Nat
    PROVE  At(i, s, l + 1) = At(i, s, l) \div 2 /\ At(e - 1, s, l + 1) = At(e - 1, s, l) \div 2
  <1>1. i - s \in Nat /\ e - 1 - s \in Nat
    OBVIOUS
  <1> QED
    BY <1>1, Halving DEF At

\* One more hash agrees when it is the sibling.
LEMMA AgreesLonger ==
    ASSUME NEW i \in Nat, NEW s \in Nat, NEW e \in Nat, s <= i, i < e, NEW l \in Nat,
           NEW hashes, NEW entry,
           PathAt(D, i, s, e, l + 1) = Longer(PathAt(D, i, s, e, l), Sibling(D, i, s, e, l))
    PROVE  LET m == Len(PathAt(D, i, s, e, l))
           IN  /\ Len(PathAt(D, i, s, e, l + 1)) = m + 1
               /\ Agrees(hashes, entry, i, s, e, l + 1) <=>
                     Agrees(hashes, entry, i, s, e, l) /\ hashes[m + 1] = Sibling(D, i, s, e, l)
  <1> DEFINE p == PathAt(D, i, s, e, l)
             q == PathAt(D, i, s, e, l + 1)
             h == Sibling(D, i, s, e, l)
             m == Len(p)
  <1>1. IsSequence(p) /\ q = Longer(p, h)
    BY PathsAreSequences
  <1> HIDE DEF p, q, h
  <1>2. /\ m \in Nat /\ Len(q) = m + 1 /\ q[m + 1] = h
        /\ \A k \in 1 .. m : q[k] = p[k]
    BY <1>1, LongerFacts, ZenonT(60)
  <1> HIDE DEF m
  <1>3. (\A k \in 1 .. m + 1 : hashes[k] = q[k])
           <=> (\A k \in 1 .. m : hashes[k] = p[k]) /\ hashes[m + 1] = h
    <2>1. \A k : k \in 1 .. m + 1 <=> k \in 1 .. m \/ k = m + 1
      BY <1>2
    <2> QED
      BY <1>2, <2>1
  <1> QED
    BY <1>2, <1>3 DEF p, q, h, m, Agrees

\* At the entry, before anything is read.
LEMMA StartsReading ==
    ASSUME NEW i \in Nat, NEW s \in Nat, NEW e \in Nat, s <= i, i < e,
           NEW hashes, IsSequence(hashes), NEW entry
    PROVE  IsReading(hashes, entry, hashes, entry, i - s, e - s - 1, i, s, e, 0)
  <1>1. /\ At(i, s, 0) = i - s /\ At(e - 1, s, 0) = e - 1 - s
        /\ PathAt(D, i, s, e, 0) = <<>> /\ HashAt(D, i, s, e, 0) = HashLeaf(D[i + 1])
    BY NodeBottom
  <1>2. Len(<<>>) = 0 /\ 1 .. 0 = {} /\ e - 1 - s = e - s - 1
    OBVIOUS
  <1>3. Rest(hashes, hashes, 0)
    BY RestAll
  <1> QED
    BY <1>1, <1>2, <1>3 DEF IsReading, Agrees

\* A hash is read for a right sibling.
LEMMA ReadsRight ==
    ASSUME NEW i \in Nat, NEW s \in Nat, NEW e \in Nat, s <= i, i < e,
           NEW hashes, NEW entry, NEW left, NEW h, NEW a, NEW b, NEW l,
           IsReading(hashes, entry, left, h, a, b, i, s, e, l), left # <<>>,
           a % 2 # 1, a # b
    PROVE  IsReading(hashes, entry, Tail(left), HashNode(h, Head(left)),
                     a \div 2, b \div 2, i, s, e, l + 1)
  <1> DEFINE m == Len(PathAt(D, i, s, e, l))
             sib == Sibling(D, i, s, e, l)
  <1>1. /\ l \in Nat /\ a = At(i, s, l) /\ b = At(e - 1, s, l) /\ Rest(left, hashes, m)
        /\ h = HashAt(D, i, s, e, l) <=> Agrees(hashes, entry, i, s, e, l)
    BY DEF IsReading
  <1>2. a \in Nat /\ b \in Nat /\ a % 2 = 0 /\ a < b
    <2>1. At(i, s, l) \in Nat /\ At(e - 1, s, l) \in Nat /\ At(i, s, l) <= At(e - 1, s, l)
      BY <1>1, NodeFacts
    <2> QED
      BY <1>1, <2>1
  <1>3. /\ PathAt(D, i, s, e, l + 1) = Longer(PathAt(D, i, s, e, l), sib)
        /\ HashAt(D, i, s, e, l + 1) = HashNode(HashAt(D, i, s, e, l), sib)
    BY <1>1, <1>2, NodeStep
  <1>4. /\ Len(PathAt(D, i, s, e, l + 1)) = m + 1
        /\ Agrees(hashes, entry, i, s, e, l + 1) <=>
              Agrees(hashes, entry, i, s, e, l) /\ hashes[m + 1] = sib
    BY <1>1, <1>3, AgreesLonger
  <1>5. Head(left) = hashes[m + 1] /\ Rest(Tail(left), hashes, m + 1)
    BY <1>1, RestFacts
  <1>6. HashNode(h, hashes[m + 1]) = HashNode(HashAt(D, i, s, e, l), sib)
           <=> h = HashAt(D, i, s, e, l) /\ hashes[m + 1] = sib
    BY HashesDiffer
  <1>7. a \div 2 = At(i, s, l + 1) /\ b \div 2 = At(e - 1, s, l + 1) /\ l + 1 \in Nat
    BY <1>1, AtAbove
  <1> HIDE DEF m, sib
  <1>8. HashNode(h, Head(left)) = HashAt(D, i, s, e, l + 1)
           <=> Agrees(hashes, entry, i, s, e, l + 1)
    BY <1>1, <1>3, <1>4, <1>5, <1>6
  <1> QED
    BY <1>4, <1>5, <1>7, <1>8 DEF IsReading

\* A hash is taken for a left sibling, of this level or of one above.
LEMMA TakesLeft ==
    ASSUME NEW hashes, NEW entry, NEW left, NEW h, NEW a, NEW b,
           NEW i, NEW s, NEW e, NEW l,
           IsReading(hashes, entry, left, h, a, b, i, s, e, l), left # <<>>
    PROVE  IsShifting(hashes, entry, Tail(left), HashNode(Head(left), h), a, b, i, s, e, l)
  <1> DEFINE m == Len(PathAt(D, i, s, e, l))
  <1>1. Rest(left, hashes, m)
    BY DEF IsReading
  <1> HIDE DEF m
  <1>2. Head(left) = hashes[m + 1] /\ Rest(Tail(left), hashes, m + 1)
    BY <1>1, RestFacts
  <1> QED
    BY <1>2 DEF IsReading, IsShifting, m

\* A last node that is a left child has no sibling and is its parent's hash.
LEMMA ShiftsOn ==
    ASSUME NEW i \in Nat, NEW s \in Nat, NEW e \in Nat, s <= i, i < e,
           NEW hashes, NEW entry, NEW left, NEW h, NEW a, NEW b, NEW l,
           IsShifting(hashes, entry, left, h, a, b, i, s, e, l), a % 2 = 0, a = b
    PROVE  IsShifting(hashes, entry, left, h, a \div 2, b \div 2, i, s, e, l + 1)
  <1>1. l \in Nat /\ a = At(i, s, l) /\ b = At(e - 1, s, l)
    BY DEF IsShifting
  <1>2. At(i, s, l) % 2 = 0 /\ At(i, s, l) = At(e - 1, s, l)
    BY <1>1
  <1>3. /\ PathAt(D, i, s, e, l + 1) = PathAt(D, i, s, e, l)
        /\ HashAt(D, i, s, e, l + 1) = HashAt(D, i, s, e, l)
    <2>1. l \in Nat
      BY <1>1
    <2> QED
      BY <1>2, <2>1, NodeStep
  <1>4. Agrees(hashes, entry, i, s, e, l + 1) <=> Agrees(hashes, entry, i, s, e, l)
    BY <1>3 DEF Agrees
  <1>5. a \div 2 = At(i, s, l + 1) /\ b \div 2 = At(e - 1, s, l + 1) /\ l + 1 \in Nat
    <2>1. l \in Nat /\ l + 1 \in Nat
      BY <1>1
    <2>2. /\ At(i, s, l + 1) = At(i, s, l) \div 2
          /\ At(e - 1, s, l + 1) = At(e - 1, s, l) \div 2
      BY <2>1, AtAbove
    <2> QED
      BY <1>1, <2>1, <2>2, Zenon
  <1> QED
    BY <1>3, <1>4, <1>5 DEF IsShifting

\* The level of the left sibling is reached.
LEMMA ShiftsLast ==
    ASSUME NEW i \in Nat, NEW s \in Nat, NEW e \in Nat, s <= i, i < e,
           NEW hashes, NEW entry, NEW left, NEW h, NEW a, NEW b, NEW l,
           IsShifting(hashes, entry, left, h, a, b, i, s, e, l), a % 2 = 1
    PROVE  IsReading(hashes, entry, left, h, a \div 2, b \div 2, i, s, e, l + 1)
  <1> DEFINE m == Len(PathAt(D, i, s, e, l))
             sib == Sibling(D, i, s, e, l)
  <1>1. /\ l \in Nat /\ a = At(i, s, l) /\ b = At(e - 1, s, l)
        /\ Rest(left, hashes, m + 1)
    BY DEF IsShifting
  <1>2. PICK x : /\ h = HashNode(hashes[m + 1], x)
                 /\ x = HashAt(D, i, s, e, l) <=> Agrees(hashes, entry, i, s, e, l)
    BY DEF IsShifting
  <1>3. /\ PathAt(D, i, s, e, l + 1) = Longer(PathAt(D, i, s, e, l), sib)
        /\ HashAt(D, i, s, e, l + 1) = HashNode(sib, HashAt(D, i, s, e, l))
    BY <1>1, NodeStep
  <1>4. /\ Len(PathAt(D, i, s, e, l + 1)) = m + 1
        /\ Agrees(hashes, entry, i, s, e, l + 1) <=>
              Agrees(hashes, entry, i, s, e, l) /\ hashes[m + 1] = sib
    BY <1>1, <1>3, AgreesLonger, SMTT(30)
  <1>5. HashNode(hashes[m + 1], x) = HashNode(sib, HashAt(D, i, s, e, l))
           <=> x = HashAt(D, i, s, e, l) /\ hashes[m + 1] = sib
    BY HashesDiffer
  <1>6. a \div 2 = At(i, s, l + 1) /\ b \div 2 = At(e - 1, s, l + 1) /\ l + 1 \in Nat
    BY <1>1, AtAbove
  <1> HIDE DEF m, sib
  <1>7. h = HashAt(D, i, s, e, l + 1) <=> Agrees(hashes, entry, i, s, e, l + 1)
    BY <1>2, <1>3, <1>4, <1>5
  <1> QED
    BY <1>1, <1>4, <1>6, <1>7 DEF IsReading

\* With hashes left at the root, the proof is too long.
LEMMA TooLong ==
    ASSUME NEW i \in Nat, NEW s \in Nat, NEW e \in Nat, s <= i, i < e,
           NEW hashes, NEW entry, NEW left, NEW h, NEW a, NEW b, NEW l,
           IsReading(hashes, entry, left, h, a, b, i, s, e, l), left # <<>>, b = 0
    PROVE  hashes # Path(D, i, s, e)
  <1> DEFINE p == PathAt(D, i, s, e, l)
  <1>1. l \in Nat /\ At(e - 1, s, l) = 0 /\ Rest(left, hashes, Len(p))
    BY DEF IsReading
  <1>2. p = Path(D, i, s, e)
    BY <1>1, NodeTop
  <1> HIDE DEF p
  <1>3. Len(p) < Len(hashes) /\ Len(p) \in Nat /\ Len(hashes) \in Nat
    BY <1>1, RestFacts
  <1> QED
    BY <1>2, <1>3

\* With no hash left below the root, it is too short.
LEMMA TooShort ==
    ASSUME NEW i \in Nat, NEW s \in Nat, NEW e \in Nat, s <= i, i < e,
           NEW hashes, NEW entry, NEW left, NEW h, NEW a, NEW b, NEW l,
           IsReading(hashes, entry, left, h, a, b, i, s, e, l), left = <<>>, b # 0
    PROVE  hashes # Path(D, i, s, e)
  <1> DEFINE p == PathAt(D, i, s, e, l)
             m == Len(p)
             whole == Path(D, i, s, e)
  <1>1. l \in Nat /\ At(e - 1, s, l) # 0 /\ Rest(left, hashes, m)
    BY DEF IsReading
  <1>2. m < Len(whole)
    BY <1>1, PathGrows
  <1> HIDE DEF m, whole
  <1>3. m = Len(hashes) /\ m \in Nat
    BY <1>1, RestFacts
  <1> QED
    BY <1>2, <1>3 DEF whole

\* With no hash left at the root, the hash is the subtree's exactly when the
\* entry and its proof were given.
LEMMA JustLong ==
    ASSUME NEW i \in Nat, NEW s \in Nat, NEW e \in Nat, s <= i, i < e,
           NEW hashes, NEW entry, NEW left, NEW h, NEW a, NEW b, NEW l,
           IsReading(hashes, entry, left, h, a, b, i, s, e, l), left = <<>>, b = 0
    PROVE  h = MTH(D, s, e) <=> hashes = Path(D, i, s, e) /\ entry = HashLeaf(D[i + 1])
  <1> DEFINE p == PathAt(D, i, s, e, l)
             m == Len(p)
  <1>1. /\ l \in Nat /\ At(e - 1, s, l) = 0 /\ Rest(left, hashes, m)
        /\ h = HashAt(D, i, s, e, l) <=> Agrees(hashes, entry, i, s, e, l)
    BY DEF IsReading
  <1>2. p = Path(D, i, s, e) /\ HashAt(D, i, s, e, l) = MTH(D, s, e)
    BY <1>1, NodeTop
  <1>3. IsSequence(p)
    BY <1>1, PathsAreSequences
  <1>4. Agrees(hashes, entry, i, s, e, l) <=>
           entry = HashLeaf(D[i + 1]) /\ \A k \in 1 .. m : hashes[k] = p[k]
    BY DEF Agrees
  <1> HIDE DEF p
  <1>5. m = Len(hashes) /\ IsSequence(hashes)
    BY <1>1, RestFacts DEF Rest
  <1>6. (\A k \in 1 .. m : hashes[k] = p[k]) <=> hashes = p
    BY <1>3, <1>5, SequencesEqual
  <1> QED
    BY <1>1, <1>2, <1>4, <1>6

-----------------------------------------------------------------------------

\* While the prover climbs, its three indices are the nodes of the level, and
\* the proof has the siblings of the levels below.
ProverInv ==
    /\ stage # "done" => result = NoHash
    /\ stage = "asked" => level = 0 /\ proof = <<>> /\ given = Nothing
    /\ stage = "proving" =>
          /\ Contains(position) /\ position.end <= LeafCount /\ level \in Nat
          /\ node = [start |-> position.start \div Pow2[level],
                     index |-> position.index \div Pow2[level],
                     last |-> (position.end - 1) \div Pow2[level]]
          /\ proof = PathAt(D, position.index, position.start, position.end, level)

\* The position proved or evaluated for.
LEMMA PositionFacts ==
    ASSUME EvaluationInv, Contains(position)
    PROVE  /\ position.index \in Nat /\ position.start \in Nat /\ position.end \in Nat
           /\ position.start <= position.index /\ position.index < position.end
           /\ position.end - 1 \in Nat
           /\ position.start <= position.end - 1 /\ position.end - 1 < position.end
  <1>1. /\ position.index \in Nat /\ position.start \in Nat /\ position.end \in Nat
        /\ position.start <= position.index /\ position.index < position.end
    BY PositionAssumption DEF Contains, EvaluationInv
  <1> QED
    BY <1>1

\* A position in the log is one to climb from.
LEMMA PositionIsAligned ==
    ASSUME EvaluationInv, Contains(position), position.end <= LeafCount, NEW l \in Nat
    PROVE  \E k : IsClimb(position.index, position.start, position.end, k, l)
  <1> DEFINE s == position.start
             e == position.end
  <1>1. /\ position.index \in Nat /\ s \in Nat /\ e \in Nat
        /\ s <= position.index /\ position.index < e
    BY PositionFacts
  <1>2. IsValidSubtree(s, e) /\ e <= LeafCount
    BY DEF Contains
  <1> HIDE DEF s, e
  <1>3. s \in Word /\ e \in Word /\ s < e
    BY <1>1, <1>2, WordFacts, LeafCountAssumption
  <1>4. PICK k \in 0 .. W : IsAligned(s, e, k)
    BY <1>2, <1>3, ValidIsAligned
  <1> QED
    BY <1>1, <1>2, <1>3, <1>4 DEF IsClimb, s, e

\* Where the loop goes on and where it ends.
LEMMA ClimbEnds ==
    ASSUME EvaluationInv, ProverInv, stage = "proving"
    PROVE  node.start < node.last <=> At(position.end - 1, position.start, level) # 0
  <1> DEFINE s == position.start
             e == position.end
             last == e - 1
             P == Pow2[level]
             n == At(last, s, level)
  <1>1. /\ Contains(position) /\ e <= LeafCount /\ level \in Nat
        /\ node.start = s \div P /\ node.last = last \div P
    BY DEF ProverInv
  <1>2. s \in Nat /\ e \in Nat /\ last \in Nat /\ s <= last /\ last < e
    BY <1>1, PositionFacts
  <1>3. PICK k : IsClimb(position.index, s, e, k, level)
    BY <1>1, PositionIsAligned
  <1>4. IsAligned(s, e, k)
    BY <1>3 DEF IsClimb
  <1> HIDE DEF s, e, last
  <1>5. s \div P \in Nat /\ last \div P = (s \div P) + n
    BY <1>1, <1>2, <1>4, Absolute
  <1>6. n \in Nat
    BY <1>1, <1>2, NodeFacts DEF last
  <1> DEFINE x == s \div P
             y == last \div P
  <1>7. x \in Nat /\ y = x + n
    BY <1>5
  <1>8. node.start = x /\ node.last = y
    BY <1>1
  <1> HIDE DEF x, y, n, P
  <1> QED
    BY <1>6, <1>7, <1>8 DEF n, last, s, e

\* At the end of the loop the proof is whole.
LEMMA ProofIsWhole ==
    ASSUME EvaluationInv, ProverInv, stage = "proving", node.start >= node.last
    PROVE  /\ Contains(position) /\ position.end <= LeafCount
           /\ proof = Path(D, position.index, position.start, position.end)
  <1> DEFINE s == position.start
             e == position.end
             i == position.index
  <1>1. /\ Contains(position) /\ e <= LeafCount /\ level \in Nat
        /\ proof = PathAt(D, i, s, e, level)
        /\ node.start = s \div Pow2[level] /\ node.last = (e - 1) \div Pow2[level]
    BY DEF ProverInv
  <1>2. /\ i \in Nat /\ s \in Nat /\ e \in Nat /\ e - 1 \in Nat /\ s <= i /\ i < e
    BY <1>1, PositionFacts
  <1>3. At(e - 1, s, level) = 0
    <2>1. node.start \in Nat /\ node.last \in Nat
      BY <1>1, <1>2, Pow2Type, DivMod
    <2>2. ~(node.start < node.last)
      BY <2>1
    <2> QED
      BY <2>2, ClimbEnds
  <1> HIDE DEF s, e, i
  <1>4. PathAt(D, i, s, e, level) = Path(D, i, s, e)
    BY <1>1, <1>2, <1>3, NodeTop
  <1> QED
    BY <1>1, <1>4 DEF s, e, i

LEMMA ProverInvInit == Init => ProverInv
  BY DEF Init, ProverInv

\* What the prover adds to the proof at a level takes it to the next one.
LEMMA OneLevelUp ==
    ASSUME EvaluationInv, ProverInv, stage = "proving", node.start < node.last
    PROVE  proof \o NeighborHash(Neighbor(node.index), node.last) =
              PathAt(D, position.index, position.start, position.end, level + 1)
  <1> DEFINE s == position.start
             e == position.end
             i == position.index
             p == PathAt(D, i, s, e, level)
             q == PathAt(D, i, s, e, level + 1)
             sib == Sibling(D, i, s, e, level)
             f == At(i, s, level)
             n == At(e - 1, s, level)
  <1>1. /\ Contains(position) /\ e <= LeafCount /\ level \in Nat /\ proof = p
        /\ node.index = i \div Pow2[level] /\ node.last = (e - 1) \div Pow2[level]
    BY DEF ProverInv
  <1>2. /\ i \in Nat /\ s \in Nat /\ e \in Nat /\ e - 1 \in Nat /\ s <= i /\ i < e
    BY <1>1, PositionFacts
  <1>3. n # 0
    BY ClimbEnds
  <1>4. PICK k : IsClimb(i, s, e, k, level)
    BY <1>1, PositionIsAligned
  <1>5. NeighborHash(Neighbor(node.index), node.last) =
           IF f % 2 = 1 \/ f < n THEN <<sib>> ELSE <<>>
    <2>1. e = position.end
      OBVIOUS
    <2> HIDE DEF e, s, i
    <2>2. NeighborHash(Neighbor(i \div Pow2[level]), (e - 1) \div Pow2[level]) =
             IF f % 2 = 1 \/ f < n THEN <<sib>> ELSE <<>>
      BY <1>3, <1>4, <2>1, TreeAssumption, NeighborHashIs
    <2> QED
      BY <1>1, <2>2
  <1> HIDE DEF s, e, i
  <1>6. IsSequence(p)
    BY <1>1, <1>2, PathsAreSequences
  <1>7. f \in Nat /\ n \in Nat /\ f <= n
    BY <1>1, <1>2, NodeFacts
  <1>8. /\ f % 2 = 1 => q = Longer(p, sib)
        /\ f % 2 = 0 /\ f < n => q = Longer(p, sib)
        /\ f % 2 = 0 /\ f = n => q = p
    BY <1>1, <1>2, NodeStep
  <1> HIDE DEF p, q, sib, f, n
  <1>9. Longer(p, sib) = p \o <<sib>>
    BY <1>6, LongerFacts
  <1>10. p \o <<>> = p
    <2>1. PICK S : p \in Seq(S)
      BY <1>6 DEF IsSequence
    <2> QED
      BY <2>1
  <1>11. q = p \o (IF f % 2 = 1 \/ f < n THEN <<sib>> ELSE <<>>)
    <2>1. CASE f % 2 = 1 \/ f < n
      <3>1. q = Longer(p, sib)
        BY <1>7, <1>8, <2>1
      <3> QED
        BY <1>9, <2>1, <3>1
    <2>2. CASE ~(f % 2 = 1 \/ f < n)
      <3>1. q = p
        BY <1>7, <1>8, <2>2
      <3> QED
        BY <1>10, <2>2, <3>1
    <2> QED
      BY <2>1, <2>2
  <1>12. proof \o NeighborHash(Neighbor(node.index), node.last) = q
    BY <1>1, <1>5, <1>11 DEF p
  <1> QED
    BY <1>12 DEF q, s, e, i

LEMMA ProverInvStep == EvaluationInv /\ ProverInv /\ [Next]_vars => ProverInv'
  <1> SUFFICES ASSUME EvaluationInv, ProverInv, [Next]_vars PROVE ProverInv'
    OBVIOUS
  <1>1. CASE StartProof
    <2>1. CASE Contains(position) /\ position.end <= Size(tree)
      <3>1. /\ stage = "asked" /\ stage' = "proving" /\ position' = position
            /\ node' = [start |-> position.start, index |-> position.index,
                        last |-> position.end - 1]
            /\ level' = level /\ proof' = proof /\ given' = given /\ result' = result
        BY <1>1, <2>1 DEF StartProof
      <3>2. level' = 0 /\ proof' = <<>> /\ result' = NoHash
        BY <3>1 DEF ProverInv
      <3>3. Contains(position') /\ position'.end <= LeafCount
        BY <2>1, <3>1, TreeAssumption, TreeIs
      <3>4. /\ position.index \in Nat /\ position.start \in Nat /\ position.end \in Nat
            /\ position.start <= position.index /\ position.index < position.end
            /\ position.end - 1 \in Nat
        BY <2>1, PositionFacts
      <3>5. PathAt(D, position.index, position.start, position.end, 0) = <<>>
        BY <3>4, NodeBottom
      <3>6. \A x \in Nat : x \div Pow2[0] = x
        BY Pow2Equations
      <3>7. node' = [start |-> position.start \div Pow2[0],
                     index |-> position.index \div Pow2[0],
                     last |-> (position.end - 1) \div Pow2[0]]
        BY <3>1, <3>4, <3>6
      <3> QED
        BY <3>1, <3>2, <3>3, <3>5, <3>7 DEF ProverInv, Contains
    <2>2. CASE ~(Contains(position) /\ position.end <= Size(tree))
      BY <1>1, <2>2 DEF StartProof, ProverInv
    <2> QED
      BY <2>1, <2>2
  <1>2. CASE ProveLevel
    <2>1. /\ stage = "proving" /\ node.start < node.last
          /\ proof' = proof \o NeighborHash(Neighbor(node.index), node.last)
          /\ level' = level + 1
          /\ node' = [start |-> node.start \div 2, index |-> node.index \div 2,
                      last |-> node.last \div 2]
          /\ stage' = stage /\ position' = position /\ result' = result
      BY <1>2 DEF ProveLevel
    <2>2. proof' = PathAt(D, position.index, position.start, position.end, level + 1)
      BY <2>1, OneLevelUp
    <2>3. /\ Contains(position) /\ position.end <= LeafCount /\ level \in Nat
          /\ node = [start |-> position.start \div Pow2[level],
                     index |-> position.index \div Pow2[level],
                     last |-> (position.end - 1) \div Pow2[level]]
          /\ result = NoHash
      BY <2>1 DEF ProverInv
    <2>4. /\ position.index \in Nat /\ position.start \in Nat /\ position.end - 1 \in Nat
      BY <2>3, PositionFacts
    <2>5. /\ (position.start \div Pow2[level]) \div 2 = position.start \div Pow2[level + 1]
          /\ (position.index \div Pow2[level]) \div 2 = position.index \div Pow2[level + 1]
          /\ ((position.end - 1) \div Pow2[level]) \div 2
                = (position.end - 1) \div Pow2[level + 1]
      BY <2>3, <2>4, Halving
    <2>6. node' = [start |-> position.start \div Pow2[level + 1],
                   index |-> position.index \div Pow2[level + 1],
                   last |-> (position.end - 1) \div Pow2[level + 1]]
      BY <2>1, <2>3, <2>5
    <2>7. level + 1 \in Nat
      BY <2>3
    <2> QED
      BY <2>1, <2>2, <2>3, <2>6, <2>7 DEF ProverInv, Contains
  <1>3. CASE Deliver
    BY <1>3 DEF Deliver, ProverInv
  <1>4. CASE StartEvaluation
    BY <1>4 DEF StartEvaluation, ProverInv
  <1>5. CASE ReadHash
    BY <1>5 DEF ReadHash, ProverInv
  <1>6. CASE Shift
    BY <1>6 DEF Shift, ProverInv
  <1>7. CASE Finish
    BY <1>7 DEF Finish, ProverInv
  <1>8. CASE UNCHANGED vars
    BY <1>8 DEF vars, ProverInv, Contains
  <1> QED
    BY <1>1, <1>2, <1>3, <1>4, <1>5, <1>6, <1>7, <1>8 DEF Next

\* What SubtreeInclusionProof sends, for every tree and position, is the proof
\* RFC 9162 defines (log.go:126-160).
THEOREM ProofsAreThePaths == Spec => []ProofIsThePath
  <1>1. EvaluationInv /\ ProverInv => ProofIsThePath
    BY ProofIsWhole DEF ProofIsThePath
  <1> QED
    BY <1>1, EvaluationInvInit, EvaluationInvStep, ProverInvInit, ProverInvStep, PTL DEF Spec

-----------------------------------------------------------------------------

\* The entry at the position and its proof were given, and nothing else.
EntryProved ==
    /\ given.hashes = Path(D, position.index, position.start, position.end)
    /\ given.entryHash = HashLeaf(D[position.index + 1])
    /\ ~given.oddBytes

\* While the verifier evaluates, its indices are those of the node it has
\* reached, and its hash is the hash of that node exactly when it was led there
\* by the entry and the siblings of its path.
VerifierInv ==
    /\ stage = "received" => proof = given.hashes /\ IsSequence(given.hashes)
    /\ stage = "reading" =>
          /\ Contains(position)
          /\ \E l : IsReading(given.hashes, given.entryHash, proof, r, fn, sn,
                              position.index, position.start, position.end, l)
    /\ stage = "shifting" =>
          /\ Contains(position)
          /\ \E l : IsShifting(given.hashes, given.entryHash, proof, r, fn, sn,
                               position.index, position.start, position.end, l)
    /\ stage = "done" /\ Contains(position) =>
          (result = MTH(D, position.start, position.end) <=> EntryProved)

LEMMA VerifierInvInit == Init => VerifierInv
  BY DEF Init, VerifierInv

\* No error is the hash of a subtree.
LEMMA ErrorIsNoHash ==
    ASSUME EvaluationInv, Contains(position)
    PROVE  MTH(D, position.start, position.end) # NoHash
  <1>1. position.start \in Nat /\ position.end \in Nat /\ position.start < position.end
    <2>1. /\ position.index \in Nat /\ position.start \in Nat /\ position.end \in Nat
          /\ position.start <= position.index /\ position.index < position.end
      BY PositionFacts
    <2> QED
      BY <2>1
  <1> QED
    BY <1>1, HashesAreHashes

\* What arrives is a sequence of hashes.
LEMMA ReceivedIsSequence ==
    ASSUME EvaluationInv, ProverInv, Deliver
    PROVE  IsSequence(given'.hashes) /\ proof' = given'.hashes
  <1>1. stage = "proving" /\ node.start >= node.last
    BY DEF Deliver
  <1>2. /\ Contains(position) /\ position.end <= LeafCount
        /\ proof = Path(D, position.index, position.start, position.end)
    BY <1>1, ProofIsWhole
  <1>3. PICK hashes \in Deliveries(proof) : given'.hashes = hashes /\ proof' = hashes
    BY DEF Deliver
  <1>4. hashes \in Seq({hashes[k] : k \in DOMAIN hashes})
    BY <1>2, <1>3, DeliveryAssumption DEF EvaluationInv
  <1> QED
    BY <1>3, <1>4 DEF IsSequence

\* An evaluation that ends with an error ends so because the proof was not the
\* entry's.
LEMMA ErrorsAreDue ==
    ASSUME EvaluationInv, Contains(position), ~EntryProved,
           stage' = "done", result' = NoHash, UNCHANGED <<position, given>>
    PROVE  VerifierInv'
  <1>1. MTH(D, position.start, position.end) # NoHash
    BY ErrorIsNoHash
  <1>2. EntryProved' <=> EntryProved
    BY DEF EntryProved
  <1> QED
    BY <1>1, <1>2 DEF VerifierInv

LEMMA VerifierInvStep ==
    EvaluationInv /\ ProverInv /\ VerifierInv /\ [Next]_vars => VerifierInv'
  <1> SUFFICES ASSUME EvaluationInv, ProverInv, VerifierInv, [Next]_vars PROVE VerifierInv'
    OBVIOUS
  <1>1. CASE StartProof
    <2>1. CASE stage' = "proving"
      BY <2>1 DEF VerifierInv
    <2>2. CASE stage' # "proving"
      <3>1. /\ stage = "asked" /\ stage' = "done"
            /\ UNCHANGED <<position, given, result>>
        BY <1>1, <2>2 DEF StartProof
      <3>2. given = Nothing /\ result = NoHash
        BY <3>1 DEF ProverInv
      <3>3. ~EntryProved
        BY <3>2, HashesDiffer DEF EntryProved, Nothing
      <3>4. CASE Contains(position)
        BY <3>1, <3>2, <3>3, <3>4, ErrorsAreDue
      <3>5. CASE ~Contains(position)
        BY <3>1, <3>5 DEF VerifierInv, Contains
      <3> QED
        BY <3>4, <3>5
    <2> QED
      BY <2>1, <2>2
  <1>2. CASE ProveLevel
    BY <1>2 DEF ProveLevel, VerifierInv
  <1>3. CASE Deliver
    <2>1. IsSequence(given'.hashes) /\ proof' = given'.hashes
      BY <1>3, ReceivedIsSequence
    <2> QED
      BY <1>3, <2>1 DEF Deliver, VerifierInv
  <1>4. CASE StartEvaluation
    <2>1. CASE Contains(position)
      <3>1. /\ stage = "received" /\ stage' = "reading"
            /\ fn' = position.index - position.start
            /\ sn' = position.end - position.start - 1
            /\ r' = given.entryHash
            /\ UNCHANGED <<position, proof, given>>
        BY <1>4, <2>1 DEF StartEvaluation
      <3>2. /\ position.index \in Nat /\ position.start \in Nat /\ position.end \in Nat
            /\ position.start <= position.index /\ position.index < position.end
        BY <2>1, PositionFacts
      <3>3. proof = given.hashes /\ IsSequence(given.hashes)
        BY <3>1 DEF VerifierInv
      <3>4. IsReading(given.hashes, given.entryHash, given.hashes, given.entryHash,
                      position.index - position.start, position.end - position.start - 1,
                      position.index, position.start, position.end, 0)
        BY <3>2, <3>3, StartsReading
      <3>5. IsReading(given'.hashes, given'.entryHash, proof', r', fn', sn',
                      position'.index, position'.start, position'.end, 0)
        BY <3>1, <3>3, <3>4
      <3> QED
        BY <2>1, <3>1, <3>5 DEF VerifierInv, Contains
    <2>2. CASE ~Contains(position)
      BY <1>4, <2>2 DEF StartEvaluation, VerifierInv, Contains
    <2> QED
      BY <2>1, <2>2
  <1>5. CASE ReadHash
    <2>1. stage = "reading" /\ proof # <<>> /\ UNCHANGED <<position, given, result>>
      BY <1>5 DEF ReadHash
    <2>2. Contains(position) /\ result = NoHash
      BY <2>1 DEF VerifierInv, ProverInv
    <2>3. PICK l : IsReading(given.hashes, given.entryHash, proof, r, fn, sn,
                             position.index, position.start, position.end, l)
      BY <2>1 DEF VerifierInv
    <2>4. /\ position.index \in Nat /\ position.start \in Nat /\ position.end \in Nat
          /\ position.start <= position.index /\ position.index < position.end
      BY <2>2, PositionFacts
    <2>5. CASE sn = 0 /\ stage' = "done"
      <3>1. ~EntryProved
        BY <2>1, <2>3, <2>4, <2>5, TooLong DEF EntryProved
      <3> QED
        BY <2>1, <2>2, <2>5, <3>1, ErrorsAreDue
    <2>6. CASE /\ sn # 0 /\ OnRight
               /\ proof' = Tail(proof) /\ r' = HashNode(Head(proof), r)
               /\ stage' = "shifting" /\ UNCHANGED <<fn, sn>>
      <3>1. IsShifting(given.hashes, given.entryHash, Tail(proof), HashNode(Head(proof), r),
                       fn, sn, position.index, position.start, position.end, l)
        BY <2>1, <2>3, TakesLeft
      <3>2. IsShifting(given'.hashes, given'.entryHash, proof', r', fn', sn',
                       position'.index, position'.start, position'.end, l)
        BY <2>1, <2>6, <3>1
      <3> QED
        BY <2>1, <2>2, <2>6, <3>2 DEF VerifierInv, Contains
    <2>7. CASE /\ sn # 0 /\ ~OnRight
               /\ proof' = Tail(proof) /\ r' = HashNode(r, Head(proof))
               /\ fn' = fn \div 2 /\ sn' = sn \div 2 /\ UNCHANGED stage
      <3>1. fn % 2 # 1 /\ fn # sn
        BY <2>7 DEF OnRight
      <3>2. IsReading(given.hashes, given.entryHash, Tail(proof), HashNode(r, Head(proof)),
                      fn \div 2, sn \div 2,
                      position.index, position.start, position.end, l + 1)
        BY <2>1, <2>3, <2>4, <3>1, ReadsRight
      <3>3. IsReading(given'.hashes, given'.entryHash, proof', r', fn', sn',
                      position'.index, position'.start, position'.end, l + 1)
        BY <2>1, <2>7, <3>2
      <3> QED
        BY <2>1, <2>2, <2>7, <3>3 DEF VerifierInv, Contains
    <2> QED
      BY <1>5, <2>5, <2>6, <2>7 DEF ReadHash
  <1>6. CASE Shift
    <2>1. /\ stage = "shifting" /\ UNCHANGED <<position, given, proof, r>>
          /\ stage' = IF fn % 2 = 0 THEN "shifting" ELSE "reading"
          /\ fn' = fn \div 2 /\ sn' = sn \div 2
      BY <1>6 DEF Shift
    <2>2. Contains(position) /\ fn \in Nat /\ sn \in Nat /\ OnRight
      BY <2>1 DEF VerifierInv, EvaluationInv, PathIsInSubtree
    <2>3. PICK l : IsShifting(given.hashes, given.entryHash, proof, r, fn, sn,
                              position.index, position.start, position.end, l)
      BY <2>1 DEF VerifierInv
    <2>4. /\ position.index \in Nat /\ position.start \in Nat /\ position.end \in Nat
          /\ position.start <= position.index /\ position.index < position.end
      BY <2>2, PositionFacts
    <2>5. CASE fn % 2 = 0
      <3>1. fn = sn
        BY <2>2, <2>5 DEF OnRight
      <3>2. IsShifting(given.hashes, given.entryHash, proof, r, fn \div 2, sn \div 2,
                       position.index, position.start, position.end, l + 1)
        BY <2>3, <2>4, <2>5, <3>1, ShiftsOn
      <3>3. IsShifting(given'.hashes, given'.entryHash, proof', r', fn', sn',
                       position'.index, position'.start, position'.end, l + 1)
        BY <2>1, <3>2
      <3> QED
        BY <2>1, <2>2, <2>5, <3>3 DEF VerifierInv, Contains
    <2>6. CASE fn % 2 # 0
      <3>1. fn % 2 = 1
        BY <2>2, <2>6
      <3>2. IsReading(given.hashes, given.entryHash, proof, r, fn \div 2, sn \div 2,
                      position.index, position.start, position.end, l + 1)
        BY <2>3, <2>4, <3>1, ShiftsLast
      <3>3. IsReading(given'.hashes, given'.entryHash, proof', r', fn', sn',
                      position'.index, position'.start, position'.end, l + 1)
        BY <2>1, <3>2
      <3> QED
        BY <2>1, <2>2, <2>6, <3>3 DEF VerifierInv, Contains
    <2> QED
      BY <2>5, <2>6
  <1>7. CASE Finish
    <2>1. /\ stage = "reading" /\ proof = <<>> /\ stage' = "done"
          /\ UNCHANGED <<position, given>>
          /\ result' = IF given.oddBytes \/ sn # 0 THEN NoHash ELSE r
      BY <1>7 DEF Finish
    <2>2. Contains(position)
      BY <2>1 DEF VerifierInv
    <2>3. PICK l : IsReading(given.hashes, given.entryHash, proof, r, fn, sn,
                             position.index, position.start, position.end, l)
      BY <2>1 DEF VerifierInv
    <2>4. /\ position.index \in Nat /\ position.start \in Nat /\ position.end \in Nat
          /\ position.start <= position.index /\ position.index < position.end
      BY <2>2, PositionFacts
    <2>5. CASE given.oddBytes
      <3>1. ~EntryProved /\ result' = NoHash
        BY <2>1, <2>5 DEF EntryProved
      <3> QED
        BY <2>1, <2>2, <3>1, ErrorsAreDue
    <2>6. CASE ~given.oddBytes /\ sn # 0
      <3>1. ~EntryProved
        BY <2>1, <2>3, <2>4, <2>6, TooShort DEF EntryProved
      <3>2. result' = NoHash
        BY <2>1, <2>6
      <3> QED
        BY <2>1, <2>2, <3>1, <3>2, ErrorsAreDue
    <2>7. CASE ~given.oddBytes /\ sn = 0
      <3>1. r = MTH(D, position.start, position.end) <=>
               /\ given.hashes = Path(D, position.index, position.start, position.end)
               /\ given.entryHash = HashLeaf(D[position.index + 1])
        BY <2>1, <2>3, <2>4, <2>7, JustLong
      <3>2. result' = r
        BY <2>1, <2>7
      <3>3. result' = MTH(D, position'.start, position'.end) <=> EntryProved'
        BY <2>1, <2>7, <3>1, <3>2 DEF EntryProved
      <3> QED
        BY <2>1, <3>3 DEF VerifierInv
    <2> QED
      BY <2>5, <2>6, <2>7
  <1>8. CASE UNCHANGED vars
    BY <1>8 DEF vars, VerifierInv, Contains, EntryProved
  <1> QED
    BY <1>1, <1>2, <1>3, <1>4, <1>5, <1>6, <1>7, <1>8 DEF Next

\* EvaluateSubtreeInclusionProof returns the hash of a subtree of the log for
\* the entry that is there with the very proof the log makes, and for no other
\* entry and no other bytes, whatever is delivered (log.go:257-292).
THEOREM ProofsProveTheirEntry == Spec => []OnlyTheProofConvinces
  <1>1. VerifierInv => OnlyTheProofConvinces
    BY DEF VerifierInv, EntryProved, OnlyTheProofConvinces
  <1> QED
    BY <1>1, EvaluationInvInit, EvaluationInvStep, ProverInvInit, ProverInvStep,
       VerifierInvInit, VerifierInvStep, PTL DEF Spec

\* It does return that hash for the log's own proof, whatever the entry, the
\* subtree and the size of the log (log.go:257-292).
THEOREM IntactProofsConvince == Spec => []IntactProofConvinces
  <1>1. VerifierInv => IntactProofConvinces
    BY DEF VerifierInv, EntryProved, IntactProofConvinces
  <1> QED
    BY <1>1, EvaluationInvInit, EvaluationInvStep, ProverInvInit, ProverInvStep,
       VerifierInvInit, VerifierInvStep, PTL DEF Spec

-----------------------------------------------------------------------------

\* The consistency of a subtree, with last entry x, and a prefix of the log.
IsAsked(s, x, n, k) ==
    /\ s \in Word /\ n \in Word /\ n <= LeafCount
    /\ x \in Nat /\ s <= x /\ x < n
    /\ k \in 0 .. W /\ IsAligned(s, x + 1, k)

\* The node on the subtree's right edge, its hash, and the hash beside it.
EdgeHash(x, n, l) == HashAt(D, x, 0, n, l)
EdgeSibling(x, n, l) == Sibling(D, x, 0, n, l)

\* Where the node begins, unless the subtree does not reach that far.
Front(s, x, l) == IF s < Lo(x, 0, l) THEN Lo(x, 0, l) ELSE s

\* The node has no sibling.
IsQuiet(x, n, l) == At(x, 0, l) % 2 = 0 /\ At(x, 0, l) = At(n - 1, 0, l)

\* What the numbers of the question are.
LEMMA AskedFacts ==
    ASSUME NEW s, NEW x, NEW n, NEW k, IsAsked(s, x, n, k)
    PROVE  /\ s \in Nat /\ x \in Nat /\ n \in Nat /\ n - 1 \in Nat /\ k \in Nat /\ W \in Nat
           /\ x + 1 \in Word /\ x + 1 \in Nat /\ (x + 1) - 1 = x
           /\ s <= x /\ x < n /\ x <= n - 1 /\ n - 1 < n /\ 0 <= x /\ 0 <= n - 1
           /\ s < x + 1 /\ x + 1 <= n /\ x + 1 <= s + Pow2[k] /\ s % Pow2[k] = 0
           /\ n < Pow2[W] /\ k <= W /\ n <= LeafCount /\ LeafCount \in Nat
  <1>1. /\ s \in Nat /\ n \in Nat /\ n < Pow2[W] /\ x \in Nat /\ s <= x /\ x < n
        /\ Pow2[W] \in Nat /\ W \in Nat /\ k \in 0 .. W
        /\ n <= LeafCount /\ LeafCount \in Nat
    BY WordFacts, LeafCountAssumption DEF IsAsked
  <1>2. x + 1 <= s + Pow2[k] /\ s % Pow2[k] = 0
    BY DEF IsAsked, IsAligned
  <1>3. x + 1 \in Word
    BY <1>1, WordFacts
  <1> QED
    BY <1>1, <1>2, <1>3

\* The nodes on the edge, and where the subtree begins among those of a level.
LEMMA EdgeFacts ==
    ASSUME NEW s, NEW x, NEW n, NEW k, IsAsked(s, x, n, k), NEW l \in Nat,
           NEW P, P = Pow2[l], NEW lo, lo = Lo(x, 0, l), NEW hi, hi = Hi(x, 0, n, l),
           NEW f, f = At(s, 0, l), NEW a, a = At(x, 0, l), NEW t, t = At(n - 1, 0, l)
    PROVE  /\ P \in Nat \ {0} /\ lo \in Nat /\ hi \in Nat
           /\ f \in Nat /\ a \in Nat /\ t \in Nat
           /\ lo = P * a /\ lo % P = 0
           /\ lo <= x /\ x < hi /\ hi <= n /\ hi <= lo + P /\ x < lo + P
           /\ a <= t /\ (a < t => lo + P < n /\ hi = lo + P) /\ (a = t => n <= lo + P /\ hi = n)
           /\ f <= a /\ (f < a <=> s < lo) /\ (f = a <=> lo <= s)
           /\ f < a => l < k /\ s <= lo - P
           /\ l <= k => s = P * f
  <1>1. /\ s \in Nat /\ x \in Nat /\ n \in Nat /\ n - 1 \in Nat /\ k \in Nat
        /\ s <= x /\ x < n /\ x <= n - 1 /\ n - 1 < n /\ 0 <= x /\ 0 <= n - 1
        /\ x + 1 <= s + Pow2[k] /\ s % Pow2[k] = 0
    BY AskedFacts
  <1>2. P \in Nat \ {0}
    BY Pow2Type
  <1>3. /\ lo \in Nat /\ hi \in Nat /\ lo <= x /\ x < hi /\ hi <= n /\ hi <= lo + P /\ x < lo + P
        /\ a \in Nat /\ t \in Nat /\ a <= t
        /\ (a < t => lo + P < n) /\ (a = t => n <= lo + P)
    <2>1. 0 \in Nat /\ 0 <= x
      BY <1>1
    <2>2. /\ At(x, 0, l) \in Nat /\ At(n - 1, 0, l) \in Nat
          /\ At(x, 0, l) <= At(n - 1, 0, l)
          /\ Lo(x, 0, l) \in Nat /\ Hi(x, 0, n, l) \in Nat
          /\ Lo(x, 0, l) <= x
          /\ x < Hi(x, 0, n, l) /\ Hi(x, 0, n, l) <= n
          /\ Hi(x, 0, n, l) <= Lo(x, 0, l) + Pow2[l]
          /\ x < Lo(x, 0, l) + Pow2[l]
          /\ At(x, 0, l) < At(n - 1, 0, l) => Lo(x, 0, l) + Pow2[l] < n
          /\ At(x, 0, l) = At(n - 1, 0, l) => n <= Lo(x, 0, l) + Pow2[l]
      BY <1>1, <2>1, NodeFacts, Zenon
    <2> QED
      BY <2>2, Zenon
  <1>4. lo = P * a
    BY <1>2, <1>3 DEF Lo
  <1>14. hi = IF lo + P < n THEN lo + P ELSE n
    BY Zenon DEF Hi
  <1>5. f = s \div P /\ s % P \in Nat /\ s % P < P /\ s = P * f + (s % P) /\ f \in Nat
    <2>1. s - 0 = s
      BY <1>1
    <2>2. f = s \div P
      BY <2>1, Zenon DEF At
    <2>3. /\ s \div P \in Nat /\ s % P \in Nat /\ s % P < P
          /\ s = P * (s \div P) + (s % P)
      BY <1>1, <1>2, DivMod
    <2> QED
      BY <2>2, <2>3, Zenon
  <1>15. /\ P * f \in Nat /\ P * a \in Nat /\ (f < a => P * f + P <= P * a)
         /\ (a < f => P * a + P <= P * f)
    BY <1>2, <1>3, <1>5, ProductsGrow
  <1>6. f < a => s < lo /\ P * f <= lo - P
    <2> SUFFICES ASSUME f < a PROVE s < lo /\ P * f <= lo - P
      OBVIOUS
    <2> DEFINE b == P * f
    <2>1. b \in Nat /\ b + P <= lo /\ s = b + (s % P) /\ s % P \in Nat /\ s % P < P
      BY <1>4, <1>5, <1>15
    <2> HIDE DEF b
    <2>2. s < lo /\ b <= lo - P
      BY <1>1, <1>2, <1>3, <2>1
    <2> QED
      BY <2>2 DEF b
  <1>7. f = a => lo <= s
    BY <1>3, <1>4, <1>5, <1>15
  <1>8. f <= a
    BY <1>1, <1>2, <1>3, <1>4, <1>5, <1>15
  <1>9. lo % P = 0
    BY <1>2, <1>3, <1>4, Multiples
  <1>10. l <= k => s % P = 0
    BY <1>1, MultiplesOfSmaller
  <1>11. l <= k => s = P * f
    <2>1. P * f \in Nat
      BY <1>15
    <2> QED
      BY <1>1, <1>5, <1>10, <2>1
  <1>12. ASSUME k <= l PROVE f = a
    <2>1. s \div Pow2[l] = x \div Pow2[l]
      BY <1>1, <1>12, AlignedAgree
    <2>2. x - 0 = x
      BY <1>1
    <2>3. a = x \div Pow2[l]
      BY <2>2, Zenon DEF At
    <2> QED
      BY <1>5, <2>1, <2>3, Zenon
  <1>13. f < a => l < k /\ s <= lo - P
    BY <1>1, <1>3, <1>5, <1>6, <1>11, <1>12
  <1>16. (a < t => hi = lo + P) /\ (a = t => hi = n)
    BY <1>1, <1>2, <1>3, <1>14
  <1>17. (f < a <=> s < lo) /\ (f = a <=> lo <= s)
    BY <1>1, <1>3, <1>5, <1>6, <1>7, <1>8
  <1> QED
    BY <1>2, <1>3, <1>4, <1>5, <1>8, <1>9, <1>11, <1>13, <1>16, <1>17, Zenon

\* From a level to the next, along the right edge of the subtree.
LEMMA EdgeAbove ==
    ASSUME NEW s, NEW x, NEW n, NEW k, IsAsked(s, x, n, k), NEW l \in Nat,
           NEW P, P = Pow2[l], NEW lo, lo = Lo(x, 0, l), NEW hi, hi = Hi(x, 0, n, l),
           NEW up, up = Hi(x, 0, n, l + 1), NEW a, a = At(x, 0, l), NEW t, t = At(n - 1, 0, l)
    PROVE  /\ \/ IsQuiet(x, n, l)
              \/ ~IsQuiet(x, n, l) /\ a % 2 = 1
              \/ ~IsQuiet(x, n, l) /\ a % 2 = 0 /\ a < t
           /\ IsQuiet(x, n, l) =>
                 Lo(x, 0, l + 1) = lo /\ up = hi /\ EdgeHash(x, n, l + 1) = EdgeHash(x, n, l)
           /\ a % 2 = 1 =>
                 /\ Lo(x, 0, l + 1) = lo - P /\ up = hi /\ IsSplitAt(lo - P, lo, hi)
                 /\ EdgeSibling(x, n, l) = MTH(D, lo - P, lo)
                 /\ EdgeHash(x, n, l + 1) = HashNode(EdgeSibling(x, n, l), EdgeHash(x, n, l))
           /\ a % 2 = 0 /\ a < t =>
                 /\ Lo(x, 0, l + 1) = lo /\ hi = lo + P /\ IsSplitAt(lo, hi, up)
                 /\ up <= lo + 2 * P
                 /\ EdgeSibling(x, n, l) = MTH(D, hi, up)
                 /\ EdgeHash(x, n, l + 1) = HashNode(EdgeHash(x, n, l), EdgeSibling(x, n, l))
  <1>1. x \in Nat /\ n \in Nat /\ 0 \in Nat /\ 0 <= x /\ x < n
    BY AskedFacts
  <1>2. a \in Nat /\ t \in Nat /\ a <= t
    BY EdgeFacts
  <1>3. /\ a % 2 = 1 => Lo(x, 0, l + 1) = lo - P /\ up = hi /\ IsSplitAt(lo - P, lo, hi)
        /\ a % 2 = 0 /\ a < t =>
              Lo(x, 0, l + 1) = lo /\ hi = lo + P /\ IsSplitAt(lo, hi, up) /\ up <= lo + 2 * P
        /\ a % 2 = 0 /\ a = t => Lo(x, 0, l + 1) = lo /\ up = hi
    BY <1>1, NodeAbove
  <1>4. /\ a % 2 = 1 =>
              EdgeHash(x, n, l + 1) = HashNode(EdgeSibling(x, n, l), EdgeHash(x, n, l))
        /\ a % 2 = 0 /\ a < t =>
              EdgeHash(x, n, l + 1) = HashNode(EdgeHash(x, n, l), EdgeSibling(x, n, l))
        /\ a % 2 = 0 /\ a = t => EdgeHash(x, n, l + 1) = EdgeHash(x, n, l)
    <2>1. /\ At(x, 0, l) % 2 = 1 =>
                HashAt(D, x, 0, n, l + 1) = HashNode(Sibling(D, x, 0, n, l), HashAt(D, x, 0, n, l))
          /\ At(x, 0, l) % 2 = 0 /\ At(x, 0, l) < At(n - 1, 0, l) =>
                HashAt(D, x, 0, n, l + 1) = HashNode(HashAt(D, x, 0, n, l), Sibling(D, x, 0, n, l))
          /\ At(x, 0, l) % 2 = 0 /\ At(x, 0, l) = At(n - 1, 0, l) =>
                HashAt(D, x, 0, n, l + 1) = HashAt(D, x, 0, n, l)
      BY <1>1, NodeStep
    <2> QED
      BY <2>1, Zenon DEF EdgeHash, EdgeSibling
  <1>5. EdgeSibling(x, n, l) = IF a % 2 = 1 THEN MTH(D, lo - P, lo) ELSE MTH(D, lo + P, up)
    BY Zenon DEF EdgeSibling, Sibling
  <1>6. IsQuiet(x, n, l) <=> a % 2 = 0 /\ a = t
    BY Zenon DEF IsQuiet
  <1>7. (a % 2 = 0 \/ a % 2 = 1) /\ ~(a % 2 = 0 /\ a % 2 = 1) /\ (a < t \/ a = t)
    BY <1>2
  <1>8. a % 2 = 0 /\ a < t => EdgeSibling(x, n, l) = MTH(D, hi, up)
    BY <1>3, <1>5, <1>7
  <1>9. a % 2 = 1 => EdgeSibling(x, n, l) = MTH(D, lo - P, lo)
    BY <1>5
  <1> QED
    BY <1>3, <1>4, <1>6, <1>7, <1>8, <1>9, Zenon

\* The part of the subtree below the edge's node grows by the hash on the left
\* when it does not yet begin where the subtree does.
LEMMA FrontAbove ==
    ASSUME NEW s, NEW x, NEW n, NEW k, IsAsked(s, x, n, k), NEW l \in Nat,
           NEW f, f = At(s, 0, l), NEW a, a = At(x, 0, l)
    PROVE  /\ a % 2 = 1 /\ f < a =>
                 MTH(D, Front(s, x, l + 1), x + 1)
                    = HashNode(EdgeSibling(x, n, l), MTH(D, Front(s, x, l), x + 1))
           /\ a % 2 = 1 /\ f = a => Front(s, x, l + 1) = Front(s, x, l)
           /\ a % 2 = 0 /\ ~(a % 2 = 1) => Front(s, x, l + 1) = Front(s, x, l)
  <1> DEFINE P == Pow2[l]
             lo == Lo(x, 0, l)
             hi == Hi(x, 0, n, l)
             up == Hi(x, 0, n, l + 1)
             t == At(n - 1, 0, l)
  <1>1. /\ s \in Nat /\ x \in Nat /\ n \in Nat /\ s <= x
    BY AskedFacts
  <1>2. /\ P \in Nat \ {0} /\ lo \in Nat /\ hi \in Nat /\ lo <= x /\ x < hi /\ x < lo + P
        /\ (f < a <=> s < lo) /\ (f = a <=> lo <= s) /\ (f < a => s <= lo - P)
        /\ a \in Nat /\ t \in Nat /\ a <= t
    BY EdgeFacts
  <1>3. /\ a % 2 = 1 =>
              /\ Lo(x, 0, l + 1) = lo - P /\ IsSplitAt(lo - P, lo, hi)
              /\ EdgeSibling(x, n, l) = MTH(D, lo - P, lo)
        /\ a % 2 = 0 => Lo(x, 0, l + 1) = lo
    <2>1. (a % 2 = 0 => IsQuiet(x, n, l) \/ a < t)
      BY <1>2 DEF IsQuiet
    <2>2. a % 2 = 1 =>
             /\ Lo(x, 0, l + 1) = lo - P /\ IsSplitAt(lo - P, lo, hi)
             /\ EdgeSibling(x, n, l) = MTH(D, lo - P, lo)
      BY EdgeAbove
    <2>3. IsQuiet(x, n, l) => Lo(x, 0, l + 1) = lo
      BY EdgeAbove
    <2>4. a % 2 = 0 /\ a < t => Lo(x, 0, l + 1) = lo
      BY EdgeAbove
    <2> QED
      BY <2>1, <2>2, <2>3, <2>4
  <1> HIDE DEF P, lo, hi, up, t
  <1>4. ASSUME a % 2 = 1, f < a
        PROVE  MTH(D, Front(s, x, l + 1), x + 1)
                  = HashNode(EdgeSibling(x, n, l), MTH(D, Front(s, x, l), x + 1))
    <2>1. Front(s, x, l) = lo
      BY <1>2, <1>4 DEF Front, lo
    <2>2. Front(s, x, l + 1) = lo - P
      <3>1. Lo(x, 0, l + 1) = lo - P /\ s <= lo - P
        BY <1>2, <1>3, <1>4
      <3> QED
        BY <1>1, <1>2, <3>1 DEF Front
    <2>3. IsSplitAt(lo - P, lo, x + 1)
      <3>1. PICK i \in Nat : lo = (lo - P) + Pow2[i] /\ hi <= (lo - P) + Pow2[i + 1]
        BY <1>3, <1>4 DEF IsSplitAt
      <3>2. Pow2[i + 1] \in Nat /\ lo - P \in Nat
        BY <1>3, <1>4, Pow2Type DEF IsSplitAt
      <3>3. x + 1 \in Nat /\ lo < x + 1 /\ x + 1 <= (lo - P) + Pow2[i + 1]
        BY <1>1, <1>2, <3>1, <3>2
      <3> QED
        BY <1>2, <3>1, <3>2, <3>3 DEF IsSplitAt
    <2>4. MTH(D, lo - P, x + 1) = HashNode(MTH(D, lo - P, lo), MTH(D, lo, x + 1))
      BY <2>3, HashOfSplit
    <2> QED
      BY <1>3, <1>4, <2>1, <2>2, <2>4, Zenon
  <1>5. ASSUME a % 2 = 1, f = a PROVE Front(s, x, l + 1) = Front(s, x, l)
    <2>1. lo <= s /\ Lo(x, 0, l + 1) = lo - P
      BY <1>2, <1>3, <1>5
    <2> QED
      BY <1>1, <1>2, <2>1 DEF Front, lo
  <1>6. ASSUME a % 2 = 0 PROVE Front(s, x, l + 1) = Front(s, x, l)
    BY <1>3, <1>6 DEF Front, lo
  <1> QED
    BY <1>4, <1>5, <1>6

-----------------------------------------------------------------------------

\* The verifier reads a sibling, at the level where it is.
LEMMA SiblingRead ==
    ASSUME NEW s, NEW x, NEW n, NEW k, IsAsked(s, x, n, k), NEW l \in 0 .. W,
           NEW j \in Nat, j <= l, \A i \in Nat : j <= i /\ i < l => IsQuiet(x, n, i),
           ~IsQuiet(x, n, l), At(n - 1, 0, j) # 0,
           NEW v, NEW p, NEW q, NEW c,
           IsState(v, At(s, 0, j), At(x, 0, j), At(n - 1, 0, j), TRUE, p, q)
    PROVE  /\ At(x, 0, l) % 2 = 1 =>
                 IsState(Absorb(v, c), At(s, 0, l + 1), At(x, 0, l + 1), At(n - 1, 0, l + 1), TRUE,
                         IF At(s, 0, j) < At(x, 0, j) THEN HashNode(c, p) ELSE p, HashNode(c, q))
           /\ At(x, 0, l) % 2 = 0 =>
                 IsState(Absorb(v, c), At(s, 0, l + 1), At(x, 0, l + 1), At(n - 1, 0, l + 1), TRUE,
                         p, HashNode(q, c))
  <1> DEFINE f == At(s, 0, j)
             a == At(x, 0, j)
             t == At(n - 1, 0, j)
             m == l - j
  <1>1. s \in Nat /\ x \in Nat /\ n - 1 \in Nat /\ W \in Nat /\ l \in Nat
    BY AskedFacts
  <1>2. m \in 0 .. W /\ m \in Nat /\ j + m = l
    BY <1>1
  <1>3. f \in Nat /\ a \in Nat /\ t \in Nat
    BY <1>1, AtUp
  <1>4. \A i \in Nat : /\ f \div Pow2[i] = At(s, 0, j + i)
                       /\ a \div Pow2[i] = At(x, 0, j + i)
                       /\ t \div Pow2[i] = At(n - 1, 0, j + i)
    <2>1. \A i \in Nat : f \div Pow2[i] = At(s, 0, j + i)
      BY <1>1, AtUp
    <2>2. \A i \in Nat : a \div Pow2[i] = At(x, 0, j + i)
      BY <1>1, AtUp
    <2>3. \A i \in Nat : t \div Pow2[i] = At(n - 1, 0, j + i)
      BY <1>1, AtUp
    <2> QED
      BY <2>1, <2>2, <2>3, Zenon
  <1>5. /\ f \div Pow2[m] = At(s, 0, l) /\ a \div Pow2[m] = At(x, 0, l)
        /\ t \div Pow2[m] = At(n - 1, 0, l)
    <2> HIDE DEF f, a, t, m
    <2> QED
      BY <1>2, <1>4, Zenon
  <1>6. /\ At(s, 0, l + 1) = At(s, 0, l) \div 2 /\ At(x, 0, l + 1) = At(x, 0, l) \div 2
        /\ At(n - 1, 0, l + 1) = At(n - 1, 0, l) \div 2
    BY <1>1, AtUp
  <1>7. ASSUME At(x, 0, l) % 2 = 1
        PROVE  IsState(Absorb(v, c), At(s, 0, l + 1), At(x, 0, l + 1), At(n - 1, 0, l + 1), TRUE,
                       IF f < a THEN HashNode(c, p) ELSE p, HashNode(c, q))
    <2>1. a % 2 = 1 \/ a = t
      <3>1. CASE j = l
        BY <1>7, <3>1
      <3>2. CASE j # l
        <4>1. IsQuiet(x, n, j)
          BY <1>1, <3>2
        <4> QED
          BY <4>1 DEF IsQuiet
      <3> QED
        BY <3>1, <3>2
    <2>2. (a \div Pow2[m]) % 2 = 1
      BY <1>5, <1>7
    <2>3. ASSUME NEW i \in 0 .. W, (a \div Pow2[i]) % 2 = 1 PROVE m <= i
      <3>1. i \in Nat /\ At(x, 0, j + i) % 2 = 1
        BY <1>1, <1>4, <2>3
      <3>2. ASSUME i < m PROVE FALSE
        <4>1. j + i \in Nat /\ j <= j + i /\ j + i < l
          BY <1>1, <3>1, <3>2
        <4>2. At(x, 0, j + i) % 2 = 0
          BY <4>1 DEF IsQuiet
        <4> QED
          BY <3>1, <4>2
      <3> QED
        BY <1>2, <3>1, <3>2
    <2> HIDE DEF f, a, t, m
    <2>4. IsState(v, f, a, t, TRUE, p, q) /\ t # 0
      BY DEF f, a, t
    <2>5. IsState(Absorb(v, c), (f \div Pow2[m]) \div 2, (a \div Pow2[m]) \div 2,
                  (t \div Pow2[m]) \div 2, TRUE,
                  IF f < a THEN HashNode(c, p) ELSE p, HashNode(c, q))
      BY <1>2, <1>3, <2>1, <2>2, <2>3, <2>4, AbsorbLeft
    <2> QED
      BY <1>5, <1>6, <2>5, Zenon
  <1>8. ASSUME At(x, 0, l) % 2 = 0
        PROVE  IsState(Absorb(v, c), At(s, 0, l + 1), At(x, 0, l + 1), At(n - 1, 0, l + 1), TRUE,
                       p, HashNode(q, c))
    <2>1. At(x, 0, l) # At(n - 1, 0, l)
      BY <1>8 DEF IsQuiet
    <2>2. j = l
      <3> SUFFICES ASSUME j # l PROVE FALSE
        OBVIOUS
      <3> DEFINE i == l - 1
      <3>1. i \in Nat /\ j <= i /\ i < l /\ i + 1 = l
        BY <1>1
      <3> HIDE DEF i
      <3>2. At(x, 0, i) = At(n - 1, 0, i)
        BY <3>1 DEF IsQuiet
      <3>3. At(x, 0, i + 1) = At(x, 0, i) \div 2 /\ At(n - 1, 0, i + 1) = At(n - 1, 0, i) \div 2
        BY <1>1, <3>1, AtUp
      <3> QED
        BY <2>1, <3>1, <3>2, <3>3
    <2>3. a % 2 = 0 /\ a # t
      BY <1>8, <2>1, <2>2
    <2> HIDE DEF f, a, t
    <2>4. IsState(v, f, a, t, TRUE, p, q) /\ t # 0
      BY DEF f, a, t
    <2>5. IsState(Absorb(v, c), f \div 2, a \div 2, t \div 2, TRUE, p, HashNode(q, c))
      BY <1>3, <2>3, <2>4, AbsorbRight
    <2>6. f = At(s, 0, l) /\ a = At(x, 0, l) /\ t = At(n - 1, 0, l)
      BY <2>2 DEF f, a, t
    <2> QED
      BY <1>6, <2>5, <2>6, Zenon
  <1> QED
    BY <1>7, <1>8

-----------------------------------------------------------------------------

\* The hashes a verification has computed at a level.  The verifier who knows
\* the hash of the edge's node keeps the subtree's hash, and otherwise makes it.
HashesAre(p, q, s, x, n, h, known, l) ==
    /\ known => p = h /\ (q = EdgeHash(x, n, l) <=> h = MTH(D, s, x + 1))
    /\ ~known => p = MTH(D, Front(s, x, l), x + 1) /\ q = EdgeHash(x, n, l)

\* It has read the siblings below a level, and has not shifted past the last
\* levels without one.
IsVerified(v, s, x, n, h, known, l) ==
    \E j, p, q :
        /\ j \in Nat /\ j <= l /\ \A i \in Nat : j <= i /\ i < l => IsQuiet(x, n, i)
        /\ IsState(v, At(s, 0, j), At(x, 0, j), At(n - 1, 0, j), TRUE, p, q)
        /\ At(n - 1, 0, j) = 0 <=> At(n - 1, 0, l) = 0
        /\ At(s, 0, j) < At(x, 0, j) <=> At(s, 0, l) < At(x, 0, l)
        /\ HashesAre(p, q, s, x, n, h, known, l)

\* A level without a sibling changes nothing, and ...
LEMMA QuietVerified ==
    ASSUME NEW s, NEW x, NEW n, NEW k, IsAsked(s, x, n, k), NEW l \in Nat, NEW v, NEW h,
           NEW known, IsVerified(v, s, x, n, h, known, l), IsQuiet(x, n, l)
    PROVE  IsVerified(v, s, x, n, h, known, l + 1)
  <1>1. PICK j, p, q :
          /\ j \in Nat /\ j <= l /\ \A i \in Nat : j <= i /\ i < l => IsQuiet(x, n, i)
          /\ IsState(v, At(s, 0, j), At(x, 0, j), At(n - 1, 0, j), TRUE, p, q)
          /\ At(n - 1, 0, j) = 0 <=> At(n - 1, 0, l) = 0
          /\ At(s, 0, j) < At(x, 0, j) <=> At(s, 0, l) < At(x, 0, l)
          /\ HashesAre(p, q, s, x, n, h, known, l)
    BY DEF IsVerified
  <1>2. s \in Nat /\ x \in Nat /\ n - 1 \in Nat
    BY AskedFacts
  <1>3. j <= l + 1 /\ \A i \in Nat : j <= i /\ i < l + 1 => IsQuiet(x, n, i)
    <2>1. \A i \in Nat : i < l + 1 => i < l \/ i = l
      OBVIOUS
    <2> QED
      BY <1>1, <2>1
  <1>4. /\ At(n - 1, 0, l) = 0 <=> At(n - 1, 0, l + 1) = 0
        /\ At(s, 0, l) < At(x, 0, l) <=> At(s, 0, l + 1) < At(x, 0, l + 1)
    <2> DEFINE f == At(s, 0, l)
               a == At(x, 0, l)
               t == At(n - 1, 0, l)
    <2>1. f \in Nat /\ a \in Nat /\ t \in Nat /\ f <= a
      BY EdgeFacts
    <2>2. a % 2 = 0 /\ a = t
      BY DEF IsQuiet
    <2>3. /\ At(s, 0, l + 1) = f \div 2 /\ At(x, 0, l + 1) = a \div 2
          /\ At(n - 1, 0, l + 1) = t \div 2
      BY <1>2, AtUp
    <2> HIDE DEF f, a, t
    <2>4. (t = 0 <=> t \div 2 = 0) /\ (f < a <=> f \div 2 < a \div 2)
      BY <2>1, <2>2
    <2> QED
      BY <2>3, <2>4 DEF f, a, t
  <1>5. EdgeHash(x, n, l + 1) = EdgeHash(x, n, l) /\ Front(s, x, l + 1) = Front(s, x, l)
    <2>1. Lo(x, 0, l + 1) = Lo(x, 0, l) /\ EdgeHash(x, n, l + 1) = EdgeHash(x, n, l)
      BY EdgeAbove
    <2> QED
      BY <2>1 DEF Front
  <1>6. HashesAre(p, q, s, x, n, h, known, l + 1)
    BY <1>1, <1>5, Zenon DEF HashesAre
  <1>7. /\ At(n - 1, 0, j) = 0 <=> At(n - 1, 0, l + 1) = 0
        /\ At(s, 0, j) < At(x, 0, j) <=> At(s, 0, l + 1) < At(x, 0, l + 1)
    BY <1>1, <1>4
  <1> QED
    BY <1>1, <1>3, <1>6, <1>7, Zenon DEF IsVerified

\* ... one with a sibling is read.
LEMMA SiblingVerified ==
    ASSUME NEW s, NEW x, NEW n, NEW k, IsAsked(s, x, n, k), NEW l \in 0 .. W, NEW v, NEW h,
           NEW known, IsVerified(v, s, x, n, h, known, l), ~IsQuiet(x, n, l),
           known => At(s, 0, l) = At(x, 0, l)
    PROVE  IsVerified(Absorb(v, EdgeSibling(x, n, l)), s, x, n, h, known, l + 1)
  <1> DEFINE c == EdgeSibling(x, n, l)
             f == At(s, 0, l)
             a == At(x, 0, l)
             t == At(n - 1, 0, l)
  <1>1. PICK j, p, q :
          /\ j \in Nat /\ j <= l /\ \A i \in Nat : j <= i /\ i < l => IsQuiet(x, n, i)
          /\ IsState(v, At(s, 0, j), At(x, 0, j), At(n - 1, 0, j), TRUE, p, q)
          /\ At(n - 1, 0, j) = 0 <=> At(n - 1, 0, l) = 0
          /\ At(s, 0, j) < At(x, 0, j) <=> At(s, 0, l) < At(x, 0, l)
          /\ HashesAre(p, q, s, x, n, h, known, l)
    BY DEF IsVerified
  <1>2. l \in Nat /\ l + 1 \in Nat
    BY AskedFacts
  <1>3. f \in Nat /\ a \in Nat /\ t \in Nat /\ f <= a /\ a <= t
    BY <1>2, EdgeFacts
  <1>4. At(n - 1, 0, j) # 0
    <2>1. t # 0
      BY <1>3 DEF IsQuiet
    <2> QED
      BY <1>1, <2>1
  <1> DEFINE first == IF At(s, 0, j) < At(x, 0, j) THEN HashNode(c, p) ELSE p
  <1>5. first = IF f < a THEN HashNode(c, p) ELSE p
    BY <1>1
  <1>6. /\ a % 2 = 1 =>
              IsState(Absorb(v, c), At(s, 0, l + 1), At(x, 0, l + 1), At(n - 1, 0, l + 1), TRUE,
                      first, HashNode(c, q))
        /\ a % 2 = 0 =>
              IsState(Absorb(v, c), At(s, 0, l + 1), At(x, 0, l + 1), At(n - 1, 0, l + 1), TRUE,
                      p, HashNode(q, c))
    BY <1>1, <1>4, SiblingRead
  <1>7. /\ a % 2 = 1 => EdgeHash(x, n, l + 1) = HashNode(c, EdgeHash(x, n, l))
        /\ a % 2 = 0 => EdgeHash(x, n, l + 1) = HashNode(EdgeHash(x, n, l), c)
    <2>1. /\ a % 2 = 1 => EdgeHash(x, n, l + 1) = HashNode(c, EdgeHash(x, n, l))
          /\ a % 2 = 0 /\ a < t => EdgeHash(x, n, l + 1) = HashNode(EdgeHash(x, n, l), c)
      BY <1>2, EdgeAbove
    <2>2. a % 2 = 0 => a < t
      BY <1>3 DEF IsQuiet
    <2> QED
      BY <2>1, <2>2
  <1>8. /\ a % 2 = 1 /\ f < a =>
              MTH(D, Front(s, x, l + 1), x + 1) = HashNode(c, MTH(D, Front(s, x, l), x + 1))
        /\ a % 2 = 1 /\ f = a => Front(s, x, l + 1) = Front(s, x, l)
        /\ a % 2 = 0 /\ ~(a % 2 = 1) => Front(s, x, l + 1) = Front(s, x, l)
    BY <1>2, FrontAbove
  <1> HIDE DEF c, f, a, t, first
  <1>9. ASSUME NEW p1, NEW q1, HashesAre(p1, q1, s, x, n, h, known, l + 1),
               IsState(Absorb(v, c), At(s, 0, l + 1), At(x, 0, l + 1), At(n - 1, 0, l + 1), TRUE,
                       p1, q1)
        PROVE  IsVerified(Absorb(v, c), s, x, n, h, known, l + 1)
    <2>1. l + 1 <= l + 1 /\ \A i \in Nat : ~(l + 1 <= i /\ i < l + 1)
      BY <1>2
    <2> QED
      BY <1>2, <1>9, <2>1, Zenon DEF IsVerified
  <1>10. CASE a % 2 = 1
    <2>1. HashesAre(first, HashNode(c, q), s, x, n, h, known, l + 1)
      <3>1. ASSUME known
            PROVE  /\ first = h
                   /\ HashNode(c, q) = EdgeHash(x, n, l + 1) <=> h = MTH(D, s, x + 1)
        <4>1. f = a /\ ~(f < a)
          BY <1>3, <3>1 DEF f, a
        <4>2. p = h /\ (q = EdgeHash(x, n, l) <=> h = MTH(D, s, x + 1))
          BY <1>1, <3>1, Zenon DEF HashesAre
        <4>3. HashNode(c, q) = HashNode(c, EdgeHash(x, n, l)) <=> q = EdgeHash(x, n, l)
          BY HashesDiffer
        <4> QED
          BY <1>5, <1>7, <1>10, <4>1, <4>2, <4>3
      <3>2. ASSUME ~known
            PROVE  /\ first = MTH(D, Front(s, x, l + 1), x + 1)
                   /\ HashNode(c, q) = EdgeHash(x, n, l + 1)
        <4>1. p = MTH(D, Front(s, x, l), x + 1) /\ q = EdgeHash(x, n, l)
          BY <1>1, <3>2, Zenon DEF HashesAre
        <4>2. f < a \/ (f = a /\ ~(f < a))
          BY <1>3
        <4> QED
          BY <1>5, <1>7, <1>8, <1>10, <4>1, <4>2
      <3> QED
        BY <3>1, <3>2 DEF HashesAre
    <2> QED
      BY <1>6, <1>9, <1>10, <2>1 DEF c
  <1>11. CASE a % 2 = 0
    <2>1. HashesAre(p, HashNode(q, c), s, x, n, h, known, l + 1)
      <3>1. ASSUME known
            PROVE  /\ p = h
                   /\ HashNode(q, c) = EdgeHash(x, n, l + 1) <=> h = MTH(D, s, x + 1)
        <4>1. p = h /\ (q = EdgeHash(x, n, l) <=> h = MTH(D, s, x + 1))
          BY <1>1, <3>1, Zenon DEF HashesAre
        <4>2. HashNode(q, c) = HashNode(EdgeHash(x, n, l), c) <=> q = EdgeHash(x, n, l)
          BY HashesDiffer
        <4> QED
          BY <1>7, <1>11, <4>1, <4>2
      <3>2. ASSUME ~known
            PROVE  /\ p = MTH(D, Front(s, x, l + 1), x + 1)
                   /\ HashNode(q, c) = EdgeHash(x, n, l + 1)
        <4>1. p = MTH(D, Front(s, x, l), x + 1) /\ q = EdgeHash(x, n, l)
          BY <1>1, <3>2, Zenon DEF HashesAre
        <4>2. ~(a % 2 = 1)
          BY <1>11
        <4> QED
          BY <1>7, <1>8, <1>11, <4>1, <4>2
      <3> QED
        BY <3>1, <3>2 DEF HashesAre
    <2> QED
      BY <1>6, <1>9, <1>11, <2>1 DEF c
  <1> QED
    BY <1>3, <1>10, <1>11

-----------------------------------------------------------------------------

\* The window of the code at a level: the edge's node, with the part of the
\* subtree that is below it.
WinAt(w, s, x, n, l) ==
    /\ w \in AnyWindow /\ w.lo = Lo(x, 0, l) /\ w.hi = Hi(x, 0, n, l)
    /\ w.start = Front(s, x, l) /\ w.end = x + 1 /\ (w.known <=> Lo(x, 0, l) <= s)

\* There is one, and only one.
LEMMA LevelHasWindow ==
    ASSUME NEW s, NEW x, NEW n, NEW k, IsAsked(s, x, n, k), NEW l \in Nat
    PROVE  /\ \E w \in Windows : WinAt(w, s, x, n, l)
           /\ \A w : WinAt(w, s, x, n, l) => w \in Windows
           /\ \A v, w : WinAt(v, s, x, n, l) /\ WinAt(w, s, x, n, l) => v = w
  <1> DEFINE lo == Lo(x, 0, l)
             hi == Hi(x, 0, n, l)
             front == Front(s, x, l)
             known == IF lo <= s THEN TRUE ELSE FALSE
             v == [lo |-> lo, hi |-> hi, start |-> front, end |-> x + 1, known |-> known]
  <1>1. /\ s \in Nat /\ x \in Nat /\ n \in Nat /\ s <= x /\ n < Pow2[W] /\ Pow2[W] \in Nat
        /\ x + 1 \in Word /\ x + 1 \in Nat
    BY AskedFacts, WordFacts
  <1>2. lo \in Nat /\ hi \in Nat /\ lo <= x /\ x < hi /\ hi <= n
    BY EdgeFacts
  <1>3. front \in Nat /\ lo <= front /\ front < x + 1 /\ x + 1 <= hi
    BY <1>1, <1>2 DEF Front
  <1> HIDE DEF lo, hi, front
  <1>4. lo \in Word /\ hi \in Word /\ front \in Word
    BY <1>1, <1>2, <1>3, WordFacts
  <1>5. WinAt(v, s, x, n, l)
    <2>1. known \in BOOLEAN /\ (known <=> lo <= s)
      OBVIOUS
    <2> HIDE DEF known
    <2>2. /\ v \in AnyWindow /\ v.lo = lo /\ v.hi = hi /\ v.start = front /\ v.end = x + 1
          /\ v.known = known
      BY <1>1, <1>4, <2>1 DEF AnyWindow
    <2> HIDE DEF v
    <2> QED
      BY <2>1, <2>2 DEF WinAt, lo, hi, front
  <1>6. ASSUME NEW w, WinAt(w, s, x, n, l) PROVE w \in Windows
    <2>1. w \in AnyWindow /\ w.lo = lo /\ w.hi = hi /\ w.start = front /\ w.end = x + 1
      BY <1>6 DEF WinAt, lo, hi, front
    <2> QED
      BY <1>3, <2>1 DEF Windows, AnyWindow
  <1>7. ASSUME NEW u, NEW w, WinAt(u, s, x, n, l), WinAt(w, s, x, n, l) PROVE u = w
    <2>1. /\ u \in AnyWindow /\ u.lo = lo /\ u.hi = hi /\ u.start = front /\ u.end = x + 1
          /\ w \in AnyWindow /\ w.lo = lo /\ w.hi = hi /\ w.start = front /\ w.end = x + 1
      BY <1>7 DEF WinAt, lo, hi, front
    <2>2. u.known = w.known
      BY <1>7 DEF WinAt, AnyWindow
    <2> QED
      BY <2>1, <2>2, WindowsEqual DEF IsWindow
  <1> QED
    BY <1>5, <1>6, <1>7

\* A node without a sibling has the window of the one above it.
LEMMA QuietWindow ==
    ASSUME NEW s, NEW x, NEW n, NEW k, IsAsked(s, x, n, k), NEW l \in Nat,
           IsQuiet(x, n, l), NEW w, WinAt(w, s, x, n, l)
    PROVE  WinAt(w, s, x, n, l + 1)
  <1>1. Lo(x, 0, l + 1) = Lo(x, 0, l) /\ Hi(x, 0, n, l + 1) = Hi(x, 0, n, l)
    BY EdgeAbove
  <1>2. Front(s, x, l + 1) = Front(s, x, l)
    BY <1>1 DEF Front
  <1> QED
    BY <1>1, <1>2, Zenon DEF WinAt

\* From the window above a node with a sibling the code goes on with the node's,
\* and adds the hash of the sibling.
LEMMA SiblingWindow ==
    ASSUME NEW s, NEW x, NEW n, NEW k, IsAsked(s, x, n, k), NEW l \in 0 .. W,
           ~IsQuiet(x, n, l), NEW w, WinAt(w, s, x, n, l), NEW u, WinAt(u, s, x, n, l + 1)
    PROVE  Child(u) = w /\ Beside(MCTree, u) = EdgeSibling(x, n, l)
  <1> DEFINE P == Pow2[l]
             lo == Lo(x, 0, l)
             hi == Hi(x, 0, n, l)
             up == Hi(x, 0, n, l + 1)
             a == At(x, 0, l)
             t == At(n - 1, 0, l)
             f == At(s, 0, l)
             below == Lo(x, 0, l + 1)
             c == SplitOf(u.lo, u.hi)
  <1>1. /\ s \in Nat /\ x \in Nat /\ n \in Nat /\ s <= x /\ n < Pow2[W] /\ Pow2[W] \in Nat
        /\ x + 1 \in Nat /\ l \in Nat /\ l + 1 \in Nat /\ n <= LeafCount /\ LeafCount \in Nat
    BY AskedFacts, WordFacts
  <1>2. /\ P \in Nat \ {0} /\ lo \in Nat /\ hi \in Nat /\ lo <= x /\ x < hi /\ hi <= n
        /\ lo % P = 0 /\ (s < lo => s <= lo - P)
    BY <1>1, EdgeFacts
  <1>3. up \in Nat /\ up <= n
    BY <1>1, EdgeFacts
  <1>4. \/ /\ a % 2 = 1 /\ below = lo - P /\ up = hi /\ IsSplitAt(lo - P, lo, hi)
           /\ EdgeSibling(x, n, l) = MTH(D, lo - P, lo)
        \/ /\ a % 2 = 0 /\ a < t /\ below = lo /\ hi = lo + P /\ IsSplitAt(lo, hi, up)
           /\ up <= lo + 2 * P
           /\ EdgeSibling(x, n, l) = MTH(D, hi, up)
    BY <1>1, EdgeAbove
  <1>5. u \in Windows /\ w \in AnyWindow
    BY <1>1, LevelHasWindow DEF WinAt
  <1>6. /\ u.lo = below /\ u.hi = up /\ u.end = x + 1 /\ (u.known <=> below <= s)
        /\ u.start = IF s < below THEN below ELSE s
    BY DEF WinAt, Front
  <1>7. /\ w.lo = lo /\ w.hi = hi /\ w.end = x + 1 /\ (w.known <=> lo <= s)
        /\ w.start = IF s < lo THEN lo ELSE s
    BY DEF WinAt, Front
  <1>8. u \in AnyWindow /\ u.start < u.end /\ u.known \in BOOLEAN /\ w.known \in BOOLEAN
        /\ u.lo \in Word /\ u.hi \in Word
    BY <1>5, WindowFacts DEF AnyWindow
  <1> HIDE DEF P, lo, hi, up, a, t, f, below
  <1>9. CASE /\ a % 2 = 1 /\ below = lo - P /\ up = hi /\ IsSplitAt(lo - P, lo, hi)
             /\ EdgeSibling(x, n, l) = MTH(D, lo - P, lo)
    <2>1. c = lo
      BY <1>6, <1>8, <1>9, SplitOfIs
    <2> HIDE DEF c
    <2>2. lo \in Word /\ lo - P \in Word /\ lo - P \in Nat /\ lo - P < lo
      BY <1>1, <1>2, <1>9, WordFacts DEF IsSplitAt
    <2>3. Child(u) = w
      <3>1. CASE lo <= s
        <4>1. c <= u.start /\ u.start = s /\ u.known = w.known /\ w.start = s
          BY <1>1, <1>2, <1>6, <1>7, <1>8, <1>9, <2>1, <2>2, <3>1
        <4>2. IsWindow(ChildOf(u, c), lo, hi, s, x + 1, u.known)
          BY <1>6, <1>8, <1>9, <2>1, <2>2, <4>1, ChildFields
        <4>3. IsWindow(w, lo, hi, s, x + 1, u.known)
          BY <1>5, <1>7, <4>1 DEF IsWindow
        <4> QED
          BY <4>2, <4>3, WindowsEqual DEF Child, c
      <3>2. CASE s < lo
        <4>1. s <= lo - P
          BY <1>2, <3>2
        <4>2. u.start = lo - P /\ w.start = lo /\ w.known = FALSE
          BY <1>1, <1>2, <1>6, <1>7, <1>8, <1>9, <2>2, <3>2, <4>1
        <4>3. u.start < c /\ c < u.end
          BY <1>1, <1>2, <1>6, <2>1, <2>2, <4>2
        <4>4. IsWindow(ChildOf(u, c), lo, hi, lo, x + 1, FALSE)
          BY <1>6, <1>8, <1>9, <2>1, <2>2, <4>3, ChildFields
        <4>5. IsWindow(w, lo, hi, lo, x + 1, FALSE)
          BY <1>5, <1>7, <4>2 DEF IsWindow
        <4> QED
          BY <4>4, <4>5, WindowsEqual DEF Child, c
      <3> QED
        BY <1>1, <1>2, <3>1, <3>2
    <2>4. Beside(MCTree, u) = MTH(D, lo - P, lo)
      <3>1. ~(u.end <= c)
        BY <1>1, <1>2, <1>6, <2>1
      <3>2. Beside(MCTree, u) = SubtreeHash(MCTree, lo - P, lo)
        BY <1>6, <1>9, <2>1, <3>1 DEF Beside, SiblingHash, c
      <3>3. (lo - P) % P = 0
        <4> DEFINE b == lo - P
        <4>1. b \in Nat /\ P + b = lo /\ P % P = 0 /\ P \in Nat
          <5>1. P * 1 = P
            BY <1>2
          <5>2. P % P = 0
            BY <1>2, <5>1, Multiples
          <5> QED
            BY <1>2, <2>2, <5>2
        <4> HIDE DEF b
        <4>2. b % P = 0
          BY <1>2, <4>1, SumOfMultiples
        <4> QED
          BY <4>2 DEF b
      <3>4. IsAligned(lo - P, lo, l)
        <4>1. lo <= (lo - P) + P
          BY <1>2
        <4> QED
          BY <1>1, <1>2, <2>2, <3>3, <4>1 DEF IsAligned, P
      <3>5. IsValidSubtree(lo - P, lo)
        BY <2>2, <3>4, ValidIsAligned
      <3>6. lo <= LeafCount
        BY <1>1, <1>2
      <3> QED
        BY <2>2, <3>2, <3>5, <3>6, SubtreeHashIs
    <2> QED
      BY <1>9, <2>3, <2>4
  <1>10. CASE /\ a % 2 = 0 /\ a < t /\ below = lo /\ hi = lo + P /\ IsSplitAt(lo, hi, up)
              /\ up <= lo + 2 * P
              /\ EdgeSibling(x, n, l) = MTH(D, hi, up)
    <2>1. c = hi
      BY <1>6, <1>8, <1>10, SplitOfIs
    <2> HIDE DEF c
    <2>2. hi \in Word /\ up \in Word /\ hi < up
      BY <1>1, <1>2, <1>3, <1>10, WordFacts DEF IsSplitAt
    <2>3. Child(u) = w
      <3>1. u.end <= c /\ u.start = w.start /\ u.known = w.known
        BY <1>1, <1>2, <1>6, <1>7, <1>8, <1>10, <2>1
      <3>2. IsWindow(ChildOf(u, c), lo, hi, w.start, x + 1, w.known)
        BY <1>6, <1>8, <1>10, <2>1, <2>2, <3>1, ChildFields
      <3>3. IsWindow(w, lo, hi, w.start, x + 1, w.known)
        BY <1>5, <1>7 DEF IsWindow
      <3> QED
        BY <3>2, <3>3, WindowsEqual DEF Child, c
    <2>4. Beside(MCTree, u) = MTH(D, hi, up)
      <3>1. u.end <= c
        BY <1>1, <1>2, <1>6, <2>1
      <3>2. Beside(MCTree, u) = SubtreeHash(MCTree, hi, up)
        BY <1>6, <1>10, <2>1, <3>1 DEF Beside, SiblingHash, c
      <3>3. hi % P = 0
        <4>1. P * 1 = P /\ P \in Nat
          BY <1>2
        <4>2. P % P = 0
          BY <1>2, <4>1, Multiples
        <4>3. (lo + P) % P = 0
          BY <1>2, <4>1, <4>2, SumOfMultiples
        <4> QED
          BY <1>10, <4>3
      <3>4. IsAligned(hi, up, l)
        <4>1. up <= hi + P
          BY <1>2, <1>3, <1>10
        <4> QED
          BY <1>1, <1>2, <1>3, <2>2, <3>3, <4>1 DEF IsAligned, P
      <3>5. IsValidSubtree(hi, up)
        BY <2>2, <3>4, ValidIsAligned
      <3>6. up <= LeafCount
        BY <1>1, <1>3
      <3> QED
        BY <2>2, <3>2, <3>5, <3>6, SubtreeHashIs
    <2> QED
      BY <1>10, <2>3, <2>4
  <1> QED
    BY <1>4, <1>9, <1>10

\* Where the verifier starts the indices of the subtree's ends agree exactly
\* when its hash is that of the window.
LEMMA AlignsIs ==
    ASSUME NEW s, NEW x, NEW n, NEW k, IsAsked(s, x, n, k), NEW l \in Nat
    PROVE  /\ Aligns(s, x + 1, l) <=> At(s, 0, l) = At(x, 0, l)
           /\ Settles(s, x + 1, n, l)
                 <=> Aligns(s, x + 1, l) \/ (x + 1 # n /\ At(x, 0, l) % 2 = 0)
           /\ k <= l => Aligns(s, x + 1, l)
  <1>1. /\ s \in Nat /\ x \in Nat /\ (x + 1) - 1 = x /\ x - 0 = x /\ s - 0 = s /\ k \in Nat
        /\ s <= x /\ x + 1 <= s + Pow2[k] /\ s % Pow2[k] = 0
    BY AskedFacts
  <1>2. At(s, 0, l) = s \div Pow2[l] /\ At(x, 0, l) = x \div Pow2[l]
    BY <1>1, Zenon DEF At
  <1>3. Aligns(s, x + 1, l) <=> At(s, 0, l) = At(x, 0, l)
    BY <1>1, <1>2, Zenon DEF Aligns
  <1>4. Settles(s, x + 1, n, l)
           <=> Aligns(s, x + 1, l) \/ (x + 1 # n /\ At(x, 0, l) % 2 = 0)
    BY <1>1, <1>2, Zenon DEF Settles
  <1>5. k <= l => s \div Pow2[l] = x \div Pow2[l]
    BY <1>1, AlignedAgree
  <1> QED
    BY <1>2, <1>3, <1>4, <1>5, Zenon

\* It starts where the window is the subtree, or the last part of it.
LEMMA StartIsWhole ==
    ASSUME NEW s, NEW x, NEW n, NEW k, IsAsked(s, x, n, k), NEW b, IsStart(s, x + 1, n, b)
    PROVE  /\ b \in 0 .. W /\ b \in Nat /\ b <= k
           /\ Hi(x, 0, n, b) = x + 1 /\ Front(s, x, b) = Lo(x, 0, b)
           /\ Aligns(s, x + 1, b) <=> Lo(x, 0, b) <= s
           /\ Aligns(s, x + 1, b) => Lo(x, 0, b) = s
           /\ ~Aligns(s, x + 1, b) => At(x, 0, b) % 2 = 0 /\ x + 1 # n
  <1>1. /\ s \in Nat /\ x \in Nat /\ n \in Nat /\ n - 1 \in Nat /\ k \in 0 .. W /\ k \in Nat
        /\ W \in Nat /\ x < n /\ s <= x
    BY AskedFacts DEF IsAsked
  <1>2. b \in 0 .. W /\ b \in Nat /\ b <= k
    <2>1. Settles(s, x + 1, n, k)
      BY <1>1, AlignsIs
    <2>2. b \in 0 .. W /\ b <= k
      BY <1>1, <2>1 DEF IsStart
    <2> QED
      BY <1>1, <2>2
  <1>3. Hi(x, 0, n, b) = x + 1
    <2> DEFINE S == {j \in Nat : j <= b => Hi(x, 0, n, j) = x + 1}
    <2>1. 0 \in S
      <3> DEFINE lo == Lo(x, 0, 0)
                 hi == Hi(x, 0, n, 0)
                 P == Pow2[0]
      <3>1. lo \in Nat /\ hi \in Nat /\ lo <= x /\ x < hi /\ hi <= lo + P
        BY EdgeFacts
      <3>2. P = 1
        BY Pow2Equations
      <3> HIDE DEF lo, hi, P
      <3>3. hi = x + 1
        BY <1>1, <3>1, <3>2
      <3> QED
        BY <3>3 DEF hi
    <2>2. ASSUME NEW j \in Nat, j \in S PROVE j + 1 \in S
      <3> SUFFICES ASSUME j + 1 <= b PROVE Hi(x, 0, n, j + 1) = x + 1
        OBVIOUS
      <3>1. j \in 0 .. W /\ ~(b <= j) /\ Hi(x, 0, n, j) = x + 1
        BY <1>1, <1>2, <2>2
      <3>2. ~Settles(s, x + 1, n, j)
        BY <3>1 DEF IsStart
      <3>3. x + 1 = n \/ At(x, 0, j) % 2 = 1
        <4>1. At(x, 0, j) \in Nat
          BY <1>1, AtUp
        <4>2. ~(x + 1 # n /\ At(x, 0, j) % 2 = 0)
          BY <3>2, AlignsIs
        <4> QED
          BY <4>1, <4>2
      <3>4. CASE x + 1 = n
        <4>1. j + 1 \in Nat
          OBVIOUS
        <4>2. Hi(x, 0, n, j + 1) \in Nat /\ x < Hi(x, 0, n, j + 1) /\ Hi(x, 0, n, j + 1) <= n
          BY <4>1, EdgeFacts
        <4> QED
          BY <1>1, <3>4, <4>2
      <3>5. CASE At(x, 0, j) % 2 = 1
        <4>1. Hi(x, 0, n, j + 1) = Hi(x, 0, n, j)
          BY <3>5, EdgeAbove
        <4> QED
          BY <3>1, <4>1
      <3> QED
        BY <3>3, <3>4, <3>5
    <2> HIDE DEF S
    <2>3. b \in S
      BY <1>2, <2>1, <2>2, NatInductionOnSets
    <2> QED
      BY <1>2, <2>3 DEF S
  <1> DEFINE lo == Lo(x, 0, b)
             f == At(s, 0, b)
             a == At(x, 0, b)
  <1>4. /\ lo \in Nat /\ f \in Nat /\ a \in Nat /\ lo = Pow2[b] * a /\ f <= a
        /\ (f < a <=> s < lo) /\ (f = a <=> lo <= s) /\ s = Pow2[b] * f
    BY <1>2, EdgeFacts
  <1>5. Aligns(s, x + 1, b) <=> f = a
    BY <1>2, AlignsIs
  <1>6. ~Aligns(s, x + 1, b) => a % 2 = 0 /\ x + 1 # n
    <2>1. Settles(s, x + 1, n, b)
      BY DEF IsStart
    <2> QED
      BY <1>2, <2>1, AlignsIs
  <1>7. Front(s, x, b) = IF s < lo THEN lo ELSE s
    BY DEF Front
  <1> HIDE DEF lo, f, a
  <1>8. f = a => s = lo
    BY <1>4
  <1>9. Front(s, x, b) = lo
    BY <1>1, <1>4, <1>7, <1>8
  <1> QED
    BY <1>2, <1>3, <1>4, <1>5, <1>6, <1>8, <1>9, Zenon DEF lo, a

\* When the window where the verifier starts is only the last part of the
\* subtree, there is more of the log after it.
LEMMA MoreAfter ==
    ASSUME NEW s, NEW x, NEW n, NEW k, IsAsked(s, x, n, k), NEW b, IsStart(s, x + 1, n, b),
           NEW l \in Nat, b <= l, ~Aligns(s, x + 1, b), b < l => x + 1 < Hi(x, 0, n, l)
    PROVE  x + 1 < Hi(x, 0, n, l + 1)
  <1> DEFINE hi == Hi(x, 0, n, l)
             up == Hi(x, 0, n, l + 1)
             a == At(x, 0, l)
             t == At(n - 1, 0, l)
  <1>1. x \in Nat /\ n \in Nat /\ x < n /\ b \in Nat
    BY AskedFacts, StartIsWhole
  <1>2. hi \in Nat /\ x < hi /\ a \in Nat /\ t \in Nat /\ a <= t /\ (a = t => hi = n)
    BY EdgeFacts
  <1>3. (IsQuiet(x, n, l) => up = hi) /\ (a % 2 = 1 => up = hi)
        /\ (a % 2 = 0 /\ a < t => hi < up /\ up \in Nat)
    <2>1. (IsQuiet(x, n, l) => up = hi) /\ (a % 2 = 1 => up = hi)
      BY EdgeAbove
    <2>2. a % 2 = 0 /\ a < t => IsSplitAt(Lo(x, 0, l), hi, up)
      BY EdgeAbove
    <2> QED
      BY <2>1, <2>2 DEF IsSplitAt
  <1>4. b = l => a % 2 = 0 /\ x + 1 # n
    BY StartIsWhole
  <1>5. IsQuiet(x, n, l) <=> a % 2 = 0 /\ a = t
    BY DEF IsQuiet
  <1>6. b < l => x + 1 < hi
    OBVIOUS
  <1>7. (b < l \/ b = l) /\ (a % 2 = 0 \/ a % 2 = 1) /\ (a < t \/ a = t)
    BY <1>1, <1>2
  <1> HIDE DEF hi, up, a, t
  <1>8. ASSUME b < l PROVE x + 1 < up
    BY <1>1, <1>2, <1>3, <1>5, <1>6, <1>7, <1>8
  <1>9. ASSUME b = l PROVE x + 1 < up
    BY <1>1, <1>2, <1>3, <1>4, <1>5, <1>7, <1>9
  <1>10. x + 1 < up
    BY <1>7, <1>8, <1>9
  <1> QED
    BY <1>10 DEF up

\* Above a node with a sibling the window is more than the subtree.
LEMMA NotWhole ==
    ASSUME NEW s, NEW x, NEW n, NEW k, IsAsked(s, x, n, k), NEW l \in Nat,
           At(s, 0, l) = At(x, 0, l) \/ x + 1 < Hi(x, 0, n, l + 1),
           ~IsQuiet(x, n, l), NEW u, WinAt(u, s, x, n, l + 1)
    PROVE  ~IsWhole(u)
  <1> DEFINE P == Pow2[l]
             lo == Lo(x, 0, l)
             hi == Hi(x, 0, n, l)
             up == Hi(x, 0, n, l + 1)
             a == At(x, 0, l)
             t == At(n - 1, 0, l)
             below == Lo(x, 0, l + 1)
  <1>1. s \in Nat /\ x \in Nat
    BY AskedFacts
  <1>2. /\ P \in Nat \ {0} /\ lo \in Nat /\ hi \in Nat /\ x < hi
        /\ (At(s, 0, l) = a => lo <= s)
    BY EdgeFacts
  <1>3. \/ a % 2 = 1 /\ below = lo - P
        \/ a % 2 = 0 /\ a < t /\ IsSplitAt(lo, hi, up)
    BY EdgeAbove
  <1>4. u.lo = below /\ u.hi = up /\ u.end = x + 1 /\ u.start = IF s < below THEN below ELSE s
    BY DEF WinAt, Front
  <1>5. IsWhole(u) <=> (IF s < below THEN below ELSE s) = below /\ x + 1 = up
    BY <1>4, Zenon DEF IsWhole
  <1> HIDE DEF P, lo, hi, up, a, t, below
  <1>6. CASE x + 1 < Hi(x, 0, n, l + 1)
    <2>1. x + 1 # up
      BY <1>1, <1>6 DEF up
    <2> QED
      BY <1>5, <2>1
  <1>7. CASE At(s, 0, l) = At(x, 0, l)
    <2>1. lo <= s
      BY <1>2, <1>7 DEF a
    <2>2. CASE below = lo - P
      BY <1>1, <1>2, <1>5, <2>1, <2>2
    <2>3. CASE IsSplitAt(lo, hi, up)
      <3>1. up \in Nat /\ hi < up
        BY <2>3 DEF IsSplitAt
      <3>2. x + 1 # up
        BY <1>1, <1>2, <3>1
      <3> QED
        BY <1>5, <3>2
    <2> QED
      BY <1>3, <2>2, <2>3
  <1> QED
    BY <1>6, <1>7

\* The hash of more than one entry.
LEMMA HashOfMany ==
    ASSUME NEW i \in Nat, NEW o \in Nat, o > 1
    PROVE  MTH(D, i, i + o) = HashNode(MTH(D, i, i + Split(o)), MTH(D, i + Split(o), i + o))
  BY MTHEquations

\* The leaf at the left of a subtree tells where it begins.
LEMMA HashTellsStart ==
    ASSUME NEW a \in Nat, NEW b \in Nat, a < b, b <= LeafCount,
           NEW c \in Nat, NEW d \in Nat, c < d, d <= LeafCount,
           MTH(D, a, b) = MTH(D, c, d)
    PROVE  a = c
  <1> DEFINE Same(m) == \A i, j, p, q \in Nat :
                            /\ 0 < p /\ p <= m /\ i + p <= LeafCount
                            /\ 0 < q /\ j + q <= LeafCount
                            /\ MTH(D, i, i + p) = MTH(D, j, j + q)
                            => i = j
             S == {m \in Nat : Same(m)}
  <1>0. LeafCount \in Nat
    BY LeafCountAssumption, WordFacts
  <1>1. 0 \in S
    OBVIOUS
  <1>2. ASSUME NEW m \in Nat, m \in S PROVE m + 1 \in S
    <2> SUFFICES ASSUME NEW i \in Nat, NEW j \in Nat, NEW p \in Nat, NEW q \in Nat,
                        0 < p, p <= m + 1, i + p <= LeafCount,
                        0 < q, j + q <= LeafCount,
                        MTH(D, i, i + p) = MTH(D, j, j + q)
                 PROVE  i = j
      OBVIOUS
    <2>1. /\ p = 1 => MTH(D, i, i + p) = HashLeaf(D[i + 1])
          /\ q = 1 => MTH(D, j, j + q) = HashLeaf(D[j + 1])
      <3>1. MTH(D, i, i + 1) = HashLeaf(D[i + 1])
        BY MTHEquations
      <3>2. MTH(D, j, j + 1) = HashLeaf(D[j + 1])
        BY MTHEquations
      <3> QED
        BY <3>1, <3>2, Zenon
    <2>2. /\ p > 1 => MTH(D, i, i + p) = HashNode(MTH(D, i, i + Split(p)),
                                                  MTH(D, i + Split(p), i + p))
          /\ q > 1 => MTH(D, j, j + q) = HashNode(MTH(D, j, j + Split(q)),
                                                  MTH(D, j + Split(q), j + q))
      <3>1. \A o \in Nat : o > 1 =>
               MTH(D, i, i + o) = HashNode(MTH(D, i, i + Split(o)), MTH(D, i + Split(o), i + o))
        BY HashOfMany
      <3>2. \A o \in Nat : o > 1 =>
               MTH(D, j, j + o) = HashNode(MTH(D, j, j + Split(o)), MTH(D, j + Split(o), j + o))
        BY HashOfMany
      <3> QED
        BY <3>1, <3>2, Zenon
    <2>3. \A v, w, z : HashLeaf(v) # HashNode(w, z)
      <3> TAKE v, w, z
      <3>1. HashLeaf(v) = <<v>> /\ HashNode(w, z) = <<w, z>>
        BY DEF HashLeaf, HashNode
      <3>2. Len(<<v>>) = 1 /\ Len(<<w, z>>) = 2
        OBVIOUS
      <3> QED
        BY <3>1, <3>2
    <2>4. CASE p = 1 /\ q = 1
      <3>1. HashLeaf(D[i + 1]) = HashLeaf(D[j + 1])
        BY <2>1, <2>4
      <3>2. <<D[i + 1]>> = <<D[j + 1]>>
        BY <3>1 DEF HashLeaf
      <3>3. D[i + 1] = D[j + 1]
        <4>1. <<D[i + 1]>>[1] = D[i + 1] /\ <<D[j + 1]>>[1] = D[j + 1]
          OBVIOUS
        <4> QED
          BY <3>2, <4>1
      <3>4. i + 1 \in 1 .. LeafCount /\ j + 1 \in 1 .. LeafCount
        BY <1>0, <2>4
      <3>5. D[i + 1] = i + 1 /\ D[j + 1] = j + 1
        BY <3>4 DEF D
      <3>6. i + 1 = j + 1
        BY <3>3, <3>5, Zenon
      <3> QED
        BY <3>6
    <2>5. CASE p > 1 /\ q > 1
      <3>1. MTH(D, i, i + Split(p)) = MTH(D, j, j + Split(q))
        <4> DEFINE y1 == MTH(D, i, i + Split(p))
                   y2 == MTH(D, i + Split(p), i + p)
                   z1 == MTH(D, j, j + Split(q))
                   z2 == MTH(D, j + Split(q), j + q)
        <4>1. HashNode(y1, y2) = HashNode(z1, z2)
          BY <2>2, <2>5, Zenon
        <4> HIDE DEF y1, y2, z1, z2
        <4>2. y1 = z1
          BY <4>1, HashesDiffer
        <4> QED
          BY <4>2, Zenon DEF y1, z1
      <3>2. Split(p) \in 1 .. p - 1 /\ Split(q) \in 1 .. q - 1
        BY <2>5, SplitFacts
      <3>3. Same(m)
        BY <1>2
      <3> DEFINE y == Split(p)
                 z == Split(q)
      <3>4. /\ y \in Nat /\ z \in Nat /\ 0 < y /\ y <= m /\ i + y <= LeafCount
            /\ 0 < z /\ j + z <= LeafCount
        BY <1>0, <3>2
      <3> HIDE DEF y, z
      <3>5. MTH(D, i, i + y) = MTH(D, j, j + z)
        BY <3>1 DEF y, z
      <3> QED
        BY <3>3, <3>4, <3>5
    <2>6. CASE p = 1 /\ q > 1
      BY <2>1, <2>2, <2>3, <2>6
    <2>7. CASE p > 1 /\ q = 1
      BY <2>1, <2>2, <2>3, <2>7
    <2> QED
      BY <2>4, <2>5, <2>6, <2>7
  <1> HIDE DEF S
  <1>3. Nat \subseteq S
    BY <1>1, <1>2, NatInductionOnSets
  <1> DEFINE p == b - a
             q == d - c
  <1>4. p \in Nat /\ q \in Nat /\ 0 < p /\ 0 < q /\ a + p = b /\ c + q = d /\ p <= p
    OBVIOUS
  <1> HIDE DEF p, q
  <1>5. Same(p)
    BY <1>3, <1>4 DEF S
  <1>6. MTH(D, a, a + p) = MTH(D, c, c + q) /\ a + p <= LeafCount /\ c + q <= LeafCount
    BY <1>4
  <1> QED
    BY <1>4, <1>5, <1>6

\* Where it starts, the verifier knows the hashes of the window.
LEMMA StartVerified ==
    ASSUME NEW s, NEW x, NEW n, NEW k, IsAsked(s, x, n, k), NEW b, IsStart(s, x + 1, n, b),
           NEW h, NEW w, WinAt(w, s, x, n, b)
    PROVE  LET known == Aligns(s, x + 1, b)
               p == subtreeSubproof(MCTree, w)
           IN  /\ IsSequence(p) /\ (known \/ p # <<>>)
               /\ IsVerified(Final(Shifted(Begin(s, x + 1, n, h), b), p, known),
                             s, x, n, h, known, b)
  <1> DEFINE known == Aligns(s, x + 1, b)
             v == Shifted(Begin(s, x + 1, n, h), b)
             lo == Lo(x, 0, b)
             H == MTH(D, lo, x + 1)
  <1>1. /\ s \in Nat /\ x \in Nat /\ n \in Nat /\ n - 1 \in Nat /\ (x + 1) - 1 = x
        /\ x + 1 \in Word /\ x + 1 <= n /\ n <= LeafCount /\ LeafCount \in Nat /\ x + 1 \in Nat
    BY AskedFacts
  <1>2. /\ b \in 0 .. W /\ b \in Nat /\ Hi(x, 0, n, b) = x + 1 /\ Front(s, x, b) = lo
        /\ (known <=> lo <= s) /\ (known => lo = s)
    BY StartIsWhole
  <1>3. lo \in Nat /\ lo <= x /\ lo % Pow2[b] = 0 /\ x + 1 <= lo + Pow2[b]
    BY <1>1, <1>2, EdgeFacts
  <1>4. w \in Windows /\ w.lo = lo /\ w.hi = x + 1 /\ IsWhole(w) /\ (w.known <=> known)
    <2>1. w \in Windows
      BY <1>2, LevelHasWindow
    <2>2. /\ w.lo = lo /\ w.hi = x + 1 /\ w.start = lo /\ w.end = x + 1
          /\ (w.known <=> lo <= s)
      BY <1>2, Zenon DEF WinAt
    <2> QED
      BY <1>2, <2>1, <2>2, Zenon DEF IsWhole
  <1>5. subtreeSubproof(MCTree, w) = IF known THEN <<>> ELSE <<H>>
    <2>1. subtreeSubproof(MCTree, w) =
             IF w.known THEN <<>> ELSE <<SubtreeHash(MCTree, w.lo, w.hi)>>
      BY <1>4, SubproofIs
    <2>2. IsAligned(lo, x + 1, b)
      BY <1>1, <1>2, <1>3 DEF IsAligned
    <2>3. lo \in Word
      BY <1>4, WindowFacts
    <2>4. SubtreeHash(MCTree, lo, x + 1) = H
      <3>1. lo < x + 1 /\ x + 1 <= LeafCount
        BY <1>1, <1>3
      <3> HIDE DEF lo
      <3> QED
        BY <1>1, <1>2, <2>2, <2>3, <3>1, ValidIsAligned, SubtreeHashIs DEF H
    <2> HIDE DEF H, lo, known
    <2> QED
      BY <1>4, <2>1, <2>4
  <1>6. IsState(v, At(s, 0, b), At(x, 0, b), At(n - 1, 0, b), TRUE, h, h)
    <2>1. IsState(Begin(s, x + 1, n, h), s, x, n - 1, TRUE, h, h)
      BY <1>1 DEF Begin, IsState
    <2>2. IsState(v, s \div Pow2[b], x \div Pow2[b], (n - 1) \div Pow2[b], TRUE, h, h)
      BY <2>1, ShiftedIs
    <2>3. s - 0 = s /\ x - 0 = x /\ (n - 1) - 0 = n - 1
      BY <1>1
    <2> QED
      BY <2>2, <2>3, Zenon DEF At
  <1>7. EdgeHash(x, n, b) = H
    BY <1>2, Zenon DEF EdgeHash, HashAt
  <1> DEFINE p == subtreeSubproof(MCTree, w)
  <1>8. ASSUME NEW z, NEW p1, NEW q1, HashesAre(p1, q1, s, x, n, h, known, b),
               IsState(z, At(s, 0, b), At(x, 0, b), At(n - 1, 0, b), TRUE, p1, q1)
        PROVE  IsVerified(z, s, x, n, h, known, b)
    <2>1. b <= b /\ \A i \in Nat : ~(b <= i /\ i < b)
      BY <1>2
    <2> HIDE DEF known, lo
    <2> QED
      BY <1>2, <1>8, <2>1, Zenon DEF IsVerified
  <1> HIDE DEF p, v, known
  <1>9. CASE known
    <2>1. p = <<>>
      BY <1>5, <1>9 DEF p
    <2>2. IsSequence(p)
      <3>1. <<>> \in Seq({})
        OBVIOUS
      <3> QED
        BY <2>1, <3>1 DEF IsSequence
    <2>3. Final(v, p, known) = v
      <3>1. Final(v, p, known) = Run(v, <<>>)
        BY <1>9, <2>1 DEF Final
      <3> QED
        BY <3>1, RunEmpty
    <2>4. HashesAre(h, h, s, x, n, h, known, b)
      <3>1. h = EdgeHash(x, n, b) <=> h = MTH(D, s, x + 1)
        BY <1>2, <1>7, <1>9
      <3> QED
        BY <1>9, <3>1 DEF HashesAre
    <2> QED
      BY <1>6, <1>8, <1>9, <2>2, <2>3, <2>4 DEF p, v, known
  <1>10. CASE ~known
    <2>1. p = <<H>>
      BY <1>5, <1>10 DEF p
    <2>2. IsSequence(p) /\ p # <<>> /\ p[1] = H /\ Tail(p) = <<>>
      <3>1. <<H>> \in Seq({H}) /\ <<H>> # <<>> /\ <<H>>[1] = H /\ Tail(<<H>>) = <<>>
        OBVIOUS
      <3> QED
        BY <2>1, <3>1 DEF IsSequence
    <2> DEFINE z == [v EXCEPT !.ok = TRUE, !.fr = H, !.sr = H]
    <2>3. Final(v, p, known) = z
      <3>1. Final(v, p, known) = Run(z, <<>>)
        BY <1>10, <2>2 DEF Final
      <3> HIDE DEF z
      <3> QED
        BY <3>1, RunEmpty
    <2>4. IsState(z, At(s, 0, b), At(x, 0, b), At(n - 1, 0, b), TRUE, H, H)
      BY <1>6 DEF IsState
    <2> HIDE DEF z
    <2>5. HashesAre(H, H, s, x, n, h, known, b)
      BY <1>2, <1>7, <1>10 DEF HashesAre
    <2> QED
      BY <1>8, <1>10, <2>2, <2>3, <2>4, <2>5 DEF p, v, known
  <1> QED
    BY <1>9, <1>10

\* The hash of a subtree that has an entry is not that of one that has none.
LEMMA HashIsNotEmpty ==
    ASSUME NEW s \in Nat, NEW e \in Nat, s < e
    PROVE  MTH(D, s, e) # HashEmpty
  <1> DEFINE m == e - s
  <1>1. m \in Nat /\ m # 0 /\ s + m = e
    OBVIOUS
  <1>2. \A y, z : HashLeaf(y) # HashEmpty /\ HashNode(y, z) # HashEmpty
    <2> TAKE y, z
    <2>1. <<y>> # <<>> /\ <<y, z>> # <<>>
      <3>1. Len(<<y>>) = 1 /\ Len(<<y, z>>) = 2 /\ Len(<<>>) = 0
        OBVIOUS
      <3> QED
        BY <3>1
    <2> QED
      BY <2>1 DEF HashLeaf, HashNode, HashEmpty
  <1> HIDE DEF m
  <1>3. CASE m = 1
    <2>1. MTH(D, s, s + 1) = HashLeaf(D[s + 1])
      BY MTHEquations
    <2> QED
      BY <1>1, <1>2, <1>3, <2>1
  <1>4. CASE m # 1
    <2>1. m > 1
      BY <1>1, <1>4
    <2>2. MTH(D, s, s + m) = HashNode(MTH(D, s, s + Split(m)), MTH(D, s + Split(m), s + m))
      BY <1>1, <2>1, HashOfMany
    <2> QED
      BY <1>1, <1>2, <2>2
  <1> QED
    BY <1>3, <1>4

\* At a level from the verifier's start, the proof for the window there leads
\* the verifier to that level.
IsLed(s, x, n, h, b, l) ==
    \E w \in Windows :
        /\ WinAt(w, s, x, n, l)
        /\ IsSequence(subtreeSubproof(MCTree, w))
        /\ Aligns(s, x + 1, b) \/ subtreeSubproof(MCTree, w) # <<>>
        /\ IsVerified(Final(Shifted(Begin(s, x + 1, n, h), b), subtreeSubproof(MCTree, w),
                            Aligns(s, x + 1, b)),
                      s, x, n, h, Aligns(s, x + 1, b), l)
        /\ Aligns(s, x + 1, b) \/ (b < l => x + 1 < Hi(x, 0, n, l))

\* It leads from level to level, and so ...
LEMMA LedOn ==
    ASSUME NEW s, NEW x, NEW n, NEW k, IsAsked(s, x, n, k), NEW b, IsStart(s, x + 1, n, b),
           NEW h, NEW l \in 0 .. W, b <= l, IsLed(s, x, n, h, b, l)
    PROVE  IsLed(s, x, n, h, b, l + 1)
  <1> DEFINE known == Aligns(s, x + 1, b)
             v == Shifted(Begin(s, x + 1, n, h), b)
             Proof(w) == subtreeSubproof(MCTree, w)
  <1>1. s \in Nat /\ x \in Nat /\ l \in Nat /\ l + 1 \in Nat /\ b \in Nat
    BY AskedFacts, StartIsWhole
  <1>2. PICK w \in Windows :
          /\ WinAt(w, s, x, n, l) /\ IsSequence(Proof(w)) /\ (known \/ Proof(w) # <<>>)
          /\ IsVerified(Final(v, Proof(w), known), s, x, n, h, known, l)
          /\ known \/ (b < l => x + 1 < Hi(x, 0, n, l))
    BY DEF IsLed
  <1>3. known \/ x + 1 < Hi(x, 0, n, l + 1)
    BY <1>1, <1>2, MoreAfter
  <1>4. known => At(s, 0, l) = At(x, 0, l)
    <2> SUFFICES ASSUME known PROVE At(s, 0, l) = At(x, 0, l)
      OBVIOUS
    <2>1. (x + 1) - 1 = x /\ s - 0 = s /\ x - 0 = x
      BY <1>1
    <2>2. s \div Pow2[b] = x \div Pow2[b]
      BY <2>1, Zenon DEF Aligns
    <2>3. s \div Pow2[l] = x \div Pow2[l]
      BY <1>1, <2>2, ShiftsAgree
    <2> QED
      BY <2>1, <2>3, Zenon DEF At
  <1> HIDE DEF known, v, Proof
  <1>5. ASSUME NEW u \in Windows, WinAt(u, s, x, n, l + 1), IsSequence(Proof(u)),
               known \/ Proof(u) # <<>>,
               IsVerified(Final(v, Proof(u), known), s, x, n, h, known, l + 1)
        PROVE  IsLed(s, x, n, h, b, l + 1)
    BY <1>3, <1>5, Zenon DEF IsLed, known, v, Proof
  <1>6. CASE IsQuiet(x, n, l)
    <2>1. WinAt(w, s, x, n, l + 1)
      BY <1>1, <1>2, <1>6, QuietWindow
    <2>2. IsVerified(Final(v, Proof(w), known), s, x, n, h, known, l + 1)
      BY <1>1, <1>2, <1>6, QuietVerified
    <2> QED
      BY <1>2, <1>5, <2>1, <2>2
  <1>7. CASE ~IsQuiet(x, n, l)
    <2> DEFINE c == EdgeSibling(x, n, l)
    <2>1. PICK u \in Windows : WinAt(u, s, x, n, l + 1)
      BY <1>1, LevelHasWindow
    <2>2. ~IsWhole(u)
      BY <1>1, <1>3, <1>4, <1>7, <2>1, NotWhole
    <2>3. Child(u) = w /\ Beside(MCTree, u) = c
      BY <1>2, <1>7, <2>1, SiblingWindow
    <2>4. Proof(u) = Longer(Proof(w), c)
      BY <2>2, <2>3, SubproofIs DEF Proof
    <2> HIDE DEF c
    <2>5. IsSequence(Proof(u)) /\ Proof(u) # <<>>
      <3>1. /\ IsSequence(Longer(Proof(w), c)) /\ Len(Proof(w)) \in Nat
            /\ Len(Longer(Proof(w), c)) = Len(Proof(w)) + 1
        BY <1>2, LongerFacts
      <3>2. Len(<<>>) = 0
        OBVIOUS
      <3> QED
        BY <2>4, <3>1, <3>2
    <2>6. Final(v, Proof(u), known) = Absorb(Final(v, Proof(w), known), c)
      BY <1>2, <2>4, FinalLonger
    <2>7. IsVerified(Absorb(Final(v, Proof(w), known), c), s, x, n, h, known, l + 1)
      BY <1>2, <1>4, <1>7, SiblingVerified DEF c
    <2> QED
      BY <1>5, <2>1, <2>5, <2>6, <2>7
  <1> QED
    BY <1>6, <1>7

\* ... to the top.
LEMMA LedToTop ==
    ASSUME NEW s, NEW x, NEW n, NEW k, IsAsked(s, x, n, k), NEW b, IsStart(s, x + 1, n, b),
           NEW h
    PROVE  IsLed(s, x, n, h, b, W)
  <1> DEFINE S == {l \in Nat : b <= l /\ l <= W => IsLed(s, x, n, h, b, l)}
  <1>1. b \in 0 .. W /\ b \in Nat /\ W \in Nat
    BY StartIsWhole, WordFacts
  <1>2. IsLed(s, x, n, h, b, b)
    <2>1. PICK w \in Windows : WinAt(w, s, x, n, b)
      BY <1>1, LevelHasWindow
    <2>2. ~(b < b)
      BY <1>1
    <2> QED
      BY <2>1, <2>2, StartVerified DEF IsLed
  <1>3. 0 \in S
    <2>1. b <= 0 => b = 0
      BY <1>1
    <2> QED
      BY <1>2, <2>1
  <1>4. ASSUME NEW l \in Nat, l \in S PROVE l + 1 \in S
    <2> SUFFICES ASSUME b <= l + 1, l + 1 <= W PROVE IsLed(s, x, n, h, b, l + 1)
      OBVIOUS
    <2>1. CASE b = l + 1
      BY <1>2, <2>1
    <2>2. CASE b # l + 1
      <3>1. b <= l /\ l \in 0 .. W /\ l <= W
        BY <1>1, <2>2
      <3>2. IsLed(s, x, n, h, b, l)
        BY <1>4, <3>1
      <3> QED
        BY <3>1, <3>2, LedOn
    <2> QED
      BY <2>1, <2>2
  <1> HIDE DEF S
  <1>5. W \in S
    BY <1>1, <1>3, <1>4, NatInductionOnSets
  <1> QED
    BY <1>1, <1>5 DEF S

\* The verifier who has the log's proof accepts the hash of the subtree, and no
\* other hash.
LEMMA AcceptsOnlyTheHash ==
    ASSUME NEW s, NEW x, NEW n, NEW k, IsAsked(s, x, n, k), NEW h
    PROVE  ConsistencyVerifies(s, x + 1, n, SubtreeConsistencyProof(MCTree, s, x + 1, n), h,
                               MTH(D, 0, n))
              <=> h = MTH(D, s, x + 1)
  <1> DEFINE root == MTH(D, 0, n)
  <1>1. /\ s \in Nat /\ x \in Nat /\ n \in Nat /\ n - 1 \in Nat /\ x + 1 \in Nat
        /\ s \in Word /\ x + 1 \in Word /\ n \in Word /\ s < x + 1 /\ x + 1 <= n /\ s <= x /\ x < n
        /\ n - 1 < n /\ n < Pow2[W] /\ W \in Nat /\ Pow2[W] \in Nat \ {0}
    BY AskedFacts, WordFacts DEF IsAsked
  <1>2. PICK b : IsStart(s, x + 1, n, b)
    BY <1>1, StartExists
  <1> DEFINE known == Aligns(s, x + 1, b)
             v == Shifted(Begin(s, x + 1, n, h), b)
             Proof(w) == subtreeSubproof(MCTree, w)
             P == Pow2[W]
             top == [lo |-> 0, hi |-> n, start |-> s, end |-> x + 1, known |-> TRUE]
  <1>3. PICK w \in Windows :
          /\ WinAt(w, s, x, n, W)
          /\ IsVerified(Final(v, Proof(w), known), s, x, n, h, known, W)
    <2>1. IsLed(s, x, n, h, b, W)
      BY <1>2, LedToTop
    <2> QED
      BY <2>1 DEF IsLed
  <1>4. At(x, 0, W) = 0 /\ At(n - 1, 0, W) = 0
    <2>1. x < P /\ n - 1 < P /\ P \in Nat \ {0} /\ x \in Nat /\ n - 1 \in Nat
      BY <1>1
    <2>2. x - 0 = x /\ (n - 1) - 0 = n - 1
      BY <1>1
    <2>3. \A y \in Nat : y < P => P * 0 + y = y
      BY <2>1
    <2>4. \A y \in Nat : y < P => (P * 0 + y) \div P = 0
      BY <2>1, DivModUnique
    <2> HIDE DEF P
    <2>5. x \div P = 0 /\ (n - 1) \div P = 0
      BY <2>1, <2>3, <2>4
    <2> QED
      BY <2>2, <2>5, Zenon DEF At, P
  <1>5. Lo(x, 0, W) = 0 /\ Hi(x, 0, n, W) = n
    <2>1. Lo(x, 0, W) = 0
      BY <1>1, <1>4 DEF Lo
    <2>2. ~(0 + Pow2[W] < n)
      BY <1>1
    <2> QED
      BY <2>1, <2>2, Zenon DEF Hi
  <1>6. Front(s, x, W) = s
    BY <1>1, <1>5 DEF Front
  <1>7. w = top
    <2>1. /\ w \in AnyWindow /\ w.lo = 0 /\ w.hi = n /\ w.start = s /\ w.end = x + 1
          /\ w.known = TRUE
      BY <1>1, <1>3, <1>5, <1>6 DEF WinAt, AnyWindow
    <2>2. top \in AnyWindow
      BY <1>1, WordFacts DEF AnyWindow
    <2>3. IsWindow(w, 0, n, s, x + 1, TRUE) /\ IsWindow(top, 0, n, s, x + 1, TRUE)
      BY <2>1, <2>2 DEF IsWindow
    <2> QED
      BY <2>3, WindowsEqual
  <1>8. SubtreeConsistencyProof(MCTree, s, x + 1, n) = Proof(w)
    <2>1. s # x + 1
      BY <1>1
    <2> QED
      BY <1>7, <2>1, Zenon DEF SubtreeConsistencyProof
  <1> DEFINE z == Final(v, Proof(w), known)
  <1>9. ConsistencyVerifies(s, x + 1, n, Proof(w), h, root)
           <=> z.ok /\ z.tn = 0 /\ z.fr = h /\ z.sr = root
    <2> DEFINE e == x + 1
               pf == Proof(w)
    <2>1. e \in Nat /\ s < e /\ e <= n /\ IsStart(s, e, n, b)
      BY <1>1, <1>2
    <2> HIDE DEF root, Proof, e, pf
    <2>2. LET y == Final(Shifted(Begin(s, e, n, h), b), pf, Aligns(s, e, b))
          IN  ConsistencyVerifies(s, e, n, pf, h, root)
                 <=> y.ok /\ y.tn = 0 /\ y.fr = h /\ y.sr = root
      BY <1>1, <2>1, VerifiesIs
    <2> QED
      BY <2>2, Zenon DEF e, pf
  <1>10. EdgeHash(x, n, W) = root
    BY <1>5, Zenon DEF EdgeHash, HashAt
  <1> HIDE DEF z, known, v, Proof, top, root
  <1>11. PICK j, p, q :
          /\ j \in Nat
          /\ IsState(z, At(s, 0, j), At(x, 0, j), At(n - 1, 0, j), TRUE, p, q)
          /\ At(n - 1, 0, j) = 0 <=> At(n - 1, 0, W) = 0
          /\ HashesAre(p, q, s, x, n, h, known, W)
    <2>1. IsVerified(z, s, x, n, h, known, W)
      BY <1>3 DEF z
    <2> QED
      BY <2>1, Zenon DEF IsVerified
  <1>12. z.ok = TRUE /\ z.tn = 0 /\ z.fr = p /\ z.sr = q
    BY <1>4, <1>11 DEF IsState
  <1>13. CASE known
    <2>1. p = h /\ (q = root <=> h = MTH(D, s, x + 1))
      BY <1>10, <1>11, <1>13 DEF HashesAre
    <2> QED
      BY <1>8, <1>9, <1>12, <2>1 DEF root
  <1>14. CASE ~known
    <2>1. p = MTH(D, s, x + 1) /\ q = root
      BY <1>6, <1>10, <1>11, <1>14 DEF HashesAre
    <2> QED
      BY <1>8, <1>9, <1>12, <2>1 DEF root
  <1> QED
    BY <1>13, <1>14

-----------------------------------------------------------------------------

\* The log asked about is a prefix of the log ...
IsPrefix == logSize \in 0 .. LeafCount

\* ... and stays one.
LEMMA QuestionsAreOfPrefixes ==
    /\ FirstQuestion => IsPrefix
    /\ IsPrefix /\ [NextQuestion]_question => IsPrefix'
  <1>1. LeafCount \in Nat
    BY LeafCountAssumption, WordFacts
  <1>2. FirstQuestion => IsPrefix
    BY <1>1 DEF FirstQuestion, IsPrefix
  <1>3. ASSUME IsPrefix, [NextQuestion]_question PROVE IsPrefix'
    <2>1. logSize + 1 \in Nat /\ LeafCount + 1 \in Nat \ {0}
      BY <1>1, <1>3 DEF IsPrefix
    <2>2. (logSize + 1) % (LeafCount + 1) \in 0 .. LeafCount
      <3> DEFINE m == LeafCount + 1
                 y == (logSize + 1) % m
      <3>1. y \in Nat /\ y < m
        BY <2>1, DivMod
      <3> HIDE DEF y
      <3> QED
        BY <1>1, <3>1 DEF y
    <2> QED
      BY <1>3, <2>2 DEF IsPrefix, NextQuestion, MoveStart, MoveEnd, MoveSize, question
  <1> QED
    BY <1>2, <1>3

\* The proof that SubtreeConsistencyProof makes convinces a verifier who follows
\* the draft of the subtree's hash, and of the hash of no other subtree with
\* that end, for every log, subtree and size (log.go:162-227).
THEOREM ConsistencyProofsConvince == Questions => []ConsistencyProofConvinces
  <1>1. AreWords /\ IsPrefix => ConsistencyProofConvinces
    <2> SUFFICES ASSUME AreWords, IsPrefix, IsValidSubtree(start, end), end <= logSize
                 PROVE  LET hashes == SubtreeConsistencyProof(MCTree, start, end, logSize)
                            Accepts(nodeHash) ==
                               ConsistencyVerifies(start, end, logSize, hashes, nodeHash,
                                                   MTH(D, 0, logSize))
                        IN  /\ Accepts(MTH(D, start, end))
                            /\ \A s \in 0 .. LeafCount : s # start /\ s < end =>
                                  ~Accepts(MTH(D, s, end))
      BY DEF ConsistencyProofConvinces
    <2> DEFINE hashes == SubtreeConsistencyProof(MCTree, start, end, logSize)
               Accepts(nodeHash) ==
                  ConsistencyVerifies(start, end, logSize, hashes, nodeHash, MTH(D, 0, logSize))
    <2>1. /\ start \in Word /\ end \in Word /\ start \in Nat /\ end \in Nat
          /\ logSize \in Nat /\ logSize <= LeafCount /\ LeafCount \in Nat /\ LeafCount \in Word
      BY LeafCountAssumption, WordFacts DEF AreWords, IsPrefix
    <2>2. start <= end
      BY <2>1 DEF IsValidSubtree
    <2>3. CASE start = end
      <3>1. hashes = <<>>
        BY <2>3 DEF SubtreeConsistencyProof
      <3>2. \A h : Accepts(h) <=> h = HashEmpty
        BY <2>3, <3>1 DEF ConsistencyVerifies
      <3>3. MTH(D, start, end) = HashEmpty
        BY <2>1, <2>3, MTHEquations
      <3>4. ASSUME NEW s \in 0 .. LeafCount, s < end PROVE MTH(D, s, end) # HashEmpty
        BY <2>1, <3>4, HashIsNotEmpty
      <3> HIDE DEF Accepts
      <3>5. Accepts(MTH(D, start, end))
        BY <3>2, <3>3
      <3>6. \A s \in 0 .. LeafCount : s # start /\ s < end => ~Accepts(MTH(D, s, end))
        BY <3>2, <3>4
      <3> QED
        BY <3>5, <3>6 DEF Accepts
    <2>4. CASE start # end
      <3> DEFINE x == end - 1
      <3>1. start < end /\ x \in Nat /\ x + 1 = end /\ start <= x /\ x < logSize
        BY <2>1, <2>2, <2>4
      <3>2. PICK k \in 0 .. W : IsAligned(start, end, k)
        BY <2>1, <3>1, ValidIsAligned
      <3>3. logSize \in Word
        BY <2>1, WordFacts
      <3> HIDE DEF x
      <3>4. IsAsked(start, x, logSize, k)
        BY <2>1, <3>1, <3>2, <3>3 DEF IsAsked
      <3>5. \A h : Accepts(h) <=> h = MTH(D, start, end)
        <4> TAKE h
        <4>1. ConsistencyVerifies(start, x + 1, logSize,
                                  SubtreeConsistencyProof(MCTree, start, x + 1, logSize), h,
                                  MTH(D, 0, logSize))
                 <=> h = MTH(D, start, x + 1)
          BY <3>4, AcceptsOnlyTheHash
        <4> QED
          BY <3>1, <4>1, Zenon
      <3>6. ASSUME NEW s \in 0 .. LeafCount, s # start, s < end
            PROVE  MTH(D, s, end) # MTH(D, start, end)
        <4>1. s \in Nat /\ end <= LeafCount
          BY <2>1
        <4> QED
          BY <2>1, <3>1, <3>6, <4>1, HashTellsStart
      <3> HIDE DEF Accepts
      <3>7. Accepts(MTH(D, start, end))
        BY <3>5
      <3>8. \A s \in 0 .. LeafCount : s # start /\ s < end => ~Accepts(MTH(D, s, end))
        BY <3>5, <3>6
      <3> QED
        BY <3>7, <3>8 DEF Accepts
    <2> QED
      BY <2>3, <2>4
  <1> QED
    BY <1>1, QuestionsAreWords, QuestionsAreOfPrefixes, PTL DEF Questions
=============================================================================
