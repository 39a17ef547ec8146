----------------------------- MODULE MerkleTree -----------------------------
(***************************************************************************)
(* The Merkle tree of demo/log.go: the static tree of all complete nodes,  *)
(* the hash of a subtree, and the proof that a subtree is consistent with  *)
(* the tree of a given size.                                               *)
(*                                                                         *)
(* Hashes are free terms, so that two hashes are equal exactly when they   *)
(* were computed alike: collision resistance is taken for granted.         *)
(***************************************************************************)
EXTENDS Subtrees, FiniteSets, Sequences

HashEmpty      == <<>>
HashLeaf(d)    == <<d>>
HashNode(l, r) == <<l, r>>

\* What a function returns with an error, or does not return because it
\* panics: no hash.
NoHash == <<0, 0, 0>>

\* levels[i][j] is the hash of the complete subtree [2^i*j, 2^i*(j+1)).
NewStaticMerkleTree(entries) ==
    LET levels[i \in 0..W] ==
          [j \in 0 .. Len(entries) \div Pow2[i] - 1 |->
              IF i = 0 THEN HashLeaf(entries[j + 1])
              ELSE HashNode(levels[i - 1][2 * j], levels[i - 1][2 * j + 1])]
    IN  levels

Size(tree) == Cardinality(DOMAIN tree[0])

\* Panics when the node is out of the tree's range.
FullSubtreeHashByLevel(tree, level, idx) ==
    IF level \in DOMAIN tree /\ idx \in DOMAIN tree[level]
    THEN tree[level][idx] ELSE NoHash

\* bits.TrailingZeros64(x) for x # 0.
TrailingZeros(x) == CHOOSE n \in 0..W : x % Pow2[n] = 0 /\ x % Pow2[n + 1] # 0

\* ^x
Complement(x) == Pow2[W] - 1 - x

-----------------------------------------------------------------------------

\* Mutant: the height of the largest complete subtree of the whole tree that
\* ends with leaf last, which may begin before start.
EdgeLevelIgnoringStart(start, last) == TrailingZeros(Complement(last))

\* The height of the largest complete subtree at the right edge of
\* [start, last + 1).
EdgeLevel(start, last) == TrailingZeros(Minus(Complement(last), start))

(****************************************************************************)
(* SubtreeHash: from the largest complete subtree on the right edge upward. *)
(* The loop's invariant is that the hash at a level is that of the subtree  *)
(* from the last node of the level to end.                                  *)
(****************************************************************************)
SubtreeHash(tree, start, end) ==
    LET last == end - 1
        first == EdgeLevel(start, last)
        hash[level \in first..W] ==
          IF level = first
          THEN FullSubtreeHashByLevel(tree, level, last \div Pow2[level])
          ELSE LET edge == last \div Pow2[level - 1]
               IN  IF start \div Pow2[level - 1] < edge /\ edge % 2 = 1
                   THEN HashNode(FullSubtreeHashByLevel(tree, level - 1, edge - 1),
                                 hash[level - 1])
                   ELSE hash[level - 1]
    IN  IF ~IsValidSubtree(start, end) \/ end > Size(tree) THEN NoHash
        ELSE IF start = end THEN HashEmpty
        ELSE hash[W]

-----------------------------------------------------------------------------

\* The window [lo, hi) is split at the largest power of two below its size.
SplitOf(lo, hi) == lo + ShiftedOne(BitLen(hi - lo - 1) - 1)

\* The subtree has an entry and is in the window.
Windows ==
    {w \in [lo : Word, hi : Word, start : Word, end : Word, known : BOOLEAN] :
        w.lo <= w.start /\ w.start < w.end /\ w.end <= w.hi}

\* Mutant: the verifier is taken to know the hash of the part it does not.
ChildAlwaysKnown(w, split) ==
    CASE w.end <= split -> [w EXCEPT !.hi = split]
      [] split <= w.start -> [w EXCEPT !.lo = split]
      [] w.start < split /\ split < w.end ->
            [w EXCEPT !.lo = split, !.start = split]

\* The half of the window the proof goes on in.  When the subtree spans the
\* split, that is its right part, whose hash the verifier does not know.
ChildOf(w, split) ==
    CASE w.end <= split -> [w EXCEPT !.hi = split]
      [] split <= w.start -> [w EXCEPT !.lo = split]
      [] w.start < split /\ split < w.end ->
            [w EXCEPT !.lo = split, !.start = split, !.known = FALSE]

SiblingHash(tree, w, split) ==
    IF w.end <= split THEN SubtreeHash(tree, split, w.hi)
                      ELSE SubtreeHash(tree, w.lo, split)

subtreeSubproof(tree, window) ==
    LET proof[w \in Windows] ==
          LET split == SplitOf(w.lo, w.hi)
          IN  IF w.start = w.lo /\ w.end = w.hi
              THEN IF w.known THEN <<>> ELSE <<SubtreeHash(tree, w.lo, w.hi)>>
              ELSE Append(proof[ChildOf(w, split)], SiblingHash(tree, w, split))
    IN  proof[window]

\* For a valid subtree [start, end) of the first n of the tree's entries (the
\* code returns an error otherwise).
SubtreeConsistencyProof(tree, start, end, n) ==
    IF start = end THEN <<>>
    ELSE subtreeSubproof(tree, [lo |-> 0, hi |-> n, start |-> start,
                                end |-> end, known |-> TRUE])
=============================================================================
