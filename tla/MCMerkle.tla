------------------------------ MODULE MCMerkle ------------------------------
(*****************************************************************************)
(* Checks the operators of Subtrees and MerkleTree against their             *)
(* definitions, on a tree of LeafCount entries: each step asks about another *)
(* interval of words, of another prefix of the log.                          *)
(*****************************************************************************)
EXTENDS MCLog

VARIABLES
    start, end,     \* the interval asked about
    logSize         \* the size of the log asked about

question == <<start, end, logSize>>

FirstQuestion == start = 0 /\ end = 0 /\ logSize = 0

MoveStart == start' = (start + 1) % Pow2[W] /\ UNCHANGED <<end, logSize>>
MoveEnd   == end' = (end + 1) % Pow2[W] /\ UNCHANGED <<start, logSize>>
MoveSize  == logSize' = (logSize + 1) % (LeafCount + 1) /\ UNCHANGED <<start, end>>

NextQuestion == MoveStart \/ MoveEnd \/ MoveSize

Questions == FirstQuestion /\ [][NextQuestion]_question

-----------------------------------------------------------------------------

\* IsValidSubtree computes in W-bit words, where the rounded-up size of an
\* interval longer than half the word range wraps to zero; it still decides
\* exactly the draft's definition (log.go:40).
ValidityMatchesDefinition == IsValidSubtree(start, end) <=> IsSubtree(start, end)

\* SubtreesForInterval returns two subtrees whose disjoint union contains
\* [start, end), the right one adding nothing to it, each no larger than
\* BIT_CEIL(end - start), and the left one the smallest that ends at the split
\* and contains start (log.go:229-255).
CoverIsTight ==
    start <= end =>
        LET c == SubtreesForInterval(start, end)
        IN  /\ IsSubtree(c.start1, c.end1) /\ IsSubtree(c.start2, c.end2)
            /\ start < end => \A s \in 0..start : s > c.start1 => ~IsSubtree(s, c.end1)
            /\ c.start1 <= start /\ start <= c.end1
            /\ c.end1 = c.start2 /\ c.start2 <= end /\ c.end2 = end
            /\ c.end1 - c.start1 <= BitCeil(end - start)
            /\ c.end2 - c.start2 <= BitCeil(end - start)

-----------------------------------------------------------------------------

\* SubtreeHash, which climbs the right edge over nodes of the static tree,
\* returns MTH(D[start:end]) for every valid subtree of the tree, never reading
\* a node the tree does not have, and refuses every other interval
\* (log.go:96-124).
HashMatchesDefinition ==
    SubtreeHash(MCTree, start, end) =
        IF IsValidSubtree(start, end) /\ end <= LeafCount
        THEN MTH(D, start, end) ELSE NoHash

\* A consistency proof convinces a verifier who follows the draft and knows
\* the subtree's hash and the hash of the tree, and no verifier with the hash
\* of another subtree (log.go:162-227).
ConsistencyProofConvinces ==
    IsValidSubtree(start, end) /\ end <= logSize =>
        LET proof == SubtreeConsistencyProof(MCTree, start, end, logSize)
            Accepts(nodeHash) == ConsistencyVerifies(start, end, logSize, proof, nodeHash,
                                                     MTH(D, 0, logSize))
        IN  /\ Accepts(MTH(D, start, end))
            /\ \A s \in 0 .. LeafCount : s # start /\ s < end =>
                  ~Accepts(MTH(D, s, end))
=============================================================================
