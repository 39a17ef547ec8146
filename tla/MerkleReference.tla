-------------------------- MODULE MerkleReference --------------------------
(****************************************************************************)
(* Merkle Tree hashes and proofs as RFC 9162 and the draft in this          *)
(* repository define them, recursively and over the unbounded integers; the *)
(* code computes them bottom up.  D is the sequence of a log's entries.     *)
(****************************************************************************)
EXTENDS MerkleTree

\* BIT_CEIL of the draft: the least power of two that is not smaller than n.
BitCeil(n) == IF n <= 1 THEN 1
              ELSE Pow2[CHOOSE k \in 1..W : Pow2[k - 1] < n /\ n <= Pow2[k]]

\* The draft's definition of a subtree: start is a multiple of
\* BIT_CEIL(end - start).
IsSubtree(start, end) == start <= end /\ start % BitCeil(end - start) = 0

-----------------------------------------------------------------------------

\* The largest power of two smaller than n.
Split(n) == Pow2[CHOOSE k \in 0..n : Pow2[k] < n /\ n <= Pow2[k + 1]]

\* MTH(D[start:end]): the hash of n entries from s on, for n = end - start.
MTH(D, start, end) ==
    LET hash[n \in Nat] ==
          [s \in Nat |->
             IF n = 0 THEN HashEmpty
             ELSE IF n = 1 THEN HashLeaf(D[s + 1])
             ELSE HashNode(hash[Split(n)][s], hash[n - Split(n)][s + Split(n)])]
    IN  hash[end - start][start]

\* PATH(index - start, D[start:end]): the inclusion proof of an entry.
Path(D, index, start, end) ==
    LET path[n \in Nat] ==
          [s \in Nat |->
             IF n <= 1 THEN <<>>
             ELSE IF index < s + Split(n)
             THEN Append(path[Split(n)][s], MTH(D, s + Split(n), s + n))
             ELSE Append(path[n - Split(n)][s + Split(n)], MTH(D, s, s + Split(n)))]
    IN  path[end - start][start]

-----------------------------------------------------------------------------

\* The draft's verification of a consistency proof, one value of the proof at
\* a time.  A verification has not failed while `ok` holds.
Halved(v) == [v EXCEPT !.fn = @ \div 2, !.sn = @ \div 2, !.tn = @ \div 2]

\* Right-shift until the condition holds of the state.
ShiftUntil(Cond(_), v) ==
    LET shifted[k \in 0..W] ==
          [v EXCEPT !.fn = @ \div Pow2[k], !.sn = @ \div Pow2[k], !.tn = @ \div Pow2[k]]
    IN  shifted[CHOOSE k \in 0..W : /\ Cond(shifted[k])
                                    /\ \A j \in 0..W : Cond(shifted[j]) => k <= j]

OddSn(v) == v.sn % 2 = 1

Absorb(v, c) ==
    IF ~v.ok \/ v.tn = 0 THEN [v EXCEPT !.ok = FALSE]
    ELSE IF v.sn % 2 = 1 \/ v.sn = v.tn
         THEN Halved(ShiftUntil(OddSn,
                [v EXCEPT !.fr = IF v.fn < v.sn THEN HashNode(c, @) ELSE @,
                          !.sr = HashNode(c, @)]))
         ELSE Halved([v EXCEPT !.sr = HashNode(@, c)])

ConsistencyVerifies(start, end, n, proof, nodeHash, rootHash) ==
    LET v0 == [fn |-> start, sn |-> end - 1, tn |-> n - 1, ok |-> TRUE,
               fr |-> nodeHash, sr |-> nodeHash]
        Aligned(v) == v.fn = v.sn
        Settled(v) == v.fn = v.sn \/ v.sn % 2 = 0
        v1 == IF v0.sn = v0.tn THEN ShiftUntil(Aligned, v0) ELSE ShiftUntil(Settled, v0)
        known == Aligned(v1)
        v2 == IF known THEN v1
              ELSE [v1 EXCEPT !.ok = proof # <<>>,
                              !.fr = IF proof # <<>> THEN proof[1] ELSE @,
                              !.sr = IF proof # <<>> THEN proof[1] ELSE @]
        rest == IF known \/ proof = <<>> THEN proof ELSE Tail(proof)
        after[i \in 0 .. Len(rest)] == IF i = 0 THEN v2 ELSE Absorb(after[i - 1], rest[i])
        v3 == after[Len(rest)]
    IN  IF start = end THEN proof = <<>> /\ nodeHash = HashEmpty
        ELSE v3.ok /\ v3.tn = 0 /\ v3.fr = nodeHash /\ v3.sr = rootHash
=============================================================================
