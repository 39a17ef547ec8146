-------------------------- MODULE MCInclusionProof --------------------------
(***************************************************************************)
(* Every proof of a log of LeafCount entries, delivered as it is or        *)
(* damaged, for the entry and subtree it proves or for others.             *)
(***************************************************************************)
EXTENDS InclusionProof, MCLog

\* What is proved and evaluated is about this log.
ASSUME TreeAssumption == tree = MCTree

\* The hash of an entry that is not in the log.
Foreign == HashLeaf(0)

\* Positions in the log, and some around them that are not valid: an empty
\* subtree, an entry outside its subtree, an interval that is no subtree and
\* one that ends beyond the log.
MCPositions ==
    {p \in [index : 0..LeafCount, start : 0..LeafCount, end : 0 .. LeafCount + 1] :
        IsValidSubtree(p.start, p.end) /\ p.start <= p.index /\ p.index < p.end}
    \cup {[index |-> 1, start |-> 1, end |-> 1], [index |-> 2, start |-> 0, end |-> 2],
          [index |-> 1, start |-> 1, end |-> 3]}

\* A proof as it was sent, without its first or last hash, with a hash too
\* many, or with a hash replaced.
MCDeliveries(sent) ==
    {sent, Append(sent, Foreign)}
    \cup {SubSeq(sent, 1, k) : k \in 0 .. Len(sent)}
    \cup {SubSeq(sent, 2, Len(sent))}
    \cup {[sent EXCEPT ![k] = Foreign] : k \in DOMAIN sent}

MCEntryHashes == {HashLeaf(i) : i \in 0..LeafCount}

\* Whatever happens to a proof on its way, the verifier cuts what arrives into
\* a sequence of hashes.
ASSUME DeliveryAssumption ==
    \A p \in Positions :
        Contains(p) /\ p.end <= LeafCount =>
            \A hashes \in Deliveries(Path(D, p.index, p.start, p.end)) :
                hashes \in Seq({hashes[k] : k \in DOMAIN hashes})

-----------------------------------------------------------------------------

\* What the log sends is the proof RFC 9162 defines, although the code walks
\* up the tree and never cuts the subtree out of it (log.go:126-160).
ProofIsThePath ==
    stage = "proving" /\ node.start >= node.last =>
        proof = Path(D, position.index, position.start, position.end)

\* A proof evaluates to the hash of a subtree of the log only for the entry
\* that is there, and only as the log proves it: no other entry, no shortened,
\* extended or changed proof, and no proof of another position gets there
\* (log.go:257-292).
OnlyTheProofConvinces ==
    stage = "done" /\ position.end <= LeafCount /\ Contains(position)
        /\ result = MTH(D, position.start, position.end) =>
        /\ given.entryHash = HashLeaf(D[position.index + 1])
        /\ given.hashes = Path(D, position.index, position.start, position.end)
        /\ ~given.oddBytes

\* The log's own proof of the entry evaluates to the hash of the subtree, so a
\* certificate whose proof is intact is never rejected for it (log.go:257-292).
IntactProofConvinces ==
    stage = "done" /\ Contains(position) /\ position.end <= LeafCount
        /\ given.hashes = Path(D, position.index, position.start, position.end)
        /\ given.entryHash = HashLeaf(D[position.index + 1]) /\ ~given.oddBytes =>
        result = MTH(D, position.start, position.end)
=============================================================================
