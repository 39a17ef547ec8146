--------------------------- MODULE InclusionProof ---------------------------
(****************************************************************************)
(* An inclusion proof from the log to the verifier: the loop of             *)
(* SubtreeInclusionProof (demo/log.go), which walks up the tree from the    *)
(* entry, and the loop of EvaluateSubtreeInclusionProof, which is told only *)
(* the entry's position and consumes the proof hash by hash.                *)
(*                                                                          *)
(* In between the proof travels in a certificate: the certificate may be    *)
(* for another entry or subtree, a bit of the proof may be flipped          *)
(* (BitFlipProof), and the proof may be cut short or extended.              *)
(****************************************************************************)
EXTENDS MerkleTree

CONSTANTS
    tree,            \* the log's tree
    Positions,       \* the (entry, subtree) pairs asked about
    Deliveries(_),   \* the proofs that may arrive when one was sent
    EntryHashes      \* the entry hashes the verifier may start from

ASSUME PositionAssumption ==
    Positions \subseteq [index : Nat, start : Nat, end : Nat]

VARIABLES
    stage,      \* which loop is running
    position,   \* the position proved, then the one evaluated for
    node,       \* start, index and last, shifted to the current level
    level,
    proof,      \* the hashes of the proof: appended, then consumed
    given,      \* what the verifier received: hashes, odd bytes, entry hash
    fn, sn, r,  \* the variables of the evaluation
    result      \* the hash returned, NoHash for an error

vars == <<stage, position, node, level, proof, given, fn, sn, r, result>>

Root == [start |-> 0, index |-> 0, last |-> 0]
Nothing == [hashes |-> <<>>, oddBytes |-> FALSE, entryHash |-> NoHash]

Init ==
    /\ stage = "asked" /\ position \in Positions
    /\ node = Root /\ level = 0 /\ proof = <<>> /\ given = Nothing
    /\ fn = 0 /\ sn = 0 /\ r = NoHash /\ result = NoHash

-----------------------------------------------------------------------------

Contains(p) == IsValidSubtree(p.start, p.end) /\ p.start <= p.index /\ p.index < p.end

\* The checks of SubtreeInclusionProof.
StartProof ==
    /\ stage = "asked"
    /\ IF Contains(position) /\ position.end <= Size(tree)
       THEN /\ stage' = "proving"
            /\ node' = [start |-> position.start, index |-> position.index,
                        last |-> position.end - 1]
       ELSE stage' = "done" /\ UNCHANGED node
    /\ UNCHANGED <<position, level, proof, given, fn, sn, r, result>>

\* index ^ 1
Neighbor(index) == IF index % 2 = 0 THEN index + 1 ELSE index - 1

\* Mutant: a node on the right edge is taken to be complete.
NeighborHashInTree(neighbor, last) ==
    IF neighbor <= last THEN <<FullSubtreeHashByLevel(tree, level, neighbor)>> ELSE <<>>

\* A neighbor on the right edge may be incomplete, one beyond it is missing.
NeighborHash(neighbor, last) ==
    CASE neighbor < last -> <<FullSubtreeHashByLevel(tree, level, neighbor)>>
      [] neighbor = last -> <<SubtreeHash(tree, last * Pow2[level] % Pow2[W], position.end)>>
      [] neighbor > last -> <<>>

\* One iteration of the loop of SubtreeInclusionProof.
ProveLevel ==
    /\ stage = "proving" /\ node.start < node.last
    /\ proof' = proof \o NeighborHash(Neighbor(node.index), node.last)
    /\ level' = level + 1
    /\ node' = [start |-> node.start \div 2, index |-> node.index \div 2,
                last |-> node.last \div 2]
    /\ UNCHANGED <<stage, position, given, fn, sn, r, result>>

\* The proof is sent, and something is received.
Deliver ==
    /\ stage = "proving" /\ node.start >= node.last
    /\ stage' = "received" /\ position' \in Positions
    /\ \E hashes \in Deliveries(proof), oddBytes \in BOOLEAN, entryHash \in EntryHashes :
          /\ given' = [hashes |-> hashes, oddBytes |-> oddBytes, entryHash |-> entryHash]
          /\ proof' = hashes
    /\ node' = Root /\ level' = 0
    /\ UNCHANGED <<fn, sn, r, result>>

-----------------------------------------------------------------------------

StartEvaluation ==
    /\ stage = "received"
    /\ IF Contains(position)
       THEN /\ stage' = "reading"
            /\ fn' = position.index - position.start
            /\ sn' = position.end - position.start - 1
            /\ r' = given.entryHash
       ELSE stage' = "done" /\ UNCHANGED <<fn, sn, r>>
    /\ UNCHANGED <<position, node, level, proof, given, result>>

\* Mutant: the right edge is not told from a left child.
OnRightByBit == fn % 2 = 1

OnRight == fn % 2 = 1 \/ fn = sn

\* Mutant: the proof may go on when the root has been reached.
ReadHashPastRoot ==
    /\ stage = "reading" /\ proof # <<>>
    /\ proof' = Tail(proof)
    /\ IF OnRight
       THEN r' = HashNode(Head(proof), r) /\ stage' = "shifting" /\ UNCHANGED <<fn, sn>>
       ELSE /\ r' = HashNode(r, Head(proof))
            /\ fn' = fn \div 2 /\ sn' = sn \div 2 /\ UNCHANGED stage
    /\ UNCHANGED <<position, node, level, given, result>>

\* One iteration of the outer loop, up to the inner one.  With sn = 0 the
\* proof is too long.
ReadHash ==
    /\ stage = "reading" /\ proof # <<>>
    /\ \/ /\ sn = 0
          /\ stage' = "done" /\ UNCHANGED <<proof, fn, sn, r>>
       \/ /\ sn # 0 /\ OnRight
          /\ proof' = Tail(proof) /\ r' = HashNode(Head(proof), r)
          /\ stage' = "shifting" /\ UNCHANGED <<fn, sn>>
       \/ /\ sn # 0 /\ ~OnRight
          /\ proof' = Tail(proof) /\ r' = HashNode(r, Head(proof))
          /\ fn' = fn \div 2 /\ sn' = sn \div 2 /\ UNCHANGED stage
    /\ UNCHANGED <<position, node, level, given, result>>

\* The inner loop shifts while fn is even; the shift after it is the last.
Shift ==
    /\ stage = "shifting"
    /\ stage' = IF fn % 2 = 0 THEN "shifting" ELSE "reading"
    /\ fn' = fn \div 2 /\ sn' = sn \div 2
    /\ UNCHANGED <<position, node, level, proof, given, r, result>>

\* Mutant: bytes that are no whole hash are left unread.
FinishWithOddBytes ==
    /\ stage = "reading" /\ proof = <<>>
    /\ stage' = "done"
    /\ result' = IF sn # 0 THEN NoHash ELSE r
    /\ UNCHANGED <<position, node, level, proof, given, fn, sn, r>>

\* No whole hash is left.
Finish ==
    /\ stage = "reading" /\ proof = <<>>
    /\ stage' = "done"
    /\ result' = IF given.oddBytes \/ sn # 0 THEN NoHash ELSE r
    /\ UNCHANGED <<position, node, level, proof, given, fn, sn, r>>

-----------------------------------------------------------------------------

Next ==
    \/ StartProof \/ ProveLevel
    \/ Deliver
    \/ StartEvaluation \/ ReadHash \/ Shift \/ Finish

Spec == Init /\ [][Next]_vars

\* Both functions run to their end once called.
FairSpec == Spec /\ WF_vars(Next)

-----------------------------------------------------------------------------

\* While the verifier evaluates, the entry's path stays within the subtree, and
\* the inner loop `for fn&1 == 0`, which has no bound of its own, is entered
\* only below the root and so with a bit left for it to find
\* (log.go:266-288).
PathIsInSubtree ==
    /\ stage \in {"reading", "shifting"} => fn \in Nat /\ sn \in Nat /\ fn <= sn
    /\ stage = "shifting" => fn # 0 /\ OnRight

\* Whatever arrives, the evaluation ends with a hash or an error
\* (log.go:266-292).
Terminates == <>(stage = "done")
=============================================================================
