------------------------------- MODULE MCLog -------------------------------
(***************************************************************************)
(* The log of the checks on the Merkle tree: LeafCount entries, no two of  *)
(* them alike, and their static tree.                                      *)
(***************************************************************************)
EXTENDS MerkleReference

CONSTANT LeafCount

ASSUME LeafCountAssumption == LeafCount \in Word

D == [i \in 1..LeafCount |-> i]

MCTree == NewStaticMerkleTree(D)
=============================================================================
