------------------------------ MODULE Subtrees ------------------------------
(****************************************************************************)
(* The subtree arithmetic of demo/log.go: which half-open intervals of leaf *)
(* indices are subtrees of a Merkle tree, and how two subtrees cover an     *)
(* arbitrary interval.  The code computes on uint64; here a word has W bits *)
(* and every operation that can wrap is reduced modulo 2^W, so that the     *)
(* boundary cases of the 64-bit code occur at small W.                      *)
(****************************************************************************)
EXTENDS Integers

CONSTANT W                      \* bits of a word; 64 in the code

ASSUME WordWidthAssumption == W \in Nat \ {0}

\* 2^k, by its equations.
Pow2[k \in Nat] == IF k = 0 THEN 1 ELSE 2 * Pow2[k - 1]

Word == 0 .. Pow2[W] - 1

\* bits.Len64(x), also written 64 - bits.LeadingZeros64(x).
BitLen(x) == CHOOSE n \in 0..W : x < Pow2[n] /\ \A m \in 0..W : x < Pow2[m] => n <= m

\* uint64(1) << k, zero when the bit is shifted out.
ShiftedOne(k) == Pow2[k] % Pow2[W]

\* x - y with the wrap-around of unsigned subtraction.
Minus(x, y) == (x - y + Pow2[W]) % Pow2[W]

\* x & mask and x &^ mask, for a mask of the form 2^k - 1.
LowBits(x, mask) == x % (mask + 1)
ClearLowBits(x, mask) == x - LowBits(x, mask)

\* bits.Len64(x ^ y): how many low bits have to go for x and y to agree.
DivergeLen(x, y) ==
    CHOOSE n \in 0..W : /\ x \div Pow2[n] = y \div Pow2[n]
                        /\ \A m \in 0..W : x \div Pow2[m] = y \div Pow2[m] => n <= m

(***************************************************************************)
(* Mutants, for the tests of the properties: a subtree's size rounded up   *)
(* without the "- 1", and the left subtree enlarged to the whole height of *)
(* the split.                                                              *)
(***************************************************************************)
IsValidSubtreeOfWideCeil(start, end) ==
    \/ start = end
    \/ /\ start < end
       /\ LET ceil == ShiftedOne(BitLen(end - start))
          IN  LowBits(start, Minus(ceil, 1)) = 0

SubtreesForIntervalTooLarge(start, end) ==
    IF end - start <= 1
    THEN [start1 |-> start, end1 |-> end, start2 |-> end, end2 |-> end]
    ELSE LET last == end - 1
             split == DivergeLen(start, last) - 1
             mask == Minus(ShiftedOne(split), 1)
             mid == ClearLowBits(last, mask)
         IN  [start1 |-> ClearLowBits(start, mask),
              end1 |-> mid, start2 |-> mid, end2 |-> end]

-----------------------------------------------------------------------------

\* start is a multiple of the least power of two >= end - start.
IsValidSubtree(start, end) ==
    \/ start = end
    \/ /\ start < end
       /\ LET ceil == ShiftedOne(BitLen(end - start - 1))
          IN  LowBits(start, Minus(ceil, 1)) = 0

\* The two subtrees covering [start, end), for start <= end (the code returns
\* an error otherwise).
SubtreesForInterval(start, end) ==
    IF end - start <= 1
    THEN [start1 |-> start, end1 |-> end, start2 |-> end, end2 |-> end]
    ELSE LET last == end - 1
             split == DivergeLen(start, last) - 1
             mask == Minus(ShiftedOne(split), 1)
             mid == ClearLowBits(last, mask)
             leftSplit == BitLen(mask - LowBits(start, mask))
         IN  [start1 |-> ClearLowBits(start, Minus(ShiftedOne(leftSplit), 1)),
              end1 |-> mid, start2 |-> mid, end2 |-> end]
=============================================================================
