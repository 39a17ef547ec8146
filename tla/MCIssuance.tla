----------------------------- MODULE MCIssuance -----------------------------
(*****************************************************************************)
(* Certificates asked of a log of four entries, the first of them null: with *)
(* cosigners in every order, extra cosignatures that sort before, between    *)
(* and after them, every test setting, subtrees of and beside the log, and   *)
(* an index one too large for a serial number.                               *)
(*****************************************************************************)
EXTENDS Issuance

MCID == {"a", "c", "w", "x"}

MCCanonicalOrder ==
    {<<"a", "c">>, <<"a", "w">>, <<"a", "x">>, <<"c", "w">>, <<"c", "x">>, <<"w", "x">>}

MCLog == <<0, 1, 2, 3>>

\* a's signatures always end in a zero bit, w's always in a one.
MCLastBits == [id \in MCID |-> CASE id = "a" -> {0}
                                 [] id = "w" -> {1}
                                 [] OTHER -> {0, 1}]

MCHash ==
    {SubtreeHash(tree, start, end) : start \in 0..3, end \in 1..5}
    \ {NoHash}

Extra(id, bit) ==
    [cosignerID |-> id, key |-> "x", lastBit |-> bit,
     message |-> cosignedMessage("x", CA, LogNum, 0,
                    [start |-> 0, end |-> 1, hash |-> subtree(0, 1)])]

Cosigners == {<<>>, <<"c">>, <<"w", "a">>, <<"a", "c">>, <<"c", "a">>, <<"c", "w", "a">>,
              <<"c", "c">>}

Extras == {<<>>, <<Extra("x", 1)>>, <<Extra("x", 0), Extra("a", 1)>>}

MCRequests ==
    {[index |-> i, start |-> 0, end |-> 2, cosigners |-> ids, extra |-> extra,
      bitFlip |-> FALSE, unusedBit |-> unused, dontSort |-> dontSort, override |-> FALSE,
      plants04 |-> plants04] :
        i \in {1}, ids \in Cosigners, extra \in Extras,
        unused, dontSort, plants04 \in BOOLEAN}
    \cup
    {[index |-> i, start |-> start, end |-> end, cosigners |-> <<"c">>, extra |-> <<>>,
      bitFlip |-> flip, unusedBit |-> FALSE, dontSort |-> FALSE, override |-> TRUE,
      plants04 |-> plants04] :
        i \in 0..4, start \in 0..3, end \in 1..5, flip, plants04 \in BOOLEAN}
=============================================================================
