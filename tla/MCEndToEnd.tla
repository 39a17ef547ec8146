----------------------------- MODULE MCEndToEnd -----------------------------
(*****************************************************************************)
(* A log of four entries, CA certificates whose serial bounds end at, before *)
(* and after its entries, certificates with and without the witness's        *)
(* cosignature or with each test setting, and every small policy.            *)
(*****************************************************************************)
EXTENDS EndToEnd

MCID   == {"a", "w", "x"}
MCName == MCID \cup {"g"}

MCCanonicalOrder == {<<"a", "w">>, <<"a", "x">>, <<"w", "x">>}

MCLog == <<0, 1, 2, 3>>

MCLastBits == [id \in MCID |-> {0}]

MCHash == {SubtreeHash(tree, start, end) : start \in 0..3, end \in 1..4} \ {NoHash}

Bounds(log, index) == [log |-> log, index |-> index]

MCCAConfigs ==
    {[min |-> Bounds(0, 0), max |-> Bounds(1, 3), override |-> FALSE],
     [min |-> Bounds(1, 2), max |-> Bounds(1, 2), override |-> FALSE],
     [min |-> Bounds(0, 0), max |-> Bounds(1, 1), override |-> TRUE],
     [min |-> Bounds(0, 0), max |-> Bounds(1, 8), override |-> FALSE]}

Extra(id, key, start, end) ==
    [cosignerID |-> id, key |-> key, lastBit |-> 0,
     message |-> cosignedMessage(id, CA, LogNum, 0,
                    [start |-> start, end |-> end, hash |-> subtree(start, end)])]

Plain(index, start, end, ids, extra) ==
    [index |-> index, start |-> start, end |-> end, cosigners |-> ids, extra |-> extra,
     bitFlip |-> FALSE, unusedBit |-> FALSE, dontSort |-> FALSE, override |-> FALSE,
     plants04 |-> TRUE]

Both == Plain(2, 2, 4, <<"w", "a">>, <<>>)

MCRequests ==
    {Both, [Both EXCEPT !.bitFlip = TRUE], [Both EXCEPT !.unusedBit = TRUE],
     [Both EXCEPT !.dontSort = TRUE], [Both EXCEPT !.override = TRUE]}
    \cup {Plain(index, 2, 4, <<>>, <<>>) : index \in 1..3}
    \cup {Plain(1, 0, 2, <<"a">>, extra) :
              extra \in {<<Extra("w", "w", 0, 2)>>, <<Extra("w", "w", 2, 4)>>,
                         <<Extra("x", "w", 0, 2)>>, <<Extra("a", "a", 0, 2)>>}}
    \cup {Plain(3, 0, 4, <<"w", "a">>, <<>>)}

MCGroups == {[name |-> "g", number |-> 1, members |-> <<"w", "x">>],
             [name |-> "g", number |-> 2, members |-> <<"w", "x">>]}

\* Entry 2 alone, and the first two of them, up to a plain serial number.
MCRevokeLines ==
    {[ca |-> "a", min |-> <<1, 2>>, max |-> <<1, 2>>],
     [ca |-> "a", min |-> <<0>>, max |-> <<9>>]}

\* The landmark's subtree as it is printed, and something else.
MCSubtreeLines ==
    {[ca |-> "a", log |-> 1, start |-> 2, end |-> 4, hash |-> hash] :
        hash \in {subtree(2, 4), subtree(0, 2)}}
=============================================================================
