------------------------------ MODULE MCPolicy ------------------------------
(***************************************************************************)
(* Instances of the verifier.  With the "Policy" inputs every order of a   *)
(* small policy file's lines is read, and certificates with many kinds of  *)
(* cosignatures are judged under each; with the "Trust" inputs, policies   *)
(* with revoked ranges and trusted subtrees judge certificates at every    *)
(* serial number.                                                          *)
(***************************************************************************)
EXTENDS Acceptance

\* Two CAs and a witness.  A policy may call a group "w" before, or instead
\* of, naming the cosigner w.
MCID   == {"a", "b", "w"}
MCName == MCID \cup {"g", "h"}

MCCanonicalOrder == {<<"a", "b">>, <<"a", "w">>, <<"b", "w">>}

MCHash == {"right", "wrong"}

Cert(id, min, max, ok) ==
    [id |-> id, minSerial |-> min, maxSerial |-> max, wellFormed |-> ok]

Group(name, number, members) ==
    [name |-> name, number |-> number, members |-> members]

Revocation(ca, min, max) == [ca |-> ca, min |-> min, max |-> max]

Subtree(ca, start, end, hash) ==
    [ca |-> ca, log |-> 1, start |-> start, end |-> end, hash |-> hash]

Max == <<>>     \* the keyword "max"

-----------------------------------------------------------------------------

PolicyCAs == {Cert("a", 0, MaxSerial, TRUE), Cert("b", 0, MaxSerial, TRUE),
              Cert("a", 0, MaxSerial, FALSE)}

PolicyGroups == {Group("g", 1, <<"a", "w">>), Group("g", 2, <<"w", "h">>),
                 Group("h", 2, <<"b", "w", "w">>),
                 Group("w", 1, <<"a">>), Group("h", 3, <<"a", "w">>),
                 Group("g", 0, <<"a">>), Group("g", 1, <<"g", "w">>)}

-----------------------------------------------------------------------------

TrustCAs == {Cert("a", 5, 7, TRUE), Cert("a", 0, 6, TRUE)}

TrustRevocations == {Revocation("a", <<1, 2>>, <<1, 2>>)}

TrustSubtrees == {Subtree("a", 0, 2, "right"), Subtree("a", 0, 2, "wrong"),
                   Subtree("a", 1, 3, "right")}

MsgOf(id, ca, log, t, start, end, hash) ==
    [cosigner |-> id, ca |-> ca, log |-> log, timestamp |-> t,
     start |-> start, end |-> end, hash |-> hash]

\* Signatures by a, by w and by a key that is not a cosigner's, over the
\* subtree [0,2) of a's log 1 or something close to it.
Sig(label, key, m) == [cosignerID |-> label, key |-> key, message |-> m]

ASigs == {Sig("a", "a", MsgOf("a", "a", 1, 0, 0, 2, "right")),
          Sig("a", "a", MsgOf("a", "a", 1, 1, 0, 2, "right")),
          Sig("a", "a", MsgOf("a", "a", 0, 0, 0, 2, "right")),
          Sig("a", "b", MsgOf("a", "a", 1, 0, 0, 2, "right"))}

WSigs == {Sig("w", "w", MsgOf("w", "a", 1, 0, 0, 2, "right")),
          Sig("w", "a", MsgOf("a", "a", 1, 0, 0, 2, "right"))}

BothSign == <<Sig("a", "a", MsgOf("a", "a", 1, 0, 0, 2, "right")),
              Sig("w", "w", MsgOf("w", "a", 1, 0, 0, 2, "right"))>>

\* Also out of order and twice.
PolicySignatures ==
    {<<>>} \cup {<<s>> : s \in ASigs \cup WSigs}
           \cup {<<s, BothSign[2]>> : s \in ASigs} \cup {<<BothSign[1], t>> : t \in WSigs}
           \cup {<<BothSign[2], BothSign[1]>>, <<BothSign[1], BothSign[1]>>}

Leaf(issuer, serial, start, end, hash, wf, fits, sigs) ==
    [issuer |-> issuer, serial |-> serial, start |-> start, end |-> end,
     hash |-> hash, wellFormed |-> wf, proofFits |-> fits, signatures |-> sigs]

PolicyCertificates ==
    {Leaf("a", 5, 0, 2, "right", TRUE, TRUE, sigs) : sigs \in PolicySignatures}

TrustCertificates ==
    {Leaf("a", s, 0, 2, h, TRUE, TRUE, BothSign) : s \in 0..7, h \in MCHash}
    \cup {Leaf("a", 5, 0, 2, "right", wf, fits, BothSign) : wf, fits \in BOOLEAN}
    \cup {Leaf("a", s, 1, 3, "right", TRUE, TRUE, BothSign) : s \in 4..7}
    \cup {Leaf("a", s, 2, 3, "right", TRUE, TRUE, BothSign) : s \in 4..7}
    \cup {Leaf("b", 5, 0, 2, "right", TRUE, TRUE, BothSign)}
=============================================================================
