----------------------------- MODULE Acceptance -----------------------------
(****************************************************************************)
(* The properties of VerifyProof: a policy read back by name, what it       *)
(* requires of an accepted certificate, and the refinement of RelyingParty. *)
(****************************************************************************)
EXTENDS VerifyProof, Quorums

\* The policy by name.
CosignerIDs == {cosigners[i] : i \in DOMAIN cosigners}

GroupDefinition(g) ==
    [name |-> g.name, number |-> g.number,
     members |-> [i \in DOMAIN g.members |-> NameForIndex(g.members[i])]]

GroupDefs == {GroupDefinition(groups[i]) : i \in DOMAIN groups}

RequiredOfAll ==
    {NameForIndex(requirementsForAllCAs[i]) : i \in DOMAIN requirementsForAllCAs}

RequiredOf(ca) ==
    {NameForIndex(cas[ca].requirements[i]) : i \in DOMAIN cas[ca].requirements}

\* The cosigners whose valid signature over exactly c's subtree is in c.
Signers(c) ==
    {id \in CosignerIDs :
        \E i \in DOMAIN c.signatures : Endorses(c.signatures[i], id, c)}

-----------------------------------------------------------------------------

VerifyTypeOK ==
    /\ PolicyTypeOK
    /\ cert \in Certificates \cup {NoCertificate}
    /\ verdict \in {"none", "rejected", "trusted", "cosigned", "unsatisfied"}
    /\ cosignersSatisfied \subseteq DOMAIN cosigners
    /\ groupsSatisfied \subseteq DOMAIN groups
    /\ next \in 1 .. Len(groups) + 1
    /\ outcomes \subseteq BOOLEAN

(****************************************************************************)
(* The invariant of the loop of EvaluateGroups: while the groups are        *)
(* evaluated, and after, the cosigners marked are those with a valid        *)
(* signature and a group before `next` is marked exactly when enough of its *)
(* members are.  (verify_proof.go:244-280, policy.go:332-347)               *)
(****************************************************************************)
Counting == cert # NoCertificate /\ verdict \in {"none", "cosigned", "unsatisfied"}

CountingInv ==
    Counting =>
        /\ cert.issuer \in DOMAIN cas /\ ProofEvaluates(cert)
        /\ cosignersSatisfied = VerifiedCosigners(cert)
        /\ groupsSatisfied = {k \in 1 .. next - 1 :
              Cardinality(SatisfiedMembers(groups[k])) >= groups[k].number}
        /\ verdict # "none" => /\ next = Len(groups) + 1
                               /\ verdict = "cosigned" <=> PolicySatisfied

JudgementInv ==
    /\ cert # NoCertificate => phase = "ready"
    /\ verdict # "none" => cert # NoCertificate
    /\ CountingInv

\* A certificate accepted for its cosignatures carries a valid subtree
\* cosignature of its CA, and the policy's groups, read by name, are satisfied
\* by the cosigners that signed exactly its subtree, far enough to meet every
\* requirement on its CA and on all CAs, wherever in the file the groups and
\* requirements were declared (verify_proof.go:244-280, policy.go:332-347).
CosignedMeansPolicyMet ==
    verdict = "cosigned" =>
        \E X \in SUBSET Name :
            /\ IsMeaning(X, Signers(cert), GroupDefs)
            /\ cert.issuer \in Signers(cert)
            /\ RequiredOf(cert.issuer) \cup RequiredOfAll \subseteq X

\* A rejection for lack of cosignatures is never wrong either: some
\* requirement is not met under the policy's meaning (verify_proof.go:261-279).
UnsatisfiedMeansPolicyNotMet ==
    verdict = "unsatisfied" =>
        \E X \in SUBSET Name :
            /\ IsMeaning(X, Signers(cert), GroupDefs)
            /\ ~({cert.issuer} \cup RequiredOf(cert.issuer) \cup RequiredOfAll \subseteq X)

\* The policy has one meaning whoever signs: the group equations have exactly
\* one solution, so that the order in which EvaluateGroups visits the groups
\* cannot matter (policy.go:337).
PolicyHasOneMeaning ==
    phase = "ready" /\ cert = NoCertificate =>
        \A S \in SUBSET CosignerIDs :
            Cardinality({X \in SUBSET (CosignerIDs \cup {g.name : g \in GroupDefs}) :
                            IsMeaning(X, S, GroupDefs)}) = 1

-----------------------------------------------------------------------------

\* RelyingParty's state: the policy's declarations in the place of its tables,
\* and a certificate only once it is judged.
RequiredPairs == UNION {{<<ca, n>> : n \in RequiredOf(ca)} : ca \in DOMAIN cas}

RevokedSerials ==
    {p \in (DOMAIN cas) \X Serial :
        \E i \in DOMAIN cas[p[1]].revokedRanges :
            LET r == cas[p[1]].revokedRanges[i]
            IN  r.min <= p[2] /\ p[2] <= r.max}

PositionOf(t) == <<t.log, t.start, t.end>>

\* The first line about a position is the one that counts.
FirstAtPosition(lines) ==
    {i \in DOMAIN lines : \A j \in 1 .. i - 1 : PositionOf(lines[j]) # PositionOf(lines[i])}

SubtreeLine(ca, t) ==
    [ca |-> ca, log |-> t.log, start |-> t.start, end |-> t.end, hash |-> t.hash]

TrustedLines ==
    UNION {{SubtreeLine(ca, cas[ca].trustedSubtrees[i]) :
               i \in FirstAtPosition(cas[ca].trustedSubtrees)} : ca \in DOMAIN cas}

Judged == IF verdict = "none" THEN NoCertificate ELSE cert

RP == INSTANCE RelyingParty WITH
    caIDs         <- DOMAIN cas,
    cosignerIDs   <- CosignerIDs,
    groupDefs     <- GroupDefs,
    required      <- RequiredPairs,
    requiredOfAll <- RequiredOfAll,
    revoked       <- RevokedSerials,
    trusted       <- TrustedLines,
    cert          <- Judged

\* `verify` implements RelyingParty: resolving names when a line is read,
\* evaluating groups one by one and stopping at the first trusted subtree
\* amounts to judging by what the policy file declares.
ImplementsRelyingParty == RP!Spec
=============================================================================
