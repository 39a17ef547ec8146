----------------------------- MODULE VerifyProof -----------------------------
(*****************************************************************************)
(* `verify` (demo/verify.go, demo/verify_proof.go): once the policy is read, *)
(* each certificate on the command line goes through VerifyMTCProof.  The    *)
(* checks up to the signatures are one step, EvaluateGroups takes one step   *)
(* per group, and the requirements are judged in a last step.                *)
(*****************************************************************************)
EXTENDS Policy

CONSTANTS
    Certificates,   \* the certificates that may be submitted
    NoCertificate   \* no certificate is being verified

ASSUME CertificateAssumption ==
    /\ Certificates \subseteq Certificate
    /\ NoCertificate \notin Certificate

VARIABLES
    cert,               \* the certificate under verification
    verdict,            \* what VerifyMTCProof returned last
    cosignersSatisfied, \* indices of the cosigners whose signature verified
    groupsSatisfied,    \* indices of the groups found satisfied so far
    next,               \* the group EvaluateGroups looks at next
    outcomes            \* whether the certificates so far were accepted

verifyVars == <<cert, verdict, cosignersSatisfied, groupsSatisfied, next, outcomes>>
vars == <<policyVars, verifyVars>>

VerifyInit ==
    /\ Init
    /\ cert = NoCertificate /\ verdict = "none" /\ outcomes = {}
    /\ cosignersSatisfied = {} /\ groupsSatisfied = {} /\ next = 1

-----------------------------------------------------------------------------

\* Mutant: the upper bound of a range is left out of it.
RevokedBelowMax(c) ==
    \E i \in DOMAIN cas[c.issuer].revokedRanges :
        LET r == cas[c.issuer].revokedRanges[i]
        IN  r.min <= c.serial /\ c.serial < r.max

Revoked(c) ==
    \E i \in DOMAIN cas[c.issuer].revokedRanges :
        LET r == cas[c.issuer].revokedRanges[i]
        IN  r.min <= c.serial /\ c.serial <= r.max

\* The checks that come before the cosigners are considered at all.
Eligible(c) ==
    /\ c.issuer \in DOMAIN cas
    /\ c.wellFormed /\ InCanonicalOrder(c.signatures)
    /\ ~Revoked(c)
    /\ LogOf(c.serial) # 0
    /\ ProofEvaluates(c)

\* The trusted subtrees of ca at c's position, by their place in the policy.
Matches(ca, c) ==
    {i \in DOMAIN ca.trustedSubtrees :
        /\ ca.trustedSubtrees[i].log = LogOf(c.serial)
        /\ ca.trustedSubtrees[i].start = c.start
        /\ ca.trustedSubtrees[i].end = c.end}

\* Mutant: the hash is looked for in every trusted subtree, not the first.
FindTrustedSubtreeAnyHash(ca, c) ==
    LET hits == Matches(ca, c)
        same == {i \in hits : ca.trustedSubtrees[i].hash = c.hash}
    IN  IF hits = {} THEN {}
        ELSE {ca.trustedSubtrees[CHOOSE i \in hits : same # {} => i \in same].hash}

\* FindTrustedSubtree: the hash of the first match, if there is one.
FindTrustedSubtree(ca, c) ==
    LET hits == Matches(ca, c)
    IN  {ca.trustedSubtrees[i].hash : i \in {i \in hits : \A j \in hits : i <= j}}

\* Mutant: the name of a group passes for the cosigner of the same index.
VerifiedCosignersOrGroups(c) ==
    {k \in DOMAIN cosigners :
        \E i \in DOMAIN c.signatures :
            LET s == c.signatures[i]
            IN  /\ s.cosignerID \in DOMAIN names
                /\ names[s.cosignerID].index = k
                /\ Verify(cosigners[k], c, s)}

\* The cosigners marked by the loop over the signatures: unrecognized ones
\* and names of groups are skipped, invalid signatures only reported.
VerifiedCosigners(c) ==
    {k \in DOMAIN cosigners :
        \E i \in DOMAIN c.signatures :
            LET s == c.signatures[i]
            IN  /\ s.cosignerID \in DOMAIN names
                /\ names[s.cosignerID] = [isGroup |-> FALSE, index |-> k]
                /\ Verify(cosigners[k], c, s)}

\* PolicyResult.Satisfied.
Satisfied(idx) ==
    IF idx.isGroup THEN idx.index \in groupsSatisfied
                   ELSE idx.index \in cosignersSatisfied

-----------------------------------------------------------------------------

\* Checks up to the signatures, in one step: either they decide, or the
\* cosigners that signed are marked and the groups come next.
VerifyMTCProof(c) ==
    /\ phase = "ready" /\ cert = NoCertificate
    /\ cert' = c /\ groupsSatisfied' = {} /\ next' = 1
    /\ LET found == FindTrustedSubtree(cas[c.issuer], c)
       IN  \/ /\ ~Eligible(c)
              /\ verdict' = "rejected" /\ cosignersSatisfied' = {}
           \/ /\ Eligible(c) /\ found # {}
              /\ verdict' = IF c.hash \in found THEN "trusted" ELSE "rejected"
              /\ cosignersSatisfied' = {}
           \/ /\ Eligible(c) /\ found = {}
              /\ verdict' = "none" /\ cosignersSatisfied' = VerifiedCosigners(c)
    /\ UNCHANGED <<policyVars, outcomes>>

SatisfiedMembers(g) == {i \in DOMAIN g.members : Satisfied(g.members[i])}

\* Mutant: a quorum has to be exceeded.
EvaluateGroupOffByOne ==
    /\ cert # NoCertificate /\ verdict = "none" /\ next <= Len(groups)
    /\ groupsSatisfied' =
          groupsSatisfied \cup
          {k \in {next} : Cardinality(SatisfiedMembers(groups[k])) > groups[k].number}
    /\ next' = next + 1
    /\ UNCHANGED <<policyVars, cert, verdict, cosignersSatisfied, outcomes>>

\* One iteration of the loop of EvaluateGroups.
EvaluateGroup ==
    /\ cert # NoCertificate /\ verdict = "none" /\ next <= Len(groups)
    /\ groupsSatisfied' =
          groupsSatisfied \cup
          {k \in {next} : Cardinality(SatisfiedMembers(groups[k])) >= groups[k].number}
    /\ next' = next + 1
    /\ UNCHANGED <<policyVars, cert, verdict, cosignersSatisfied, outcomes>>

\* The CA's own cosigner, the CA's requirements and those of all CAs.
PolicySatisfied ==
    LET ca == cas[cert.issuer]
    IN  /\ Satisfied([isGroup |-> FALSE, index |-> ca.cosignerIndex])
        /\ \A i \in DOMAIN ca.requirements : Satisfied(ca.requirements[i])
        /\ \A i \in DOMAIN requirementsForAllCAs : Satisfied(requirementsForAllCAs[i])

CheckRequirements ==
    /\ cert # NoCertificate /\ verdict = "none" /\ next > Len(groups)
    /\ verdict' = IF PolicySatisfied THEN "cosigned" ELSE "unsatisfied"
    /\ UNCHANGED <<policyVars, cert, cosignersSatisfied, groupsSatisfied, next, outcomes>>

\* `verify` reports the result and goes on to the next certificate.
ReportResult ==
    /\ verdict # "none"
    /\ outcomes' = outcomes \cup {verdict \in {"trusted", "cosigned"}}
    /\ cert' = NoCertificate /\ verdict' = "none"
    /\ cosignersSatisfied' = {} /\ groupsSatisfied' = {} /\ next' = 1
    /\ UNCHANGED policyVars

\* No certificates are left, or a file is missing, malformed or empty.
Exit ==
    /\ phase = "ready" /\ cert = NoCertificate
    /\ \/ phase' = "failed"
       \/ outcomes = {TRUE} /\ phase' = "passed"
    /\ UNCHANGED <<tables, verifyVars>>

VerifyNext ==
    \/ \E c \in Certificates : VerifyMTCProof(c)
    \/ EvaluateGroup
    \/ CheckRequirements
    \/ ReportResult
    \/ Exit

Next == (PolicyNext /\ UNCHANGED verifyVars) \/ VerifyNext

Spec == VerifyInit /\ [][Next]_vars
=============================================================================
