------------------------------ MODULE EndToEnd ------------------------------
(****************************************************************************)
(* `generate` and `verify` together: a CA certificate and a certificate are *)
(* issued, a relying party reads the CA certificate and a policy file, and  *)
(* is shown the certificate.                                                *)
(****************************************************************************)
EXTENDS Issuance, Acceptance

CONSTANTS CAConfigs, NoCACertificate

ASSUME CAConfigAssumption ==
    CAConfigs \subseteq [min : [log : LogNumber, index : Nat],
                         max : [log : LogNumber, index : Nat], override : BOOLEAN]

\* config.Version is one for the CA certificate, which there is from plants-04
\* on, and for the certificates; `verify` itself takes the drafts after that one
\* (verify.go:244-247).  The other CA certificates are other CAs'.
ASSUME GenerateAssumption ==
    /\ \A r \in Requests : r.plants04
    /\ \A ca \in CACertificates : ca.id # CA

\* compareCosignerIDs is a strict total order.
ASSUME CanonicalOrderAssumption ==
    /\ \A a, b \in ID : a # b <=> <<a, b>> \in CanonicalOrder \/ <<b, a>> \in CanonicalOrder
    /\ \A a, b, c \in ID :
          <<a, b>> \in CanonicalOrder /\ <<b, c>> \in CanonicalOrder
          => <<a, c>> \in CanonicalOrder

VARIABLES
    caConfig,   \* config.CACert
    caCert      \* the CA certificate written

caVars == <<caConfig, caCert>>

EndToEndInit ==
    /\ IssuanceInit /\ VerifyInit
    /\ caConfig \in CAConfigs /\ caCert = NoCACertificate

-----------------------------------------------------------------------------

\* CreateCACertificate comes first; without it `generate` ends.
CreateCACertificate ==
    /\ caCert = NoCACertificate /\ BoundsAreValid(caConfig.min, caConfig.max)
    /\ caCert' = CACertificateOf(caConfig.min, caConfig.max, caConfig.override)
    /\ UNCHANGED <<caConfig, issuanceVars, vars>>

CreateCertificate ==
    caCert # NoCACertificate /\ IssuanceNext /\ UNCHANGED <<caVars, vars>>

LoadCACertificate ==
    issuing = "done" /\ AddCA(caCert) /\ UNCHANGED <<caVars, issuanceVars, verifyVars>>

ReadPolicyFile ==
    issuing = "done" /\ PolicyNext /\ UNCHANGED <<caVars, issuanceVars, verifyVars>>

\* A proof with a bit flipped evaluates to the hash of no subtree.
Damaged(hash) == HashNode(NoHash, hash)

ASSUME DamagedAssumption == \A hash \in Hash : Damaged(hash) \notin Hash

\* What the verifier may be shown.
Readable ==
    [issuer : {CA}, serial : Nat, start : Nat, end : Nat,
     hash : Hash \cup {Damaged(hash) : hash \in Hash},
     wellFormed : BOOLEAN, proofFits : {TRUE},
     signatures : Seq([cosignerID : ID, key : ID, message : SubtreeMessage])]

ASSUME ReadableAssumption == NoCertificate \notin Readable

\* The certificate as the verifier reads it.  The last bit of its signature
\* is of no concern to it, but a BIT STRING with an unused bit is.
ReadBack(c) ==
    [issuer |-> c.issuer, serial |-> c.serial, start |-> c.start, end |-> c.end,
     hash |-> LET hash == subtree(c.start, c.end)
              IN  IF c.damaged THEN Damaged(hash) ELSE hash,
     wellFormed |-> ~c.unusedBit /\ ~c.override, proofFits |-> TRUE,
     signatures |-> [i \in DOMAIN c.cosignatures |->
        LET sig == c.cosignatures[i]
        IN  [cosignerID |-> sig.cosignerID, key |-> sig.key, message |-> sig.message]]]

Present ==
    /\ issuing = "done" /\ outcomes = {}
    /\ VerifyMTCProof(ReadBack(issued)) /\ UNCHANGED <<caVars, issuanceVars>>

JudgePresented ==
    /\ EvaluateGroup \/ CheckRequirements \/ ReportResult \/ Exit
    /\ UNCHANGED <<caVars, issuanceVars>>

EndToEndNext ==
    \/ CreateCACertificate \/ CreateCertificate
    \/ LoadCACertificate \/ ReadPolicyFile
    \/ Present \/ JudgePresented

EndToEndSpec ==
    EndToEndInit /\ [][EndToEndNext]_<<caVars, issuanceVars, vars>>

-----------------------------------------------------------------------------

Precedes(p, q) == p.log < q.log \/ (p.log = q.log /\ p.index <= q.index)

\* Nothing in the request is there to make the certificate unreadable.
MeantToBeRead ==
    LET sigs == issued.cosignatures
    IN  /\ ~request.unusedBit /\ ~request.override /\ ~request.bitFlip
        /\ \A i, j \in DOMAIN sigs : i # j => sigs[i].cosignerID # sigs[j].cosignerID
        /\ request.dontSort => InCanonicalOrder(sigs)

\* The CA stands by this entry of this log.
WithinBounds ==
    LET position == [log |-> LogNum, index |-> request.index]
    IN  LogNum # 0 /\ Precedes(caConfig.min, position) /\ Precedes(position, caConfig.max)

\* The ranges the policy file revokes come after those of the bounds.
RevokedByPolicyFile ==
    \E i \in Len(OutsideRanges(caCert)) + 1 .. Len(cas[CA].revokedRanges) :
        LET r == cas[CA].revokedRanges[i]
        IN  r.min <= issued.serial /\ issued.serial <= r.max

\* The cosigners asked, and those of the extra cosignatures that are right.
AskedToSign ==
    {request.cosigners[i] : i \in DOMAIN request.cosigners} \cup
    {e.cosignerID : e \in {x \in {request.extra[i] : i \in DOMAIN request.extra} :
                             CosignsRequest(x, x.cosignerID, request)}}

\* What the relying party was told about the certificate's subtree first.
TrustedHash == FindTrustedSubtree(cas[CA], issued)

RequirementsMet ==
    /\ CA \in AskedToSign
    /\ \E X \in SUBSET Name :
          /\ IsMeaning(X, AskedToSign \cap CosignerIDs, GroupDefs)
          /\ RequiredOf(CA) \cup RequiredOfAll \subseteq X

Due ==
    /\ CA \in DOMAIN cas /\ MeantToBeRead /\ WithinBounds /\ ~RevokedByPolicyFile
    /\ IF TrustedHash = {} THEN RequirementsMet
       ELSE TrustedHash = {subtree(request.start, request.end)}

Accepted == verdict \in {"trusted", "cosigned"}

\* What `generate` issues `verify` accepts: a certificate whose request has no
\* test setting that spoils it, of an entry within the CA certificate's serial
\* bounds and not revoked, whose subtree the relying party knows or whose
\* cosigners meet its policy (encode.go:406-504, verify_proof.go:166-281).
DueIsAccepted == verdict # "none" /\ Due => Accepted

\* And only that: an entry out of bounds or revoked, a damaged proof, an unused
\* bit, a cosigner given twice or out of order, or an unmet requirement is
\* refused, whatever else is right (encode.go:467-500, verify_proof.go:166-281).
AcceptedIsDue == Accepted => Due
=============================================================================
