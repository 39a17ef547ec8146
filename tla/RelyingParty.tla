---------------------------- MODULE RelyingParty ----------------------------
(****************************************************************************)
(* What `verify` promises, without indices, evaluation order or lists: a    *)
(* policy is a set of declarations about names, and a certificate is judged *)
(* in one step by what those declarations mean.                             *)
(****************************************************************************)
EXTENDS Certificates, Quorums

CONSTANTS Name, CACertificates, GroupLines, RevokeLines, SubtreeLines,
          Certificates, NoCertificate

VARIABLES
    phase, caIDs, cosignerIDs,
    groupDefs,      \* the group lines
    required,       \* pairs <<ca, name>>
    requiredOfAll,  \* names
    revoked,        \* pairs <<ca, serial>>
    trusted,        \* trusted subtrees, one per position
    cert, verdict, outcomes

policy == <<caIDs, cosignerIDs, groupDefs, required, requiredOfAll, revoked, trusted>>
judgement == <<cert, verdict, outcomes>>
vars == <<phase, policy, judgement>>

Init ==
    /\ phase = "caCerts" /\ caIDs = {} /\ cosignerIDs = {} /\ groupDefs = {}
    /\ required = {} /\ requiredOfAll = {} /\ revoked = {} /\ trusted = {}
    /\ cert = NoCertificate /\ verdict = "none" /\ outcomes = {}

Defined == cosignerIDs \cup {g.name : g \in groupDefs}

\* Any line may turn out to be wrong, and then nothing is verified.
Abort == phase \in {"caCerts", "policyFile"} /\ phase' = "failed"
         /\ UNCHANGED <<policy, judgement>>

Proceed ==
    /\ \/ phase = "caCerts" /\ phase' = "policyFile"
       \/ phase = "policyFile" /\ phase' = "ready"
    /\ UNCHANGED <<policy, judgement>>

TrustCA(ca) ==
    /\ phase = "caCerts" /\ ca.id \notin Defined
    /\ caIDs' = caIDs \cup {ca.id}
    /\ cosignerIDs' = cosignerIDs \cup {ca.id}
    /\ revoked' = revoked \cup
         {<<ca.id, s>> : s \in {s \in Serial : s < ca.minSerial \/ s > ca.maxSerial}}
    /\ UNCHANGED <<phase, groupDefs, required, requiredOfAll, trusted, judgement>>

NameCosigner(id) ==
    /\ phase = "policyFile" /\ id \notin Defined
    /\ cosignerIDs' = cosignerIDs \cup {id}
    /\ UNCHANGED <<phase, caIDs, groupDefs, required, requiredOfAll, revoked,
                   trusted, judgement>>

DefineGroup(line) ==
    /\ phase = "policyFile" /\ line.name \notin Defined
    /\ \A i \in DOMAIN line.members : line.members[i] \in Defined
    /\ line.number \in 1 .. Len(line.members)
    /\ groupDefs' = groupDefs \cup {line}
    /\ UNCHANGED <<phase, caIDs, cosignerIDs, required, requiredOfAll, revoked,
                   trusted, judgement>>

Require(ca, n) ==
    /\ phase = "policyFile" /\ n \in Defined /\ ca \in caIDs
    /\ required' = required \cup {<<ca, n>>}
    /\ UNCHANGED <<phase, caIDs, cosignerIDs, groupDefs, requiredOfAll, revoked,
                   trusted, judgement>>

RequireOfAll(n) ==
    /\ phase = "policyFile" /\ n \in Defined
    /\ requiredOfAll' = requiredOfAll \cup {n}
    /\ UNCHANGED <<phase, caIDs, cosignerIDs, groupDefs, required, revoked,
                   trusted, judgement>>

Revoke(line) ==
    /\ phase = "policyFile" /\ line.ca \in caIDs
    /\ revoked' = revoked \cup
         {<<line.ca, s>> : s \in parseSerial(line.min) .. parseSerial(line.max)}
    /\ UNCHANGED <<phase, caIDs, cosignerIDs, groupDefs, required, requiredOfAll,
                   trusted, judgement>>

SamePosition(s, t) ==
    s.ca = t.ca /\ s.log = t.log /\ s.start = t.start /\ s.end = t.end

\* The first line about a position stands.
Trust(line) ==
    /\ phase = "policyFile" /\ line.ca \in caIDs
    /\ trusted' = IF \E t \in trusted : SamePosition(t, line)
                  THEN trusted ELSE trusted \cup {line}
    /\ UNCHANGED <<phase, caIDs, cosignerIDs, groupDefs, required, requiredOfAll,
                   revoked, judgement>>

-----------------------------------------------------------------------------

Signers(c) ==
    {id \in cosignerIDs :
        \E i \in DOMAIN c.signatures : Endorses(c.signatures[i], id, c)}

Meaning(signers) == CHOOSE X \in SUBSET Name : IsMeaning(X, signers, groupDefs)

Requirements(ca) ==
    {ca} \cup requiredOfAll \cup {n \in Name : <<ca, n>> \in required}

Eligible(c) ==
    /\ c.issuer \in caIDs /\ c.wellFormed /\ InCanonicalOrder(c.signatures)
    /\ <<c.issuer, c.serial>> \notin revoked
    /\ LogOf(c.serial) # 0 /\ ProofEvaluates(c)

TrustedAt(c) ==
    {t \in trusted : t.ca = c.issuer /\ t.log = LogOf(c.serial)
                     /\ t.start = c.start /\ t.end = c.end}

Verdict(c) ==
    CASE ~Eligible(c) -> "rejected"
      [] Eligible(c) /\ TrustedAt(c) # {} ->
            IF \E t \in TrustedAt(c) : t.hash = c.hash THEN "trusted" ELSE "rejected"
      [] Eligible(c) /\ TrustedAt(c) = {} ->
            IF Requirements(c.issuer) \subseteq Meaning(Signers(c))
            THEN "cosigned" ELSE "unsatisfied"

Judge(c) ==
    /\ phase = "ready" /\ cert = NoCertificate
    /\ cert' = c /\ verdict' = Verdict(c)
    /\ UNCHANGED <<phase, policy, outcomes>>

Report ==
    /\ verdict # "none"
    /\ outcomes' = outcomes \cup {verdict \in {"trusted", "cosigned"}}
    /\ cert' = NoCertificate /\ verdict' = "none"
    /\ UNCHANGED <<phase, policy>>

Exit ==
    /\ phase = "ready" /\ cert = NoCertificate
    /\ \/ phase' = "failed"
       \/ outcomes = {TRUE} /\ phase' = "passed"
    /\ UNCHANGED <<policy, judgement>>

Next ==
    \/ Abort \/ Proceed
    \/ \E ca \in CACertificates : TrustCA(ca)
    \/ \E id \in ID : NameCosigner(id)
    \/ \E line \in GroupLines : DefineGroup(line)
    \/ \E ca \in ID, n \in Name : Require(ca, n)
    \/ \E n \in Name : RequireOfAll(n)
    \/ \E line \in RevokeLines : Revoke(line)
    \/ \E line \in SubtreeLines : Trust(line)
    \/ \E c \in Certificates : Judge(c)
    \/ Report \/ Exit

Spec == Init /\ [][Next]_vars
=============================================================================
