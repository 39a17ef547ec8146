------------------------------- MODULE Formats -------------------------------
(***************************************************************************)
(* Certificates and CA certificates of one draft version, written for some *)
(* request and read as those of another version or the same.               *)
(***************************************************************************)
EXTENDS Encoding

CONSTANTS
    Requests,       \* the certificates that may be asked for
    Compared,       \* those whose log entries are compared with each other
    CosignerAlgs    \* the algorithms that the CA's cosigner may have

\* What a configuration has.  The entry extensions have a length of two bytes.
EntryConfig ==
    [null : BOOLEAN, subject : Seq(Nat), publicKey : Seq(Nat),
     mtcEntryExtensions : {x \in Seq(Nat) : Len(x) < Place[2]},
     base : [validity : Seq(Nat), keyUsage : 0..511, extKeyUsage : Seq(Nat),
             dnsNames : Seq(Nat), isCA : {<<>>, <<TRUE>>, <<FALSE>>}, maxPathLen : Seq(Nat)]]

ASSUME FormatAssumption ==
    /\ Compared \subseteq Requests
    /\ \A r \in Requests :
          /\ r.version \in DraftVersion /\ r.issuer \in Seq(Byte) /\ String(r.issuer).valid
          /\ r.serial \in Nat /\ r.unused \in Nat /\ r.entry \in EntryConfig
          /\ r.proof.start \in Nat /\ r.proof.end \in Nat
          /\ r.proof.inclusionProof \in Seq(Nat)
          /\ r.proof.signatures \in Seq([cosignerID : Seq(Nat), signature : Seq(Nat)])

VARIABLES
    asked,      \* what is asked for
    cert,       \* the certificate written for it, as x509 parses it
    caCert,     \* the CA certificates, by the algorithm of the CA's cosigner
    reader,     \* the version they are read as
    proof,      \* the certificate's proof in that version
    ca          \* the CAs in that version

formatVars == <<asked, cert, caCert, reader, proof, ca>>

\* A key of an algorithm.
Spki(alg, key) ==
    Element(SEQUENCE, Element(SEQUENCE, ObjectIdentifier(alg)) \o Element(BIT_STRING, <<0, key>>))

NoOverride == [overrideSignatureAlgorithm |-> <<>>, overrideTBSSignatureAlgorithm |-> <<>>]

\* Not written or read yet.
Nothing == [ok |-> FALSE, yet |-> FALSE]

\* What generate writes for the request, when it has an entry for it.
Issued(r) == ~r.entry.null /\ LogEntry(r.version, r.issuer, r.entry).ok

ProofOf(r) ==
    [entryExts |-> r.entry.mtcEntryExtensions, start |-> r.proof.start, end |-> r.proof.end,
     inclusionProof |-> r.proof.inclusionProof, signatures |-> r.proof.signatures]

CertificateOf(r) ==
    Certificate(r.version, r.issuer, r.serial, r.entry, NoOverride, r.unused, ProofOf(r))

CACertificateOf(r, alg) ==
    CACertificate(r.version, r.issuer, [sigAlg |-> alg, spki |-> Spki(alg, 1)],
                  [base |-> r.entry.base, minSerial |-> 1, maxSerial |-> r.serial,
                   overrideOID |-> <<>>, overrideValue |-> <<>>])

FormatInit ==
    /\ asked \in Requests /\ reader = Nothing
    /\ cert = Nothing /\ caCert = [alg \in CosignerAlgs |-> Nothing]
    /\ proof = Nothing /\ ca = [alg \in CosignerAlgs |-> Nothing]

Write ==
    /\ cert = Nothing /\ Issued(asked)
    /\ cert' = ParseCertificate(CertificateOf(asked))
    /\ caCert' = [alg \in CosignerAlgs |-> ParseCertificate(CACertificateOf(asked, alg))]
    /\ UNCHANGED <<asked, reader, proof, ca>>

ReadAs(v) ==
    /\ cert.ok /\ reader = Nothing /\ reader' = [ok |-> TRUE, version |-> v]
    /\ proof' = parseMTCProof(v, cert)
    /\ ca' = [alg \in CosignerAlgs |-> IF v >= Plants04 THEN ReadCA(v, caCert[alg]) ELSE Nothing]
    /\ UNCHANGED <<asked, cert, caCert>>

FormatNext == Write \/ \E v \in DraftVersion : ReadAs(v)

FormatSpec == FormatInit /\ [][FormatNext]_formatVars

-----------------------------------------------------------------------------

\* The entry that the verifier puts together from a certificate, without the
\* serial number and with the key's hash in place of the key, is byte for byte
\* the one that the CA put in its log, for every version that it verifies and
\* plants-04 (encode.go:347-386, verify_proof.go:181-217).
IssuedEntryIsReconstructed ==
    cert # Nothing /\ asked.version >= Plants04 =>
        /\ cert.ok
        /\ EntryOf(cert, asked.entry.mtcEntryExtensions)
             = LogEntry(asked.version, asked.issuer, asked.entry).value

\* The TBSCertificate without its serial number.
Unserialed(tbs) ==
    LET v == IF tbs[1] = CONTEXT_0 THEN 2 + tbs[2] ELSE 0
    IN  SubSeq(tbs, 1, v) \o SubSeq(tbs, v + 4, Len(tbs))

\* The same certificate as an X.509 v1 one.
WithoutVersion(c) == [c EXCEPT !.tbs = SubSeq(@, 3 + @[2], Len(@))]

\* What the relying party hashes for every certificate, and what it stands for.
Readings ==
    LET Latest == {r \in Compared : r.version = Plants07 /\ Issued(r)}
        Certs  == {ParseCertificate(CertificateOf(r)) : r \in Latest}
        Exts   == {r.entry.mtcEntryExtensions : r \in Requests}
    IN  {<<EntryOf(c, x), Unserialed(c.tbs), x>> :
            c \in Certs \cup {WithoutVersion(c) : c \in Certs}, x \in Exts}

\* A log entry stands for one certificate: two certificates with the same
\* entry differ in nothing but the serial number (verify_proof.go:181-217).
EntryDeterminesCertificate ==
    LET x == asked.entry.mtcEntryExtensions
    IN  cert.ok /\ reader = Nothing /\ asked.version = Plants07 =>
            \A r \in Readings :
                r[1] = EntryOf(cert, x) => r[2] = Unserialed(cert.tbs) /\ r[3] = x

\* A CA certificate is read with its own version only, and then as it was
\* written: ID, algorithm, key and serial bounds (encode.go:247-297, 506-546;
\* policy.go:83-196).
CACertificatesDoNotMix ==
    reader.ok /\ HasCACertificate(asked.version) /\ reader.version >= Plants04 =>
        \A alg \in CosignerAlgs :
            /\ ca[alg].ok <=> reader.version = asked.version /\ alg \in SigAlgs
            /\ ca[alg].ok => ca[alg] =
                 [ok |-> TRUE, id |-> asked.issuer,
                  sigAlg |-> ObjectIdentifier(alg), spki |-> Spki(alg, 1), minSerial |-> 1,
                  maxSerial |-> IF reader.version >= Plants05 THEN asked.serial ELSE MaxUint64]
=============================================================================
