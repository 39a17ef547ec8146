------------------------------ MODULE Encoding ------------------------------
(***************************************************************************)
(* What the draft versions write and read (demo/encode.go, the parsers of  *)
(* demo/policy.go and demo/verify_proof.go): log entries, certificates, CA *)
(* certificates and proofs, as sequences of numbers.                       *)
(*                                                                         *)
(* A DER element is its tag, its length and its contents, a TLS vector the *)
(* bytes of its length and its contents.  An object identifier, an integer *)
(* of DER and a character are one number each, the arcs of an ID in a text *)
(* too.  A hash is the data it was computed from.                          *)
(***************************************************************************)
EXTENDS TrustAnchorIDs, SequencesExt

CONSTANTS
    MaxUint64,    \* the largest serial number; 2^64 - 1 in the code
    SigAlgs       \* the object identifiers of the signature algorithms

\* The draft versions, davidben-09 to plants-07, in order.
DraftVersion == 0..7
Davidben10 == 1
Plants02   == 3
Plants04   == 4
Plants05   == 5
Plants06   == 6
Plants07   == 7

BOOLEAN_TAG  == 1
INTEGER      == 2
BIT_STRING   == 3
OCTET_STRING == 4
OID          == 6
UTF8String   == 12
RELATIVE_OID == 13
SEQUENCE     == 48
SET          == 49
CONTEXT_0    == 160
CONTEXT_3    == 163

\* Object identifiers, by the names of encode.go.
oidKeyUsage                     == 1
oidSubjectAltName               == 2
oidBasicConstraints             == 3
oidExtKeyUsage                  == 4
oidMTCProofExperiment1          == 5
oidRDNATrustAnchorIDExperiment1 == 6
oidMTCCAExperiment              == 7
oidRDNATrustAnchorIDExperiment2 == 8
oidMTCCAWithSHA256Experiment    == 9
oidMTCCAWithSHA256              == 10
oidMTCProof                     == 11
oidRDNATrustAnchorID            == 12
oidAlgUnsigned                  == 13
oidRDNAUnsigned                 == 14
oidSHA256                       == 15

entryTypeNull    == 0
entryTypeTBSCert == 1

-----------------------------------------------------------------------------

Element(tag, contents) == <<tag, Len(contents)>> \o contents

\* What a byte is worth that k bytes follow.
Place[k \in Nat] == IF k = 0 THEN 1 ELSE 2 * Base * Place[k - 1]

BigEndian(width, n) == [i \in 1..width |-> (n \div Place[width - i]) % (2 * Base)]

Vector(width, contents) == BigEndian(width, Len(contents)) \o contents

Sha256(data) == data

\* The contents of the elements s begins with, if they have these tags, and
\* what follows them.
ReadElements(tags, s) ==
    LET after[i \in 0..Len(tags)] ==
            IF i = 0 THEN [ok |-> TRUE, parts |-> <<>>, rest |-> s]
            ELSE LET p == after[i - 1]
                     r == p.rest
                 IN  IF p.ok /\ Len(r) >= 2 /\ r[1] = tags[i] /\ r[2] \in 0 .. Len(r) - 2
                     THEN [ok |-> TRUE, parts |-> Append(p.parts, SubSeq(r, 3, 2 + r[2])),
                           rest |-> SubSeq(r, 3 + r[2], Len(r))]
                     ELSE Failed
    IN  after[Len(tags)]

\* The same for elements that have to be all there is.
ReadOnly(tags, s) ==
    LET r == ReadElements(tags, s)
    IN  IF r.ok /\ r.rest = <<>> THEN r ELSE Failed

ReadUint(width, s) ==
    LET number[i \in 0..width] == IF i = 0 THEN 0 ELSE number[i - 1] * 2 * Base + s[i]
    IN  IF Len(s) < width THEN Failed
        ELSE [ok |-> TRUE, value |-> number[width], rest |-> SubSeq(s, width + 1, Len(s))]

ReadVector(width, s) ==
    LET n == ReadUint(width, s)
    IN  IF n.ok /\ n.value <= Len(n.rest)
        THEN [ok |-> TRUE, value |-> SubSeq(n.rest, 1, n.value),
              rest |-> SubSeq(n.rest, n.value + 1, Len(n.rest))]
        ELSE Failed

\* One number or vector after the other: an element <<n, TRUE>> of fields is a
\* vector with a length of n bytes, <<n, FALSE>> a number of n bytes.
ReadFields(fields, s) ==
    LET read(f, rest) == IF f[2] THEN ReadVector(f[1], rest) ELSE ReadUint(f[1], rest)
        append(p, x)  == IF p.ok /\ x.ok
                         THEN [ok |-> TRUE, values |-> Append(p.values, x.value),
                               rest |-> x.rest]
                         ELSE Failed
        after[i \in 0..Len(fields)] ==
            IF i = 0 THEN [ok |-> TRUE, values |-> <<>>, rest |-> s]
            ELSE append(after[i - 1], read(fields[i], after[i - 1].rest))
    IN  after[Len(fields)]

\* The same fields, from here to the end of s.
ReadList(fields, s) ==
    LET from[i \in 1 .. Len(s) + 1] ==
            IF i > Len(s) THEN [ok |-> TRUE, list |-> <<>>]
            ELSE LET r    == ReadFields(fields, SubSeq(s, i, Len(s)))
                     next == from[Len(s) - Len(r.rest) + 1]
                 IN  IF r.ok /\ next.ok
                     THEN [ok |-> TRUE, list |-> <<r.values>> \o next.list]
                     ELSE Failed
    IN  from[1]

ObjectIdentifier(oid) == Element(OID, <<oid>>)
Integer(n)            == Element(INTEGER, <<n>>)
Optional(present, s)  == IF present THEN s ELSE <<>>

-----------------------------------------------------------------------------

addX509V3Version == Element(CONTEXT_0, Integer(2))

MTCProofSigAlg(v) ==
    Element(SEQUENCE, ObjectIdentifier(
        IF v >= Plants07 THEN oidMTCProof ELSE oidMTCProofExperiment1))

UnsignedSigAlg == Element(SEQUENCE, ObjectIdentifier(oidAlgUnsigned))

NameOf(attribute) == Element(SEQUENCE, Element(SET, Element(SEQUENCE, attribute)))

\* The attribute that names a CA.
NameOID(v) ==
    IF v >= Plants07 THEN oidRDNATrustAnchorID
    ELSE IF v >= Plants06 THEN oidRDNATrustAnchorIDExperiment2
    ELSE oidRDNATrustAnchorIDExperiment1

X509Name(v, id) ==
    NameOf(ObjectIdentifier(NameOID(v)) \o
           IF v >= Plants06 THEN Element(RELATIVE_OID, id)
                            ELSE Element(UTF8String, String(id).text))

UnsignedX509NamePlaceholder ==
    NameOf(ObjectIdentifier(oidRDNAUnsigned) \o Element(UTF8String, <<>>))

\* Mutant: the length is that of the whole bytes.
KeyUsageBitsOfWholeBytes(keyUsage) ==
    LET bits(lo) == FoldLeft(LAMBDA n, i : 2 * n + ((keyUsage \div 2^(lo + i)) % 2),
                             0, [i \in 1..8 |-> i - 1])
        bytes == <<bits(0)>> \o Optional(bits(8) # 0, <<bits(8)>>)
    IN  <<0>> \o bytes

\* The named bits of a key usage, the first one the most significant of the
\* first byte, without trailing zeros: the number of unused bits, one byte,
\* and a second one if a bit of it is set.
KeyUsageBits(keyUsage) ==
    LET bits(lo) == FoldLeft(LAMBDA n, i : 2 * n + ((keyUsage \div 2^(lo + i)) % 2),
                             0, [i \in 1..8 |-> i - 1])
        bytes  == <<bits(0)>> \o Optional(bits(8) # 0, <<bits(8)>>)
        length == CHOOSE l \in 0..16 : keyUsage < 2^l /\ (l > 0 => keyUsage >= 2^(l - 1))
    IN  <<(8 - (length % 8)) % 8>> \o bytes

\* Every extension is critical.
Extension(oid, value) ==
    Element(SEQUENCE, ObjectIdentifier(oid) \o Element(BOOLEAN_TAG, <<1>>)
                      \o Element(OCTET_STRING, value))

\* The extensions asked for by a CertConfigBase, in this order, and those in
\* `more`, if there is any.  isCA and maxPathLen may be absent (<<>>).
Extensions(base, more) ==
    LET exts ==
        Optional(base.keyUsage # 0,
            Extension(oidKeyUsage, Element(BIT_STRING, KeyUsageBits(base.keyUsage))))
        \o Optional(base.extKeyUsage # <<>>,
            Extension(oidExtKeyUsage, Element(SEQUENCE, base.extKeyUsage)))
        \o Optional(base.dnsNames # <<>>,
            Extension(oidSubjectAltName, Element(SEQUENCE, base.dnsNames)))
        \o Optional(base.isCA # <<>> \/ base.maxPathLen # <<>>,
            Extension(oidBasicConstraints, Element(SEQUENCE,
                Optional(base.isCA = <<TRUE>>, Element(BOOLEAN_TAG, <<1>>))
                \o Optional(base.maxPathLen # <<>>, Element(INTEGER, base.maxPathLen)))))
        \o more
    IN  Optional(exts # <<>>, Element(CONTEXT_3, Element(SEQUENCE, exts)))

Validity(base) == Element(SEQUENCE, base.validity)

-----------------------------------------------------------------------------

\* An EntryConfig's extensions in its log entry and in its proofs.
MTCEntryExtensions(v, exts) == Optional(v >= Plants04, Vector(2, exts))

NullEntry(v) == MTCEntryExtensions(v, <<>>) \o BigEndian(2, entryTypeNull)

\* MarshalTBSCertificateLogEntry
LogEntry(v, issuer, entry) ==
    LET spki == ReadOnly(<<SEQUENCE>>, entry.publicKey)
        alg  == ReadElements(<<SEQUENCE>>, spki.parts[1])
        contents ==
            addX509V3Version \o X509Name(v, issuer) \o Validity(entry.base)
            \o Element(SEQUENCE, entry.subject)
            \o Optional(v >= Plants02, Element(SEQUENCE, alg.parts[1]))
            \o Element(OCTET_STRING, Sha256(entry.publicKey))
            \o Extensions(entry.base, <<>>)
    IN  IF entry.null THEN [ok |-> TRUE, value |-> NullEntry(v)]
        ELSE IF v >= Plants02 /\ (~spki.ok \/ ~alg.ok) THEN Failed
        ELSE [ok |-> TRUE, value |->
                MTCEntryExtensions(v, entry.mtcEntryExtensions)
                \o BigEndian(2, entryTypeTBSCert)
                \o IF v >= Davidben10 THEN contents ELSE Element(SEQUENCE, contents)]

\* Either algorithm may be overridden with anything.
SigAlg(v, override) == IF override # <<>> THEN override ELSE MTCProofSigAlg(v)

\* AddTBSCertificate
TBSCertificate(v, issuer, serial, entry, certConfig) ==
    Element(SEQUENCE,
        addX509V3Version \o Integer(serial)
        \o SigAlg(v, certConfig.overrideTBSSignatureAlgorithm)
        \o X509Name(v, issuer) \o Validity(entry.base)
        \o Element(SEQUENCE, entry.subject) \o entry.publicKey
        \o Extensions(entry.base, <<>>))

appendMTCSignature(sigs, c) ==
    sigs \o Vector(1, c.cosignerID) \o Vector(2, c.signature)

MTCProofSignatures(v, sigs) == Vector(IF v >= Plants06 THEN 3 ELSE 2, sigs)

\* The MTCProof that CreateCertificate writes.
MTCProof(v, proof) ==
    LET width == IF v >= Plants04 THEN 6 ELSE 8
    IN  MTCEntryExtensions(v, proof.entryExts)
        \o BigEndian(width, proof.start) \o BigEndian(width, proof.end)
        \o Vector(2, proof.inclusionProof)
        \o MTCProofSignatures(v, AppendAll(appendMTCSignature, proof.signatures))

\* The certificate around the TBSCertificate and the proof; unused is the
\* number of bits of the proof's last byte that are left out.
Certificate(v, issuer, serial, entry, certConfig, unused, proof) ==
    Element(SEQUENCE,
        TBSCertificate(v, issuer, serial, entry, certConfig)
        \o SigAlg(v, certConfig.overrideSignatureAlgorithm)
        \o Element(BIT_STRING, <<unused>> \o MTCProof(v, proof)))

-----------------------------------------------------------------------------

\* The CA extension's OID is the version's, if it is not overridden.
CAExtensionOID(v) ==
    IF v <= Plants05 THEN oidMTCCAExperiment
    ELSE IF v <= Plants06 THEN oidMTCCAWithSHA256Experiment
    ELSE oidMTCCAWithSHA256

\* Mutant: every version writes both bounds.
CAExtensionValueWithBounds(v, sigAlg, minSerial, maxSerial) ==
    Element(SEQUENCE,
        Optional(v <= Plants05, Element(SEQUENCE, ObjectIdentifier(oidSHA256)))
        \o Element(SEQUENCE, ObjectIdentifier(sigAlg))
        \o Integer(minSerial) \o Integer(maxSerial))

CAExtensionValue(v, sigAlg, minSerial, maxSerial) ==
    Element(SEQUENCE,
        Optional(v <= Plants05, Element(SEQUENCE, ObjectIdentifier(oidSHA256)))
        \o Element(SEQUENCE, ObjectIdentifier(sigAlg))
        \o Integer(minSerial) \o Optional(v >= Plants05, Integer(maxSerial)))

CAExtension(v, cosigner, ca) ==
    Extension(
        IF ca.overrideOID # <<>> THEN ca.overrideOID[1] ELSE CAExtensionOID(v),
        IF ca.overrideValue # <<>> THEN ca.overrideValue
        ELSE CAExtensionValue(v, cosigner.sigAlg, ca.minSerial, ca.maxSerial))

\* CreateCACertificate, once the bounds are packed.
CACertificate(v, id, cosigner, ca) ==
    Element(SEQUENCE,
        Element(SEQUENCE,
            addX509V3Version \o Integer(1) \o UnsignedSigAlg
            \o UnsignedX509NamePlaceholder \o Validity(ca.base) \o X509Name(v, id)
            \o cosigner.spki
            \o Extensions(ca.base, CAExtension(v, cosigner, ca)))
        \o UnsignedSigAlg \o Element(BIT_STRING, <<0>>))

\* Whether `generate` writes a CA certificate.
HasCACertificate(v) == v >= Plants04

-----------------------------------------------------------------------------

\* x509.ParseCertificate: the parts that are used.  The two signature
\* algorithms have to agree.
ParseCertificate(der) ==
    LET cert    == ReadOnly(<<SEQUENCE>>, der)
        outer   == ReadOnly(<<SEQUENCE, SEQUENCE, BIT_STRING>>, cert.parts[1])
        tbs     == outer.parts[1]
        version == Len(tbs) > 0 /\ tbs[1] = CONTEXT_0
        fields  == ReadElements(Optional(version, <<CONTEXT_0>>) \o
                      <<INTEGER, SEQUENCE, SEQUENCE, SEQUENCE, SEQUENCE, SEQUENCE>>, tbs)
        part(i) == fields.parts[IF version THEN i + 1 ELSE i]
        exts    == ReadOnly(<<CONTEXT_3>>, fields.rest)
    IN  IF ~(/\ cert.ok /\ outer.ok /\ fields.ok /\ part(2) = outer.parts[2]
             /\ fields.rest = <<>> \/ exts.ok)
        THEN Failed
        ELSE [ok |-> TRUE, tbs |-> tbs, sigAlg |-> Element(SEQUENCE, outer.parts[2]),
              signature |-> outer.parts[3], issuer |-> Element(SEQUENCE, part(3)),
              subject |-> Element(SEQUENCE, part(5)), spki |-> Element(SEQUENCE, part(6)),
              extensions |-> IF exts.ok THEN ReadOnly(<<SEQUENCE>>, exts.parts[1]).parts[1]
                                        ELSE <<>>]

\* caIDFromX509Name: the only attribute of the name, with this version's OID.
caIDFromX509Name(v, name) ==
    LET oid   == IF v <= Plants05 THEN oidRDNATrustAnchorIDExperiment1
                 ELSE IF v <= Plants06 THEN oidRDNATrustAnchorIDExperiment2
                 ELSE oidRDNATrustAnchorID
        dn    == ReadOnly(<<SEQUENCE>>, name)
        rdn   == ReadOnly(<<SET>>, dn.parts[1])
        attr  == ReadOnly(<<SEQUENCE>>, rdn.parts[1])
        value == ReadOnly(<<OID, IF v <= Plants05 THEN UTF8String ELSE RELATIVE_OID>>,
                          attr.parts[1])
    IN  IF dn.ok /\ rdn.ok /\ attr.ok /\ value.ok /\ value.parts[1] = <<oid>>
        THEN IF v <= Plants05 THEN TrustAnchorIDFromString(value.parts[2])
             ELSE [ok |-> TRUE, value |-> value.parts[2]]
        ELSE Failed

\* The value of the first of the extensions with this OID.
FindExtension(oid, exts) ==
    LET from[i \in 1 .. Len(exts) + 1] ==
            LET ext  == ReadElements(<<SEQUENCE>>, SubSeq(exts, i, Len(exts)))
                body == ReadOnly(<<OID, BOOLEAN_TAG, OCTET_STRING>>, ext.parts[1])
            IN  IF i > Len(exts) THEN Failed
                ELSE IF body.parts[1] = <<oid>> THEN [ok |-> TRUE, value |-> body.parts[3]]
                ELSE from[Len(exts) - Len(ext.rest) + 1]
    IN  from[1]

\* The entry extensions, a type and a value each, are strictly increasing in
\* type.
EntryExtensionsParse(exts) ==
    LET r == ReadList(<<<<2, FALSE>>, <<2, TRUE>>>>, exts)
    IN  r.ok /\ \A i \in 1 .. Len(r.list) - 1 : r.list[i][1] < r.list[i + 1][1]

\* The cosignatures, each with an ID, in strictly canonical order.
ReadSignatures(sigs) ==
    LET r == ReadList(<<<<1, TRUE>>, <<2, TRUE>>>>, sigs)
    IN  IF /\ r.ok /\ \A i \in DOMAIN r.list : r.list[i][1] # <<>>
           /\ \A i \in 1 .. Len(r.list) - 1 : Precedes(r.list[i][1], r.list[i + 1][1])
        THEN [ok |-> TRUE, list |-> [i \in DOMAIN r.list |->
                [cosignerID |-> r.list[i][1], signature |-> r.list[i][2]]]]
        ELSE Failed

\* Mutant: the width of the old drafts.
readMTCProofSignaturesNarrow(v, s) == ReadVector(2, s)

readMTCProofSignatures(v, s) == ReadVector(IF v >= Plants06 THEN 3 ELSE 2, s)

\* parseMTCProof; a signature that is no whole number of bytes is refused.
parseMTCProof(v, cert) ==
    LET exts  == Optional(v >= Plants04, <<<<2, TRUE>>>>)
        width == IF v < Plants04 THEN 8 ELSE 6
        r     == ReadFields(exts \o <<<<width, FALSE>>, <<width, FALSE>>, <<2, TRUE>>>>,
                            Tail(cert.signature))
        value(i)  == r.values[Len(exts) + i]
        entryExts == IF exts = <<>> THEN <<>> ELSE r.values[1]
        sigs  == readMTCProofSignatures(v, r.rest)
        list  == ReadSignatures(sigs.value)
    IN  IF /\ cert.sigAlg = MTCProofSigAlg(v) /\ Head(cert.signature) = 0
           /\ r.ok /\ sigs.ok /\ sigs.rest = <<>>
           /\ EntryExtensionsParse(entryExts) /\ list.ok
        THEN [ok |-> TRUE,
              proof |-> [entryExts |-> entryExts, start |-> value(1), end |-> value(2),
                         inclusionProof |-> value(3), signatures |-> list.list]]
        ELSE Failed

-----------------------------------------------------------------------------

\* Mutant: the key's algorithm is left out.
EntryOfWithoutAlgorithm(cert, entryExts) ==
    LET version == IF cert.tbs[1] = CONTEXT_0 THEN <<CONTEXT_0>> ELSE <<>>
        fields  == ReadElements(version \o
                      <<INTEGER, SEQUENCE, SEQUENCE, SEQUENCE, SEQUENCE, SEQUENCE>>, cert.tbs)
        part(i) == fields.parts[Len(version) + i]
    IN  Vector(2, entryExts) \o BigEndian(2, entryTypeTBSCert)
        \o Optional(version # <<>>, Element(CONTEXT_0, fields.parts[1]))
        \o Element(SEQUENCE, part(3)) \o Element(SEQUENCE, part(4))
        \o Element(SEQUENCE, part(5)) \o Element(OCTET_STRING, Sha256(cert.spki))
        \o fields.rest

\* Mutant: what follows the key is left out.
EntryOfWithoutRest(cert, entryExts) ==
    LET version == IF cert.tbs[1] = CONTEXT_0 THEN <<CONTEXT_0>> ELSE <<>>
        fields  == ReadElements(version \o
                      <<INTEGER, SEQUENCE, SEQUENCE, SEQUENCE, SEQUENCE, SEQUENCE>>, cert.tbs)
        part(i) == fields.parts[Len(version) + i]
        alg     == ReadElements(<<SEQUENCE>>, part(6))
    IN  Vector(2, entryExts) \o BigEndian(2, entryTypeTBSCert)
        \o Optional(version # <<>>, Element(CONTEXT_0, fields.parts[1]))
        \o Element(SEQUENCE, part(3)) \o Element(SEQUENCE, part(4))
        \o Element(SEQUENCE, part(5)) \o Element(SEQUENCE, alg.parts[1])
        \o Element(OCTET_STRING, Sha256(cert.spki))

\* The log entry that VerifyMTCProof hashes, from the certificate's parts, or
\* nothing when the TBSCertificate's algorithm or key do not parse.
EntryOf(cert, entryExts) ==
    LET version == IF cert.tbs[1] = CONTEXT_0 THEN <<CONTEXT_0>> ELSE <<>>
        fields  == ReadElements(version \o
                      <<INTEGER, SEQUENCE, SEQUENCE, SEQUENCE, SEQUENCE, SEQUENCE>>, cert.tbs)
        part(i) == fields.parts[Len(version) + i]
        alg     == ReadElements(<<SEQUENCE>>, part(6))
    IN  IF ~alg.ok THEN <<>>
        ELSE Vector(2, entryExts) \o BigEndian(2, entryTypeTBSCert)
             \o Optional(version # <<>>, Element(CONTEXT_0, fields.parts[1]))
             \o Element(SEQUENCE, part(3)) \o Element(SEQUENCE, part(4))
             \o Element(SEQUENCE, part(5)) \o Element(SEQUENCE, alg.parts[1])
             \o Element(OCTET_STRING, Sha256(cert.spki)) \o fields.rest

\* Policy.AddCA, up to the registration: the CA's ID from the subject, the
\* signature algorithm and the bounds from this version's extension.
ReadCA(v, cert) ==
    LET id     == caIDFromX509Name(v, cert.subject)
        oid    == IF v <= Plants05 THEN oidMTCCAExperiment
                  ELSE IF v <= Plants06 THEN oidMTCCAWithSHA256Experiment
                  ELSE oidMTCCAWithSHA256
        value  == FindExtension(oid, cert.extensions)
        seq    == ReadOnly(<<SEQUENCE>>, value.value)
        fields == ReadOnly(Optional(v <= Plants05, <<SEQUENCE>>) \o <<SEQUENCE, INTEGER>>
                           \o Optional(v >= Plants05, <<INTEGER>>), seq.parts[1])
        part(i) == fields.parts[IF v <= Plants05 THEN i + 1 ELSE i]
    IN  IF /\ id.ok /\ value.ok /\ seq.ok /\ fields.ok
           /\ v <= Plants05 => fields.parts[1] \in
                {ObjectIdentifier(oidSHA256), ObjectIdentifier(oidSHA256) \o <<5, 0>>}
           /\ part(1) \in {ObjectIdentifier(a) : a \in SigAlgs}
        THEN [ok |-> TRUE, id |-> id.value, sigAlg |-> part(1), spki |-> cert.spki,
              minSerial |-> part(2)[1],
              maxSerial |-> IF v >= Plants05 THEN part(3)[1] ELSE MaxUint64]
        ELSE Failed
=============================================================================
