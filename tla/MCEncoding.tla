----------------------------- MODULE MCEncoding -----------------------------
(***************************************************************************)
(* One draft version's certificates and CA certificates read as another's: *)
(* entries, keys, extensions, proofs and cosignature lists that differ in  *)
(* little, malformed ones among them, and every key usage.                 *)
(***************************************************************************)
EXTENDS Formats

Base0 == [validity |-> <<>>, keyUsage |-> 0, extKeyUsage |-> <<>>, dnsNames |-> <<>>,
          isCA |-> <<>>, maxPathLen |-> <<>>]

Bases == {Base0, [Base0 EXCEPT !.validity = <<40>>],
          [Base0 EXCEPT !.extKeyUsage = ObjectIdentifier(50), !.isCA = <<FALSE>>],
          [Base0 EXCEPT !.dnsNames = <<41>>, !.isCA = <<TRUE>>, !.maxPathLen = <<0>>]}

Entry0 == [null |-> FALSE, base |-> Base0, subject |-> <<>>, publicKey |-> Spki(30, 1),
           mtcEntryExtensions |-> <<>>]

Entries ==
    {[Entry0 EXCEPT !.base = b] : b \in Bases}
    \cup {[Entry0 EXCEPT !.publicKey = k] : k \in {Spki(31, 1), Spki(30, 2), <<7>>}}
    \cup {[Entry0 EXCEPT !.subject = <<42>>], [Entry0 EXCEPT !.null = TRUE]}

\* Entry extensions: none, two in order, two of one type, and no list.
ExtensionLists == {<<>>, <<0, 1, 0, 0, 0, 2, 0, 1, 5>>, <<0, 1, 0, 0, 0, 1, 0, 0>>, <<5>>}

Cosignature(id, s) == [cosignerID |-> id, signature |-> <<s>>]

SignatureLists ==
    LET a == Cosignature(<<2>>, 1)
        b == Cosignature(<<1>>, 2)
        c == Cosignature(<<4, 0>>, 3)
    IN  {<<>>, <<a>>, <<b, a, c>>, <<a, b>>, <<c, a>>, <<a, a>>}

Proof0 == [start |-> 2, end |-> 4, inclusionProof |-> <<3>>, signatures |-> <<>>]

Proofs ==
    {[Proof0 EXCEPT !.signatures = s, !.inclusionProof = p] :
        s \in SignatureLists, p \in {<<>>, <<0, 1>>}}

Request(v, issuer, serial, entry, p, unused) ==
    [version |-> v, issuer |-> issuer, serial |-> serial, entry |-> entry,
     proof |-> p, unused |-> unused]

MCRequests ==
    {Request(v, <<5, 1>>, 9, e, Proof0, 0) : v \in DraftVersion, e \in Entries}
    \cup {Request(v, i, s, Entry0, Proof0, 0) :
            v \in DraftVersion, i \in {<<1>>, <<5, 1>>}, s \in {1, 9}}
    \cup {Request(v, <<1>>, 9, [Entry0 EXCEPT !.mtcEntryExtensions = x], p, u) :
            v \in DraftVersion, x \in ExtensionLists, p \in Proofs, u \in {0, 1}}
    \cup {Request(7, <<1>>, 9, [Entry0 EXCEPT !.base.keyUsage = k], Proof0, 0) : k \in 0..511}

\* One key usage is like another.
MCCompared == {r \in MCRequests : r.entry.base.keyUsage < 3}

-----------------------------------------------------------------------------

EntryExtensionsAreProper == asked.entry.mtcEntryExtensions \in
                                {<<>>, <<0, 1, 0, 0, 0, 2, 0, 1, 5>>}

SignaturesAreCanonical ==
    LET s == asked.proof.signatures
    IN  \A i, j \in DOMAIN s : i < j => Precedes(s[i].cosignerID, s[j].cosignerID)

\* A proof is read back as it was written by a reader of the same version,
\* provided that it is whole, its extensions are in order and its cosigners
\* too; and by another version as nothing else, although only plants-07 marks
\* its proofs.  Between versions with 48 and 64-bit coordinates that would
\* depend on the hashes (encode.go:318-332, 461-494; verify_proof.go:49-116).
ProofsAreNotMisread ==
    reader.ok =>
        /\ reader.version = asked.version =>
             (proof.ok <=> /\ asked.unused = 0 /\ SignaturesAreCanonical
                           /\ reader.version >= Plants04 => EntryExtensionsAreProper)
        /\ proof.ok /\ (reader.version < Plants04 <=> asked.version < Plants04) =>
             proof.proof =
               [ProofOf(asked) EXCEPT !.entryExts =
                    IF reader.version >= Plants04 THEN @ ELSE <<>>]

\* The bytes of a key usage have a bit set for each of its flags and no other,
\* and are as short as DER asks for: the last bit that is used is set
\* (encode.go:180-191).
KeyUsageIsDER ==
    LET ku   == asked.entry.base.keyUsage
        der  == KeyUsageBits(ku)
        used == 8 * (Len(der) - 1) - der[1]
        bit(i) == (der[2 + (i \div 8)] \div 2^(7 - (i % 8))) % 2
    IN  ku # 0 =>
            /\ der[1] \in 0..7 /\ bit(used - 1) = 1
            /\ \A i \in 0 .. 8 * (Len(der) - 1) - 1 : bit(i) = (ku \div 2^i) % 2
            /\ ku < 2^(8 * (Len(der) - 1))

CosignersAreDistinct ==
    LET s == asked.proof.signatures
    IN  \A i, j \in DOMAIN s : i # j => s[i].cosignerID # s[j].cosignerID

\* A comment on sorting the cosignatures: "plants-04 canonicalizes the cosigner
\* order" (encode.go:428); certificates of the drafts before it may have them
\* in any order, as long as no cosigner is there twice.
OldProofsHaveAnyOrder ==
    reader.ok /\ asked.version < Plants04 /\ reader.version = asked.version
      /\ asked.unused = 0 /\ CosignersAreDistinct => proof.ok
=============================================================================
