---------------------------- MODULE Certificates ----------------------------
(****************************************************************************)
(* Serial numbers, cosignatures and certificates as the verifier reads them *)
(* (encode.go, cosign.go, verify_proof.go).  A hash is the value a subtree  *)
(* or an inclusion proof evaluates to, a signature is the key that made it  *)
(* and the message it covers, and a TBSCertificate is its serial number.    *)
(****************************************************************************)
EXTENDS Subtrees, FiniteSets, Sequences

CONSTANTS
    ID,              \* trust anchor IDs: CAs and cosigners
    CanonicalOrder,  \* pairs <<a, b>> of IDs with compareCosignerIDs(a, b) < 0
    Hash,            \* the values of a hash function
    LogCount,        \* log numbers; 2^16 in the code
    IndexCount       \* entry indices of a log; 2^48 in the code

ASSUME SerialAssumption ==
    /\ LogCount \in Nat \ {0} /\ IndexCount \in Nat \ {0}
    /\ CanonicalOrder \subseteq ID \X ID

LogNumber == 0 .. LogCount - 1
Index     == 0 .. IndexCount - 1
Serial    == 0 .. LogCount * IndexCount - 1
MaxSerial == LogCount * IndexCount - 1

\* The serial number of an entry, and its two halves.
SerialOf(log, index) == log * IndexCount + index
LogOf(serial)        == serial \div IndexCount
IndexOf(serial)      == serial % IndexCount

\* A serial number in the policy file: <<>> is "max", <<n>> a plain number,
\* <<l, i>> a LOG:INDEX pair.
SerialParses(t) ==
    \/ Len(t) = 0
    \/ Len(t) = 1 /\ t[1] \in Serial
    \/ Len(t) = 2 /\ t[1] \in LogNumber /\ t[2] \in Index

parseSerial(t) ==
    CASE Len(t) = 0 -> MaxSerial
      [] Len(t) = 2 -> SerialOf(t[1], t[2])
      [] OTHER      -> t[1]

-----------------------------------------------------------------------------

(***************************************************************************)
(* The message a cosigner signs.  The log is named by its CA and number    *)
(* (LogID); a subtree cosignature has timestamp zero, a checkpoint         *)
(* cosignature the time it was made.                                       *)
(***************************************************************************)
Message == [cosigner : ID, ca : ID, log : LogNumber, timestamp : Nat,
            start : Index, end : Index, hash : Hash]

cosignedMessage(id, ca, log, timestamp, c) ==
    [cosigner |-> id, ca |-> ca, log |-> log, timestamp |-> timestamp,
     start |-> c.start, end |-> c.end, hash |-> c.hash]

Signature == [cosignerID : ID, key : ID, message : Message]

(***************************************************************************)
(* A certificate: wellFormed says that everything the verifier parses      *)
(* parses (names, algorithm identifiers, extensions, lengths), proofFits   *)
(* that the inclusion proof has the length its subtree calls for, and hash *)
(* is what the proof evaluates to from the certificate's own entry.        *)
(***************************************************************************)
Certificate == [issuer : ID, serial : Serial, start : Index, end : Index,
                hash : Hash, wellFormed : BOOLEAN, proofFits : BOOLEAN,
                signatures : Seq(Signature)]

\* Mutant: the timestamp is taken from the signature.
VerifyOfAnyTimestamp(id, c, sig) ==
    /\ sig.key = id
    /\ sig.message = cosignedMessage(id, c.issuer, LogOf(c.serial),
                                     sig.message.timestamp, c)
    /\ IsValidSubtree(c.start, c.end)

-----------------------------------------------------------------------------

\* CosignerPublic.Verify: cosigner id's key made sig over this certificate's
\* subtree, with timestamp zero.
Verify(id, c, sig) ==
    /\ sig.key = id
    /\ sig.message = cosignedMessage(id, c.issuer, LogOf(c.serial), 0, c)
    /\ IsValidSubtree(c.start, c.end)

\* What a signature labelled with cosigner id has to be, to count for it in
\* certificate c: made with id's key, as a subtree cosignature (no timestamp),
\* of the very subtree and log that c is in.
Endorses(sig, id, c) ==
    LET m == sig.message
    IN  /\ sig.cosignerID = id /\ sig.key = id /\ m.cosigner = id
        /\ m.ca = c.issuer /\ m.log = LogOf(c.serial) /\ m.timestamp = 0
        /\ m.start = c.start /\ m.end = c.end /\ m.hash = c.hash

\* parseMTCProof: signatures come in strictly increasing order of cosigner.
InCanonicalOrder(sigs) ==
    \A i \in 1 .. Len(sigs) - 1 :
        <<sigs[i].cosignerID, sigs[i + 1].cosignerID>> \in CanonicalOrder

\* EvaluateSubtreeInclusionProof returns a hash rather than an error.
ProofEvaluates(c) ==
    /\ IsValidSubtree(c.start, c.end)
    /\ c.start <= IndexOf(c.serial) /\ IndexOf(c.serial) < c.end
    /\ c.proofFits
=============================================================================
