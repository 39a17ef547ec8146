------------------------------ MODULE Issuance ------------------------------
(****************************************************************************)
(* CreateCertificate and CreateCACertificate (demo/encode.go): a subtree of *)
(* the finished log is cosigned, again and again while a last bit is wanted *)
(* to be zero and is not, and the proof and the serial number are encoded.  *)
(*                                                                          *)
(* A cosignature is the key that made it, its message, and the last bit of  *)
(* its bytes.  Randomized algorithms give either bit each time, Ed25519     *)
(* always the same.  The cosigners of a request are distinct keys: a        *)
(* cosigner is its ID.  Sequences start at 1.                               *)
(****************************************************************************)
EXTENDS Certificates, MerkleTree, Functions

CONSTANTS
    Log,            \* the log's entries
    NullEntry,      \* the null entries among them
    CA,             \* config.ID
    LogNum,         \* config.LogNumber
    LastBits,       \* the last bits, 0 or 1, that a cosigner's signatures have
    MaxAttempts,    \* how often the cosignatures are made again; 32 in the code
    Requests        \* the certificates that may be asked for

SubtreeMessage == [cosigner : ID, ca : ID, log : LogNumber, timestamp : {0},
                   start : Nat, end : Nat, hash : Hash]

Cosignature == [cosignerID : ID, key : ID, message : SubtreeMessage, lastBit : {0, 1}]

CertificateRequest ==
    [index : Nat, start : Nat, end : Nat, cosigners : Seq(ID),
     extra : Seq(Cosignature), bitFlip : BOOLEAN, unusedBit : BOOLEAN,
     dontSort : BOOLEAN, override : BOOLEAN, plants04 : BOOLEAN]

ASSUME IssuanceAssumption ==
    /\ Log \in Seq(Nat) /\ NullEntry \in Nat /\ CA \in ID /\ LogNum \in LogNumber
    /\ LastBits \in [ID -> (SUBSET {0, 1}) \ {{}}]
    /\ MaxAttempts \in Nat
    /\ Requests \subseteq CertificateRequest

VARIABLES
    issuing,    \* how far CreateCertificate is
    request,    \* what it was called with; plants04: for that draft or a later one
    attempts,   \* how often the cosignatures were made again
    cosigs,     \* the cosignatures so far
    issued      \* the certificate it returned

issuanceVars == <<issuing, request, attempts, cosigs, issued>>

NotIssued == [issuer |-> CA]

IssuanceInit ==
    /\ issuing = "signing" /\ request \in Requests
    /\ attempts = 0 /\ cosigs = request.extra /\ issued = NotIssued

\* The log's tree, and the hash of one of its subtrees.
tree == NewStaticMerkleTree(Log)

subtree(start, end) == SubtreeHash(tree, start, end)

ASSUME HashAssumption ==
    \A r \in Requests : subtree(r.start, r.end) \in Hash \cup {NoHash}

EntryExists ==
    /\ request.index < Len(Log) /\ Log[request.index + 1] # NullEntry
    /\ subtree(request.start, request.end) # NoHash

Fail(how) == issuing' = how /\ UNCHANGED <<request, attempts, cosigs, issued>>

\* A null entry, or a subtree that is none of the log's.
RefuseRequest == issuing = "signing" /\ ~EntryExists /\ Fail("failed")

-----------------------------------------------------------------------------

SubtreeSigned ==
    [start |-> request.start, end |-> request.end,
     hash |-> subtree(request.start, request.end)]

\* The log number in LogID's result: a CA had one log before plants-04.
LogNamed(r) == IF r.plants04 THEN LogNum ELSE 0

\* Mutant: the hash of the whole log is signed.
CosignatureByOverLog(id, bit) ==
    [cosignerID |-> id, key |-> id, lastBit |-> bit,
     message |-> cosignedMessage(id, CA, LogNamed(request), 0,
                    [SubtreeSigned EXCEPT !.hash = subtree(0, Len(Log))])]

\* Cosigner.Sign, with one of the cosigner's last bits.
CosignatureBy(id, bit) ==
    [cosignerID |-> id, key |-> id, lastBit |-> bit,
     message |-> cosignedMessage(id, CA, LogNamed(request), 0, SubtreeSigned)]

\* The cosigners that have signed in this attempt.
NumSigned == Len(cosigs) - Len(request.extra)

CosignNext ==
    /\ issuing = "signing" /\ EntryExists
    /\ NumSigned < Len(request.cosigners)
    /\ LET id == request.cosigners[NumSigned + 1]
       IN  \E bit \in LastBits[id] : cosigs' = Append(cosigs, CosignatureBy(id, bit))
    /\ UNCHANGED <<issuing, request, attempts, issued>>

IsSorted(sigs) ==
    \A i, j \in DOMAIN sigs :
        i < j => <<sigs[j].cosignerID, sigs[i].cosignerID>> \notin CanonicalOrder

Rearranged(sigs, order) == [i \in DOMAIN sigs |-> sigs[order[i]]]

\* What sorting may return: equal IDs end up in any order.
Sorted(sigs) ==
    {Rearranged(sigs, order) : order \in Bijection(DOMAIN sigs, DOMAIN sigs)}

\* From plants-04 on, unless told not to.
SortCosigs ==
    /\ issuing = "signing" /\ EntryExists /\ NumSigned = Len(request.cosigners)
    /\ issuing' = "signed"
    /\ IF request.plants04 /\ ~request.dontSort
       THEN \E sorted \in Sorted(cosigs) : IsSorted(sorted) /\ cosigs' = sorted
       ELSE cosigs' = cosigs
    /\ UNCHANGED <<request, attempts, issued>>

\* Mutant: the signature made last is tested, wherever it was sorted to.
MustRetryBeforeSorting ==
    /\ request.unusedBit /\ attempts < MaxAttempts /\ request.cosigners # <<>>
    /\ \E i \in DOMAIN cosigs :
          /\ cosigs[i].cosignerID = request.cosigners[Len(request.cosigners)]
          /\ cosigs[i].lastBit = 1

\* Mutant: the attempts are counted but not limited.
MustRetryAlways ==
    request.unusedBit /\ cosigs # <<>> /\ cosigs[Len(cosigs)].lastBit = 1

\* The last cosignature's own last bit is wanted for the unused one.
MustRetry ==
    /\ request.unusedBit /\ attempts < MaxAttempts
    /\ cosigs # <<>> /\ cosigs[Len(cosigs)].lastBit = 1

\* Mutant: the extra cosignatures were sorted away, in the array they are
\* copied from.
RetryCosigsInPlace ==
    /\ issuing = "signed" /\ MustRetry
    /\ issuing' = "signing" /\ attempts' = attempts + 1
    /\ cosigs' = SubSeq(cosigs, 1, Len(request.extra))
    /\ UNCHANGED <<request, issued>>

\* Mutant: the attempts are not counted.
RetryCosigsForever ==
    /\ issuing = "signed" /\ MustRetry
    /\ issuing' = "signing" /\ cosigs' = request.extra
    /\ UNCHANGED <<request, attempts, issued>>

RetryCosigs ==
    /\ issuing = "signed" /\ MustRetry
    /\ issuing' = "signing" /\ attempts' = attempts + 1 /\ cosigs' = request.extra
    /\ UNCHANGED <<request, issued>>

-----------------------------------------------------------------------------

\* Mutant: the index is not kept out of the log number's bits.
SerialIsValidAlways == TRUE

SerialIsValid == request.plants04 => request.index <= IndexCount - 1

\* SubtreeInclusionProof returns no error; the proof of a subtree's only leaf
\* is empty, and has no bit to flip.
ProofExists ==
    /\ request.start <= request.index /\ request.index < request.end
    /\ request.bitFlip => request.end > request.start + 1

\* The unused bit of the BIT STRING would be a one.  With no cosignature, the
\* last byte is that of their length, zero.
UnusedBitIsSet ==
    request.unusedBit /\ cosigs # <<>> /\ cosigs[Len(cosigs)].lastBit = 1

CertificateOf(r, sigs) ==
    [issuer |-> CA, serial |-> IF r.plants04 THEN SerialOf(LogNum, r.index) ELSE r.index,
     start |-> r.start, end |-> r.end, damaged |-> r.bitFlip, unusedBit |-> r.unusedBit,
     override |-> r.override, cosignatures |-> sigs]

Encode ==
    /\ issuing = "signed" /\ ~MustRetry
    /\ \/ /\ SerialIsValid /\ ProofExists /\ ~UnusedBitIsSet
          /\ issuing' = "done" /\ issued' = CertificateOf(request, cosigs)
          /\ UNCHANGED <<request, attempts, cosigs>>
       \/ ~(SerialIsValid /\ ProofExists) /\ Fail("failed")
       \/ SerialIsValid /\ ProofExists /\ UnusedBitIsSet /\ Fail("gave up")

IssuanceNext ==
    RefuseRequest \/ CosignNext \/ SortCosigs \/ RetryCosigs \/ Encode

IssuanceSpec == IssuanceInit /\ [][IssuanceNext]_issuanceVars

FairIssuance == IssuanceSpec /\ WF_issuanceVars(IssuanceNext)

-----------------------------------------------------------------------------

\* The serial bounds of config.CACert, each a log and an index.
BoundsAreValid(min, max) == min.index < IndexCount /\ max.index < IndexCount

\* Mutant: the last serial number is taken to be out of bounds.
CACertificateOfExclusive(min, max, override) ==
    [id |-> CA, minSerial |-> SerialOf(min.log, min.index),
     maxSerial |-> SerialOf(max.log, max.index) - 1, wellFormed |-> ~override]

\* Mutant: the log's number is lost from the first serial number.
CACertificateOfIndex(min, max, override) ==
    [id |-> CA, minSerial |-> min.index,
     maxSerial |-> SerialOf(max.log, max.index), wellFormed |-> ~override]

\* CreateCACertificate; its CA extension may be overridden, for tests.
CACertificateOf(min, max, override) ==
    [id |-> CA, minSerial |-> SerialOf(min.log, min.index),
     maxSerial |-> SerialOf(max.log, max.index), wellFormed |-> ~override]

-----------------------------------------------------------------------------

IssuanceTypeOK ==
    /\ issuing \in {"signing", "signed", "done", "failed", "gave up"}
    /\ request \in Requests
    /\ attempts \in 0..MaxAttempts
    /\ cosigs \in Seq(Cosignature)
    /\ issuing = "done" => issued = CertificateOf(request, cosigs)

\* sig is id's own subtree cosignature, of what r asks for.
CosignsRequest(sig, id, r) ==
    /\ sig.cosignerID = id /\ sig.key = id
    /\ sig.message = [cosigner |-> id, ca |-> CA, log |-> LogNamed(r), timestamp |-> 0,
                      start |-> r.start, end |-> r.end, hash |-> subtree(r.start, r.end)]

\* However often the cosignatures were made again, and whatever the order they
\* were put in, a certificate has the extra cosignatures and one of each
\* cosigner it asked for, over its own subtree (encode.go:418-443).
WellSigned(sigs, r) ==
    LET extras == Len(r.extra)
    IN  /\ Len(sigs) = extras + Len(r.cosigners)
        /\ \E order \in Bijection(DOMAIN sigs, DOMAIN sigs) :
              \A i \in DOMAIN sigs :
                  IF order[i] <= extras THEN sigs[i] = r.extra[order[i]]
                  ELSE CosignsRequest(sigs[i], r.cosigners[order[i] - extras], r)

CosignaturesAreComplete ==
    issuing \in {"signed", "done"} => WellSigned(cosigs, request)

\* The bit that is tested after sorting is the one that ends up last in the
\* encoding: no certificate is given up for its last bit before all attempts
\* are used (encode.go:434-443, 495-500).
GivesUpLate == issuing = "gave up" => attempts = MaxAttempts

\* The certificate's serial number names its entry and its log
\* (encode.go:447-454, verify_proof.go:225-229).
SerialNamesEntry ==
    issuing = "done" /\ request.plants04 =>
        IndexOf(issued.serial) = request.index /\ LogOf(issued.serial) = LogNum

\* Issuance ends: the attempts are counted (encode.go:437).
IssuanceEnds == <>(issuing \in {"done", "failed", "gave up"})
=============================================================================
