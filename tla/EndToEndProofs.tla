--------------------------- MODULE EndToEndProofs ---------------------------
(***************************************************************************)
(* Issuance, and that `generate` and `verify` agree, for every log,        *)
(* request, number of attempts, CA certificate and policy file.  First,    *)
(* the cosignatures of a certificate are complete however often they are   *)
(* made again and however they are sorted.  Then the verifier accepts      *)
(* exactly the certificates that are due; what it finds out about a        *)
(* certificate, and that a policy has one meaning, is in AcceptanceProofs. *)
(***************************************************************************)
EXTENDS EndToEnd, AcceptanceProofs

\* The first n cosigners have signed, after the extra cosignatures.
SignedSoFar(sigs, r, n) ==
    /\ n <= Len(r.cosigners)
    /\ Len(sigs) = Len(r.extra) + n
    /\ \A i \in 1 .. Len(r.extra) : sigs[i] = r.extra[i]
    /\ \A i \in Len(r.extra) + 1 .. Len(sigs) :
          CosignsRequest(sigs[i], r.cosigners[i - Len(r.extra)], r)

Progress ==
    /\ issuing = "signing" => \E n \in Nat : SignedSoFar(cosigs, request, n)
    /\ issuing \in {"signed", "done"} => WellSigned(cosigs, request)

Inv == IssuanceTypeOK /\ Progress /\ GivesUpLate

-----------------------------------------------------------------------------

\* What a request consists of.
LEMMA RequestType ==
    ASSUME NEW r \in Requests
    PROVE  /\ r \in CertificateRequest
           /\ r.cosigners \in Seq(ID) /\ r.extra \in Seq(Cosignature)
           /\ r.start \in Nat /\ r.end \in Nat /\ r.index \in Nat
           /\ Len(r.cosigners) \in Nat /\ Len(r.extra) \in Nat
           /\ DOMAIN r.extra = 1 .. Len(r.extra)
<1>1. r \in CertificateRequest
  BY IssuanceAssumption DEF IssuanceAssumption
<1>2. r.cosigners \in Seq(ID) /\ r.extra \in Seq(Cosignature)
  BY <1>1 DEF CertificateRequest
<1>3. r.start \in Nat /\ r.end \in Nat /\ r.index \in Nat
  BY <1>1 DEF CertificateRequest
<1>4. /\ Len(r.cosigners) \in Nat /\ Len(r.extra) \in Nat
      /\ DOMAIN r.extra = 1 .. Len(r.extra)
  BY <1>2
<1> QED BY <1>1, <1>2, <1>3, <1>4

\* A cosigner's signature is over the subtree that was asked for.
LEMMA CosignatureType ==
    ASSUME IssuanceTypeOK, EntryExists, NEW id \in ID, NEW bit \in LastBits[id]
    PROVE  /\ CosignatureBy(id, bit) \in Cosignature
           /\ CosignsRequest(CosignatureBy(id, bit), id, request)
<1> DEFINE hash == subtree(request.start, request.end)
<1>1. request.start \in Nat /\ request.end \in Nat
  BY RequestType DEF IssuanceTypeOK
<1>2. hash \in Hash
  BY HashAssumption DEF HashAssumption, IssuanceTypeOK, EntryExists
<1>3. LogNamed(request) \in LogNumber
  BY IssuanceAssumption, SerialAssumption
     DEF LogNamed, LogNumber, IssuanceAssumption, SerialAssumption
<1>4. bit \in {0, 1}
  BY IssuanceAssumption DEF IssuanceAssumption
<1>5. CA \in ID
  BY IssuanceAssumption DEF IssuanceAssumption
<1> HIDE DEF hash
<1>6. [cosigner |-> id, ca |-> CA, log |-> LogNamed(request), timestamp |-> 0,
       start |-> request.start, end |-> request.end, hash |-> hash] \in SubtreeMessage
  BY <1>1, <1>2, <1>3, <1>5 DEF SubtreeMessage
<1>7. CosignatureBy(id, bit) =
        [cosignerID |-> id, key |-> id, lastBit |-> bit, message |->
          [cosigner |-> id, ca |-> CA, log |-> LogNamed(request), timestamp |-> 0,
           start |-> request.start, end |-> request.end, hash |-> hash]]
  BY DEF CosignatureBy, cosignedMessage, SubtreeSigned, hash
<1>8. CosignatureBy(id, bit) \in Cosignature
  BY <1>4, <1>6, <1>7 DEF Cosignature
<1>9. CosignsRequest(CosignatureBy(id, bit), id, request)
  BY <1>7 DEF CosignsRequest, hash
<1> QED BY <1>8, <1>9

\* Sequences that are rearranged, or not, are well signed if they were signed
\* in order.
LEMMA RearrangedIsWellSigned ==
    ASSUME NEW r \in Requests, NEW sigs \in Seq(Cosignature),
           SignedSoFar(sigs, r, Len(r.cosigners)),
           NEW order \in Bijection(DOMAIN sigs, DOMAIN sigs)
    PROVE  /\ Rearranged(sigs, order) \in Seq(Cosignature)
           /\ WellSigned(Rearranged(sigs, order), r)
<1> DEFINE new == Rearranged(sigs, order)
           extras == Len(r.extra)
<1>1. order \in [DOMAIN sigs -> DOMAIN sigs]
  BY DEF Bijection, Injection
<1>2. DOMAIN sigs = 1 .. Len(sigs) /\ Len(sigs) \in Nat
  OBVIOUS
<1>3. new = [i \in 1 .. Len(sigs) |-> sigs[order[i]]]
  BY <1>2 DEF Rearranged
<1>4. \A i \in 1 .. Len(sigs) : sigs[order[i]] \in Cosignature
  BY <1>1, <1>2
<1>5. new \in Seq(Cosignature) /\ Len(new) = Len(sigs) /\ DOMAIN new = DOMAIN sigs
  BY <1>2, <1>3, <1>4
<1>6. Len(new) = extras + Len(r.cosigners)
  BY <1>5 DEF SignedSoFar
<1>7. ASSUME NEW i \in DOMAIN new
      PROVE  IF order[i] <= extras THEN new[i] = r.extra[order[i]]
             ELSE CosignsRequest(new[i], r.cosigners[order[i] - extras], r)
  <2>1. new[i] = sigs[order[i]] /\ order[i] \in 1 .. Len(sigs)
    BY <1>1, <1>2, <1>3, <1>5
  <2>2. extras \in Nat
    BY RequestType
  <2>3. CASE order[i] <= extras
    <3>1. order[i] \in 1 .. extras
      BY <2>1, <2>2, <2>3
    <3>2. sigs[order[i]] = r.extra[order[i]]
      BY <3>1 DEF SignedSoFar
    <3> QED BY <2>1, <2>3, <3>2
  <2>4. CASE ~(order[i] <= extras)
    <3>1. order[i] \in extras + 1 .. Len(sigs)
      BY <1>2, <2>1, <2>2, <2>4
    <3>2. CosignsRequest(sigs[order[i]], r.cosigners[order[i] - extras], r)
      BY <3>1 DEF SignedSoFar
    <3> QED BY <2>1, <2>4, <3>2
  <2> QED BY <2>3, <2>4
<1>8. order \in Bijection(DOMAIN new, DOMAIN new)
  BY <1>5
<1>9. WellSigned(new, r)
  BY <1>6, <1>7, <1>8 DEF WellSigned
<1> QED BY <1>5, <1>9

LEMMA OrderedIsWellSigned ==
    ASSUME NEW r \in Requests, NEW sigs \in Seq(Cosignature),
           SignedSoFar(sigs, r, Len(r.cosigners))
    PROVE  WellSigned(sigs, r)
<1> DEFINE same == [i \in DOMAIN sigs |-> i]
<1>1. same \in Bijection(DOMAIN sigs, DOMAIN sigs)
  BY DEF Bijection, Injection, Surjection, IsInjective
<1>2. DOMAIN sigs = 1 .. Len(sigs)
  OBVIOUS
<1>3. Rearranged(sigs, same) = sigs
  BY <1>2 DEF Rearranged
<1>4. WellSigned(Rearranged(sigs, same), r)
  BY <1>1, RearrangedIsWellSigned
<1> QED BY <1>3, <1>4

-----------------------------------------------------------------------------

LEMMA InvInit == IssuanceInit => Inv
<1> SUFFICES ASSUME IssuanceInit PROVE Inv
  OBVIOUS
<1>1. /\ issuing = "signing" /\ request \in Requests /\ attempts = 0
      /\ cosigs = request.extra
  BY DEF IssuanceInit
<1>2. 0 \in 0..MaxAttempts
  BY IssuanceAssumption DEF IssuanceAssumption
<1>3. IssuanceTypeOK
  BY <1>1, <1>2, RequestType DEF IssuanceTypeOK
<1>4. SignedSoFar(cosigs, request, 0)
  BY <1>1, RequestType DEF SignedSoFar
<1>5. Progress
  BY <1>1, <1>4 DEF Progress
<1> QED BY <1>1, <1>3, <1>5 DEF Inv, GivesUpLate

LEMMA CosignNextKeepsInv == ASSUME Inv, CosignNext PROVE Inv'
<1> DEFINE id == request.cosigners[NumSigned + 1]
<1>1. IssuanceTypeOK /\ Progress
  BY DEF Inv
<1>2. /\ issuing = "signing" /\ EntryExists /\ NumSigned < Len(request.cosigners)
      /\ UNCHANGED <<issuing, request, attempts, issued>>
  BY DEF CosignNext
<1>3. PICK bit \in LastBits[id] : cosigs' = Append(cosigs, CosignatureBy(id, bit))
  BY DEF CosignNext
<1>4. PICK n \in Nat : SignedSoFar(cosigs, request, n)
  BY <1>1, <1>2 DEF Progress
<1>5. /\ request \in Requests /\ cosigs \in Seq(Cosignature)
      /\ request.cosigners \in Seq(ID) /\ Len(request.extra) \in Nat
  BY <1>1, RequestType DEF IssuanceTypeOK
<1>6. NumSigned = n /\ n + 1 <= Len(request.cosigners)
  BY <1>2, <1>4, <1>5 DEF NumSigned, SignedSoFar
<1>7. id = request.cosigners[n + 1] /\ id \in ID
  BY <1>5, <1>6
<1> HIDE DEF id
<1>8. /\ CosignatureBy(id, bit) \in Cosignature
      /\ CosignsRequest(CosignatureBy(id, bit), id, request)
  BY <1>1, <1>2, <1>7, CosignatureType
<1> DEFINE new == CosignatureBy(id, bit)
<1> HIDE DEF new
<1>9. /\ cosigs' \in Seq(Cosignature) /\ Len(cosigs') = Len(cosigs) + 1
      /\ \A i \in 1 .. Len(cosigs) : cosigs'[i] = cosigs[i]
      /\ cosigs'[Len(cosigs) + 1] = new
  <2>1. cosigs' = Append(cosigs, new) /\ new \in Cosignature
    BY <1>3, <1>8 DEF new
  <2> QED BY <2>1, <1>5
<1>10. SignedSoFar(cosigs', request, n + 1)
  <2>1. Len(cosigs) = Len(request.extra) + n
    BY <1>4 DEF SignedSoFar
  <2>2. \A i \in 1 .. Len(request.extra) : cosigs'[i] = request.extra[i]
    <3> SUFFICES ASSUME NEW i \in 1 .. Len(request.extra)
                 PROVE  cosigs'[i] = request.extra[i]
      OBVIOUS
    <3>1. i \in 1 .. Len(cosigs)
      BY <1>5, <2>1
    <3>2. cosigs[i] = request.extra[i]
      BY <1>4 DEF SignedSoFar
    <3> QED BY <1>9, <3>1, <3>2
  <2>3. \A i \in Len(request.extra) + 1 .. Len(cosigs') :
          CosignsRequest(cosigs'[i], request.cosigners[i - Len(request.extra)], request)
    <3> SUFFICES ASSUME NEW i \in Len(request.extra) + 1 .. Len(cosigs')
                 PROVE  CosignsRequest(cosigs'[i],
                          request.cosigners[i - Len(request.extra)], request)
      OBVIOUS
    <3>1. CASE i = Len(cosigs) + 1
      <4>1. i - Len(request.extra) = n + 1
        <5> DEFINE extras == Len(request.extra)
        <5>1. extras \in Nat /\ i = extras + n + 1
          BY <3>1, <2>1, <1>5
        <5> HIDE DEF extras
        <5>2. i - extras = n + 1
          BY <5>1
        <5> QED BY <5>2 DEF extras
      <4>2. cosigs'[i] = new
        BY <1>9, <3>1
      <4>3. CosignsRequest(new, id, request)
        BY <1>8 DEF new
      <4> QED BY <4>1, <4>2, <4>3, <1>7
    <3>2. CASE i # Len(cosigs) + 1
      <4>1. i \in Len(request.extra) + 1 .. Len(cosigs) /\ i \in 1 .. Len(cosigs)
        BY <3>2, <1>5, <1>9, <2>1
      <4>2. CosignsRequest(cosigs[i], request.cosigners[i - Len(request.extra)], request)
        BY <4>1, <1>4 DEF SignedSoFar
      <4>3. cosigs'[i] = cosigs[i]
        BY <4>1, <1>9
      <4> QED BY <4>2, <4>3
    <3> QED BY <3>1, <3>2
  <2>4. n + 1 <= Len(request.cosigners) /\ Len(cosigs') = Len(request.extra) + (n + 1)
    <3> DEFINE extras == Len(request.extra)
               size == Len(cosigs)
    <3>1. extras \in Nat /\ size = extras + n /\ Len(cosigs') = size + 1
      BY <1>5, <1>9, <2>1
    <3> HIDE DEF extras, size
    <3>2. Len(cosigs') = extras + (n + 1)
      BY <3>1
    <3> QED BY <1>6, <3>2 DEF extras
  <2> QED BY <2>2, <2>3, <2>4, Zenon DEF SignedSoFar
<1>11. IssuanceTypeOK'
  BY <1>1, <1>2, <1>9 DEF IssuanceTypeOK
<1>12. Progress'
  BY <1>2, <1>10 DEF Progress
<1>13. GivesUpLate'
  BY <1>2 DEF GivesUpLate
<1> QED BY <1>11, <1>12, <1>13 DEF Inv

LEMMA SortCosigsKeepsInv == ASSUME Inv, SortCosigs PROVE Inv'
<1>1. IssuanceTypeOK /\ Progress
  BY DEF Inv
<1>2. /\ issuing = "signing" /\ issuing' = "signed"
      /\ NumSigned = Len(request.cosigners)
      /\ UNCHANGED <<request, attempts, issued>>
  BY DEF SortCosigs
<1>3. /\ request \in Requests /\ cosigs \in Seq(Cosignature)
      /\ Len(request.extra) \in Nat /\ Len(request.cosigners) \in Nat
  BY <1>1, RequestType DEF IssuanceTypeOK
<1>4. PICK n \in Nat : SignedSoFar(cosigs, request, n)
  BY <1>1, <1>2 DEF Progress
<1>5. n = Len(request.cosigners)
  BY <1>2, <1>3, <1>4 DEF SignedSoFar, NumSigned
<1>6. SignedSoFar(cosigs, request, Len(request.cosigners))
  BY <1>4, <1>5
<1>7. cosigs' \in Seq(Cosignature) /\ WellSigned(cosigs', request)
  <2>1. CASE cosigs' = cosigs
    BY <2>1, <1>3, <1>6, OrderedIsWellSigned
  <2>2. CASE \E sorted \in Sorted(cosigs) : IsSorted(sorted) /\ cosigs' = sorted
    <3>1. PICK order \in Bijection(DOMAIN cosigs, DOMAIN cosigs) :
             cosigs' = Rearranged(cosigs, order)
      BY <2>2 DEF Sorted
    <3> QED BY <3>1, <1>3, <1>6, RearrangedIsWellSigned
  <2> QED BY <2>1, <2>2 DEF SortCosigs
<1>8. IssuanceTypeOK'
  BY <1>1, <1>2, <1>7 DEF IssuanceTypeOK
<1>9. Progress'
  BY <1>2, <1>7 DEF Progress
<1>10. GivesUpLate'
  BY <1>2 DEF GivesUpLate
<1> QED BY <1>8, <1>9, <1>10 DEF Inv

LEMMA RetryCosigsKeepsInv == ASSUME Inv, RetryCosigs PROVE Inv'
<1>1. IssuanceTypeOK
  BY DEF Inv
<1>2. /\ issuing' = "signing" /\ attempts' = attempts + 1 /\ attempts < MaxAttempts
      /\ cosigs' = request.extra /\ UNCHANGED <<request, issued>>
  BY DEF RetryCosigs, MustRetry
<1>3. request \in Requests /\ attempts \in 0..MaxAttempts
  BY <1>1 DEF IssuanceTypeOK
<1>4. attempts' \in 0..MaxAttempts
  BY <1>2, <1>3, IssuanceAssumption DEF IssuanceAssumption
<1>5. cosigs' \in Seq(Cosignature)
  BY <1>2, <1>3, RequestType
<1>6. IssuanceTypeOK'
  BY <1>2, <1>3, <1>4, <1>5 DEF IssuanceTypeOK
<1>7. SignedSoFar(cosigs', request', 0)
  BY <1>2, <1>3, RequestType DEF SignedSoFar
<1>8. Progress'
  BY <1>2, <1>7 DEF Progress
<1>9. GivesUpLate'
  BY <1>2 DEF GivesUpLate
<1> QED BY <1>6, <1>8, <1>9 DEF Inv

LEMMA EncodeKeepsInv == ASSUME Inv, Encode PROVE Inv'
<1>1. IssuanceTypeOK /\ Progress
  BY DEF Inv
<1>2. issuing = "signed" /\ UNCHANGED <<request, attempts, cosigs>>
  BY DEF Encode, Fail
<1>3. CASE issuing' = "done" /\ issued' = CertificateOf(request, cosigs)
  <2>1. CertificateOf(request, cosigs)' = CertificateOf(request, cosigs)
    BY <1>2 DEF CertificateOf
  <2>2. IssuanceTypeOK'
    BY <1>1, <1>2, <1>3 DEF IssuanceTypeOK
  <2>3. Progress'
    BY <1>1, <1>2, <1>3 DEF Progress
  <2> QED BY <1>3, <2>2, <2>3 DEF Inv, GivesUpLate
<1>4. CASE issuing' = "failed"
  BY <1>1, <1>2, <1>4 DEF Inv, IssuanceTypeOK, Progress, GivesUpLate
<1>5. CASE UnusedBitIsSet /\ ~MustRetry /\ issuing' = "gave up"
  <2>1. attempts = MaxAttempts
    <3>1. ~(attempts < MaxAttempts)
      BY <1>5, Zenon DEF UnusedBitIsSet, MustRetry
    <3>2. attempts \in 0..MaxAttempts /\ MaxAttempts \in Nat
      BY <1>1, IssuanceAssumption DEF IssuanceTypeOK, IssuanceAssumption
    <3> QED BY <3>1, <3>2
  <2> QED BY <1>1, <1>2, <1>5, <2>1 DEF Inv, IssuanceTypeOK, Progress, GivesUpLate
<1> QED BY <1>3, <1>4, <1>5 DEF Encode, Fail

LEMMA InvNext == ASSUME Inv, [IssuanceNext]_issuanceVars PROVE Inv'
<1>1. CASE RefuseRequest
  BY <1>1 DEF RefuseRequest, Fail, Inv, IssuanceTypeOK, Progress, GivesUpLate
<1>2. CASE CosignNext
  BY <1>2, CosignNextKeepsInv
<1>3. CASE SortCosigs
  BY <1>3, SortCosigsKeepsInv
<1>4. CASE RetryCosigs
  BY <1>4, RetryCosigsKeepsInv
<1>5. CASE Encode
  BY <1>5, EncodeKeepsInv
<1>6. CASE UNCHANGED issuanceVars
  BY <1>6 DEF issuanceVars, Inv, IssuanceTypeOK, Progress, GivesUpLate
<1> QED BY <1>1, <1>2, <1>3, <1>4, <1>5, <1>6 DEF IssuanceNext

LEMMA InvAlways == IssuanceSpec => []Inv
BY InvInit, InvNext, PTL DEF IssuanceSpec

-----------------------------------------------------------------------------

\* The state keeps its types: no more attempts are made than allowed, every
\* cosignature is one of a subtree of the log, and what is returned is the
\* certificate for the request and the cosignatures (encode.go:406-504).
THEOREM IssuanceTypeCorrect == IssuanceSpec => []IssuanceTypeOK
<1>1. Inv => IssuanceTypeOK
  BY DEF Inv
<1> QED BY <1>1, InvAlways, PTL

\* However often the cosignatures are made again and whatever order they are
\* put in, those of a certificate are the extra ones and one of each cosigner
\* asked, over the certificate's own subtree (encode.go:418-443).
THEOREM CosignaturesAreAlwaysComplete == IssuanceSpec => []CosignaturesAreComplete
<1>1. Inv => CosignaturesAreComplete
  BY DEF Inv, Progress, CosignaturesAreComplete
<1> QED BY <1>1, InvAlways, PTL

\* No certificate is given up for its last bit before every attempt is used
\* (encode.go:434-443, 495-500).
THEOREM AlwaysGivesUpLate == IssuanceSpec => []GivesUpLate
<1>1. Inv => GivesUpLate
  BY DEF Inv
<1> QED BY <1>1, InvAlways, PTL

-----------------------------------------------------------------------------

\* A number is taken apart into the two halves it was packed from.
LEMMA Unpacked ==
    ASSUME NEW n \in Nat \ {0}, NEW l \in Nat, NEW i \in 0 .. n - 1
    PROVE  (l * n + i) \div n = l /\ (l * n + i) % n = i
<1> DEFINE x == l * n + i
           q == x \div n
           r == x % n
<1>1. x \in Nat
  OBVIOUS
<1> HIDE DEF x
<1>2. q \in Int /\ r \in 0 .. n - 1 /\ x = q * n + r
  BY <1>1
<1>3. (q - l) * n = i - r
  BY <1>2 DEF x
<1> HIDE DEF q, r
<1>4. q = l
  <2>1. CASE q >= l + 1
    <3>1. (q - l) * n >= n
      BY <1>2, <2>1
    <3> QED BY <1>2, <1>3, <3>1
  <2>2. CASE q <= l - 1
    <3>1. (q - l) * n <= 0 - n
      BY <1>2, <2>2
    <3> QED BY <1>2, <1>3, <3>1
  <2> QED BY <1>2, <2>1, <2>2
<1>5. r = i
  BY <1>2, <1>3, <1>4
<1> QED BY <1>4, <1>5 DEF x, q, r

\* What was issued passed the test of its index.
SerialFits == issuing = "done" => SerialIsValid

LEMMA SerialFitsAlways == IssuanceSpec => []SerialFits
<1>1. IssuanceInit => SerialFits
  BY DEF IssuanceInit, SerialFits
<1>2. SerialFits /\ [IssuanceNext]_issuanceVars => SerialFits'
  <2> SUFFICES ASSUME SerialFits, [IssuanceNext]_issuanceVars PROVE SerialFits'
    OBVIOUS
  <2>1. CASE RefuseRequest
    BY <2>1 DEF RefuseRequest, Fail, SerialFits
  <2>2. CASE CosignNext
    BY <2>2 DEF CosignNext, SerialFits
  <2>3. CASE SortCosigs
    BY <2>3 DEF SortCosigs, SerialFits
  <2>4. CASE RetryCosigs
    BY <2>4 DEF RetryCosigs, SerialFits
  <2>5. CASE Encode
    BY <2>5 DEF Encode, Fail, SerialFits, SerialIsValid
  <2>6. CASE UNCHANGED issuanceVars
    BY <2>6 DEF issuanceVars, SerialFits, SerialIsValid
  <2> QED BY <2>1, <2>2, <2>3, <2>4, <2>5, <2>6 DEF IssuanceNext
<1> QED BY <1>1, <1>2, PTL DEF IssuanceSpec

\* A certificate's serial number always names its log and its entry, in logs
\* of any size: an index that would run into the log number is refused first
\* (encode.go:447-454, verify_proof.go:225-229).
THEOREM SerialsAlwaysNameEntries == IssuanceSpec => []SerialNamesEntry
<1>1. IssuanceTypeOK /\ SerialFits => SerialNamesEntry
  <2> SUFFICES ASSUME IssuanceTypeOK, SerialFits, issuing = "done", request.plants04
               PROVE  IndexOf(issued.serial) = request.index /\ LogOf(issued.serial) = LogNum
    BY DEF SerialNamesEntry
  <2>1. issued.serial = LogNum * IndexCount + request.index
    BY DEF IssuanceTypeOK, CertificateOf, SerialOf
  <2>2. IndexCount \in Nat \ {0} /\ LogNum \in Nat
    BY SerialAssumption, IssuanceAssumption
       DEF SerialAssumption, IssuanceAssumption, LogNumber
  <2>3. request.index \in Nat
    BY RequestType DEF IssuanceTypeOK
  <2>4. request.index \in 0 .. IndexCount - 1
    BY <2>2, <2>3 DEF SerialFits, SerialIsValid
  <2> QED BY <2>1, <2>2, <2>4, Unpacked DEF IndexOf, LogOf
<1> QED BY <1>1, SerialFitsAlways, IssuanceTypeCorrect, PTL

-----------------------------------------------------------------------------

\* What was signed exists, and is sorted; what was encoded fits.
EncodedInv ==
    /\ issuing \in {"signed", "done"} =>
          EntryExists /\ (~request.dontSort => IsSorted(cosigs))
    /\ issuing = "done" => SerialIsValid /\ ProofExists

\* The CA certificate comes before anything is signed, and stays.
CACertInv ==
    /\ caConfig \in CAConfigs
    /\ caCert = NoCACertificate => issuing = "signing"
    /\ caCert # NoCACertificate =>
          /\ BoundsAreValid(caConfig.min, caConfig.max)
          /\ caCert = CACertificateOf(caConfig.min, caConfig.max, caConfig.override)

\* What lies outside its bounds stays revoked, before what the policy file
\* revokes.
BoundsAreKept ==
    CA \in DOMAIN cas =>
        /\ issuing = "done" /\ caCert.wellFormed
        /\ Len(OutsideRanges(caCert)) <= Len(cas[CA].revokedRanges)
        /\ \A i \in 1 .. Len(OutsideRanges(caCert)) :
              cas[CA].revokedRanges[i] = OutsideRanges(caCert)[i]

\* Only the certificate that was issued is ever judged.
PresentedInv == cert # NoCertificate => issuing = "done" /\ cert = ReadBack(issued)

EndToEndInv ==
    /\ Inv /\ EncodedInv /\ CACertInv /\ BoundsAreKept
    /\ VerifierInv /\ VerdictInv /\ PresentedInv

-----------------------------------------------------------------------------

\* Positions in logs are ordered as their serial numbers are.
LEMMA PrecedesBySerial ==
    ASSUME NEW l \in Nat, NEW m \in Nat,
           NEW i \in 0 .. IndexCount - 1, NEW j \in 0 .. IndexCount - 1
    PROVE  SerialOf(l, i) <= SerialOf(m, j)
             <=> Precedes([log |-> l, index |-> i], [log |-> m, index |-> j])
  <1> DEFINE n == IndexCount
  <1>1. n \in Nat \ {0}
    BY SerialAssumption
  <1>2. i \in Nat /\ j \in Nat /\ i <= n - 1 /\ j <= n - 1
    BY <1>1
  <1> HIDE DEF n
  <1>3. CASE l = m
    <2>1. l * n \in Nat
      BY <1>1
    <2> QED
      BY <1>2, <1>3, <2>1 DEF SerialOf, Precedes, n
  <1>4. CASE l < m
    <2>1. l + 1 <= m
      BY <1>4
    <2>2. (l + 1) * n <= m * n
      BY <1>1, <2>1
    <2>3. l * n + n <= m * n /\ l * n \in Nat /\ m * n \in Nat
      BY <1>1, <2>2
    <2>4. l * n + i <= m * n + j
      BY <1>1, <1>2, <2>3
    <2> QED
      BY <1>4, <2>4 DEF SerialOf, Precedes, n
  <1>5. CASE l > m
    <2>1. m + 1 <= l
      BY <1>5
    <2>2. (m + 1) * n <= l * n
      BY <1>1, <2>1
    <2>3. m * n + n <= l * n /\ l * n \in Nat /\ m * n \in Nat
      BY <1>1, <2>2
    <2>4. ~(l * n + i <= m * n + j)
      BY <1>1, <1>2, <2>3
    <2>5. ~(l < m) /\ l # m
      BY <1>5
    <2> QED
      BY <2>4, <2>5 DEF SerialOf, Precedes, n
  <1> QED
    BY <1>3, <1>4, <1>5

\* Signatures in the canonical order are in order pairwise, ...
LEMMA OrderedPairwise ==
    ASSUME NEW sigs, NEW n \in Nat, Len(sigs) = n,
           \A k \in 1 .. n : sigs[k].cosignerID \in ID, InCanonicalOrder(sigs),
           NEW i \in 1 .. n, NEW j \in 1 .. n, i < j
    PROVE  <<sigs[i].cosignerID, sigs[j].cosignerID>> \in CanonicalOrder
  <1> DEFINE id(k) == sigs[k].cosignerID
             T == {k \in i + 1 .. n : <<id(i), id(k)>> \notin CanonicalOrder}
  <1>1. ASSUME T # {} PROVE FALSE
    <2>1. T \subseteq Nat
      OBVIOUS
    <2>2. PICK k \in T : \A m \in T : k <= m
      BY <1>1, <2>1, NatLeast
    <2>3. k \in i + 1 .. n /\ k - 1 \in 1 .. n - 1
      OBVIOUS
    <2>4. <<id(k - 1), id(k)>> \in CanonicalOrder
      <3>1. <<sigs[k - 1].cosignerID, sigs[(k - 1) + 1].cosignerID>> \in CanonicalOrder
        BY <2>3 DEF InCanonicalOrder
      <3>2. (k - 1) + 1 = k
        BY <2>3
      <3> QED
        BY <3>1, <3>2
    <2>5. CASE k = i + 1
      <3>1. k - 1 = i
        BY <2>5
      <3> QED
        BY <2>2, <2>4, <3>1
    <2>6. CASE k # i + 1
      <3>1. k - 1 \in i + 1 .. n /\ ~(k <= k - 1)
        BY <2>3, <2>6
      <3>2. <<id(i), id(k - 1)>> \in CanonicalOrder
        BY <2>2, <3>1
      <3>3. id(i) \in ID /\ id(k - 1) \in ID /\ id(k) \in ID
        BY <2>3
      <3>4. <<id(i), id(k)>> \in CanonicalOrder
        BY <2>4, <3>2, <3>3, CanonicalOrderAssumption DEF CanonicalOrderAssumption
      <3> QED
        BY <2>2, <3>4
    <2> QED
      BY <2>5, <2>6
  <1>2. j \in i + 1 .. n
    OBVIOUS
  <1> QED
    BY <1>1, <1>2

\* ... so that canonical order is being sorted and having no cosigner twice.
LEMMA OrderedIsSortedAndDistinct ==
    ASSUME NEW sigs \in Seq(Cosignature)
    PROVE  /\ InCanonicalOrder(sigs) =>
                 \A i, j \in DOMAIN sigs : i # j => sigs[i].cosignerID # sigs[j].cosignerID
           /\ IsSorted(sigs) /\ (\A i, j \in DOMAIN sigs :
                                    i # j => sigs[i].cosignerID # sigs[j].cosignerID)
              => InCanonicalOrder(sigs)
  <1>1. Len(sigs) \in Nat /\ DOMAIN sigs = 1 .. Len(sigs)
    OBVIOUS
  <1>2. \A k \in 1 .. Len(sigs) : sigs[k].cosignerID \in ID
    <2>1. \A k \in 1 .. Len(sigs) : sigs[k] \in Cosignature
      OBVIOUS
    <2> QED
      BY <2>1 DEF Cosignature
  <1>3. \A a \in ID : <<a, a>> \notin CanonicalOrder
    BY CanonicalOrderAssumption DEF CanonicalOrderAssumption
  <1>4. ASSUME InCanonicalOrder(sigs), NEW i \in 1 .. Len(sigs), NEW j \in 1 .. Len(sigs),
               i # j, sigs[i].cosignerID = sigs[j].cosignerID
        PROVE  FALSE
    <2>1. i < j \/ j < i
      BY <1>1, <1>4
    <2> QED
      BY <1>1, <1>2, <1>3, <1>4, <2>1, OrderedPairwise
  <1>5. ASSUME IsSorted(sigs), \A i, j \in DOMAIN sigs :
                   i # j => sigs[i].cosignerID # sigs[j].cosignerID
        PROVE  InCanonicalOrder(sigs)
    <2> SUFFICES ASSUME NEW i \in 1 .. Len(sigs) - 1
                 PROVE  <<sigs[i].cosignerID, sigs[i + 1].cosignerID>> \in CanonicalOrder
      BY DEF InCanonicalOrder
    <2>1. i \in DOMAIN sigs /\ i + 1 \in DOMAIN sigs /\ i < i + 1 /\ i # i + 1
      BY <1>1
    <2>2. <<sigs[i + 1].cosignerID, sigs[i].cosignerID>> \notin CanonicalOrder
      BY <1>5, <2>1 DEF IsSorted
    <2>3. sigs[i].cosignerID # sigs[i + 1].cosignerID
      BY <1>5, <2>1
    <2> QED
      BY <1>1, <1>2, <2>1, <2>2, <2>3, CanonicalOrderAssumption DEF CanonicalOrderAssumption
  <1> QED
    BY <1>1, <1>4, <1>5

-----------------------------------------------------------------------------

\* The CA certificate that was made is one that can be loaded.
LEMMA MadeCertificateLoads ==
    ASSUME CACertInv, caCert # NoCACertificate
    PROVE  caCert \in CACertificate /\ caCert.id = CA
  <1>1. /\ caConfig.min.log \in LogNumber /\ caConfig.max.log \in LogNumber
        /\ caConfig.min.index \in Nat /\ caConfig.max.index \in Nat
        /\ caConfig.override \in BOOLEAN
    BY CAConfigAssumption DEF CAConfigAssumption, CACertInv
  <1>2. /\ caConfig.min.index \in Index /\ caConfig.max.index \in Index
    BY <1>1, SerialAssumption DEF CACertInv, BoundsAreValid, Index, SerialAssumption
  <1>3. /\ SerialOf(caConfig.min.log, caConfig.min.index) \in Serial
        /\ SerialOf(caConfig.max.log, caConfig.max.index) \in Serial
    BY <1>1, <1>2, SerialOfInRange
  <1>4. caCert = [id |-> CA,
                  minSerial |-> SerialOf(caConfig.min.log, caConfig.min.index),
                  maxSerial |-> SerialOf(caConfig.max.log, caConfig.max.index),
                  wellFormed |-> ~caConfig.override]
    BY DEF CACertInv, CACertificateOf
  <1>5. CA \in ID
    BY IssuanceAssumption DEF IssuanceAssumption
  <1> QED
    BY <1>1, <1>3, <1>4, <1>5 DEF CACertificate

\* What the verifier reads of what was issued.
LEMMA ReadBackFacts ==
    ASSUME Inv, EncodedInv, issuing = "done"
    PROVE  /\ issued = CertificateOf(request, cosigs)
           /\ ReadBack(issued) \in Readable
           /\ HasMessages(ReadBack(issued))
           /\ ReadBack(issued).issuer = CA
           /\ ReadBack(issued).serial = SerialOf(LogNum, request.index)
           /\ ReadBack(issued).start = request.start /\ ReadBack(issued).end = request.end
           /\ ReadBack(issued).hash =
                IF request.bitFlip THEN Damaged(subtree(request.start, request.end))
                                   ELSE subtree(request.start, request.end)
           /\ ReadBack(issued).wellFormed <=> ~request.unusedBit /\ ~request.override
           /\ ReadBack(issued).proofFits = TRUE
           /\ Len(ReadBack(issued).signatures) = Len(cosigs)
           /\ DOMAIN ReadBack(issued).signatures = DOMAIN cosigs
           /\ \A i \in DOMAIN cosigs :
                /\ ReadBack(issued).signatures[i].cosignerID = cosigs[i].cosignerID
                /\ ReadBack(issued).signatures[i].key = cosigs[i].key
                /\ ReadBack(issued).signatures[i].message = cosigs[i].message
           /\ subtree(request.start, request.end) \in Hash
  <1> DEFINE hash == subtree(request.start, request.end)
             sigs == [i \in DOMAIN cosigs |->
                        [cosignerID |-> cosigs[i].cosignerID, key |-> cosigs[i].key,
                         message |-> cosigs[i].message]]
             read == IF request.bitFlip THEN Damaged(hash) ELSE hash
             ok == ~request.unusedBit /\ ~request.override
  <1>1. /\ request \in Requests /\ cosigs \in Seq(Cosignature)
        /\ issued = CertificateOf(request, cosigs) /\ EntryExists
    BY DEF Inv, IssuanceTypeOK, EncodedInv
  <1>2. request.plants04
    BY <1>1, GenerateAssumption DEF GenerateAssumption
  <1>3. issued = [issuer |-> CA, serial |-> SerialOf(LogNum, request.index),
                  start |-> request.start, end |-> request.end,
                  damaged |-> request.bitFlip, unusedBit |-> request.unusedBit,
                  override |-> request.override, cosignatures |-> cosigs]
    BY <1>1, <1>2 DEF CertificateOf
  <1>4. ReadBack(issued) =
          [issuer |-> CA, serial |-> SerialOf(LogNum, request.index),
           start |-> request.start, end |-> request.end, hash |-> read,
           wellFormed |-> ok, proofFits |-> TRUE, signatures |-> sigs]
    BY <1>3 DEF ReadBack
  <1>5. hash \in Hash
    BY <1>1, HashAssumption DEF HashAssumption, EntryExists
  <1>6. /\ request.start \in Nat /\ request.end \in Nat /\ request.index \in Nat
        /\ request.bitFlip \in BOOLEAN
    BY <1>1, RequestType DEF CertificateRequest
  <1>7. SerialOf(LogNum, request.index) \in Nat
    <2>1. LogNum \in Nat
      BY IssuanceAssumption, SerialIsNat DEF IssuanceAssumption
    <2> QED
      BY <1>6, <2>1, SerialIsNat
  <1>8. DOMAIN cosigs = 1 .. Len(cosigs) /\ Len(cosigs) \in Nat
    BY <1>1
  <1>9. \A i \in DOMAIN cosigs :
           /\ cosigs[i].cosignerID \in ID /\ cosigs[i].key \in ID
           /\ cosigs[i].message \in SubtreeMessage
    <2>1. \A i \in DOMAIN cosigs : cosigs[i] \in Cosignature
      BY <1>1
    <2> QED
      BY <2>1 DEF Cosignature
  <1>10. /\ sigs \in Seq([cosignerID : ID, key : ID, message : SubtreeMessage])
         /\ Len(sigs) = Len(cosigs) /\ DOMAIN sigs = DOMAIN cosigs
         /\ \A i \in DOMAIN cosigs :
              /\ sigs[i].cosignerID = cosigs[i].cosignerID
              /\ sigs[i].key = cosigs[i].key /\ sigs[i].message = cosigs[i].message
    <2>1. sigs = [i \in 1 .. Len(cosigs) |->
                    [cosignerID |-> cosigs[i].cosignerID, key |-> cosigs[i].key,
                     message |-> cosigs[i].message]]
      BY <1>8
    <2>2. \A i \in 1 .. Len(cosigs) :
            [cosignerID |-> cosigs[i].cosignerID, key |-> cosigs[i].key,
             message |-> cosigs[i].message]
               \in [cosignerID : ID, key : ID, message : SubtreeMessage]
      BY <1>8, <1>9
    <2> QED
      BY <1>8, <2>1, <2>2
  <1>11. read \in Hash \cup {Damaged(h) : h \in Hash}
    BY <1>5
  <1> ok \in BOOLEAN
    OBVIOUS
  <1> HIDE DEF sigs, read, ok
  <1>12. ReadBack(issued) \in Readable
    BY <1>4, <1>6, <1>7, <1>10, <1>11 DEF Readable
  <1>13. HasMessages(ReadBack(issued))
    BY <1>4, <1>9, <1>10 DEF HasMessages, SubtreeMessage
  <1> DEFINE c == ReadBack(issued)
  <1>14. /\ c.issuer = CA /\ c.serial = SerialOf(LogNum, request.index)
         /\ c.start = request.start /\ c.end = request.end /\ c.hash = read
         /\ c.proofFits = TRUE /\ c.signatures = sigs /\ c.wellFormed = ok
    BY <1>4
  <1> HIDE DEF c
  <1>15. c.wellFormed <=> ok
    BY <1>14
  <1>16. /\ Len(c.signatures) = Len(cosigs) /\ DOMAIN c.signatures = DOMAIN cosigs
         /\ \A i \in DOMAIN cosigs :
              /\ c.signatures[i].cosignerID = cosigs[i].cosignerID
              /\ c.signatures[i].key = cosigs[i].key
              /\ c.signatures[i].message = cosigs[i].message
    BY <1>10, <1>14
  <1> QED
    BY <1>1, <1>5, <1>12, <1>13, <1>14, <1>15, <1>16 DEF c, ok, read

\* A line of the policy file, or another CA's certificate, changes nothing of
\* what the CA's certificate revokes.
LEMMA RevokedRangesGrow ==
    ASSUME PolicyTypeOK, PolicyNext
    PROVE  /\ CA \in DOMAIN cas' <=> CA \in DOMAIN cas
           /\ CA \in DOMAIN cas =>
                \/ cas'[CA].revokedRanges = cas[CA].revokedRanges
                \/ \E r : cas'[CA].revokedRanges = Append(cas[CA].revokedRanges, r)
  <1>1. ASSUME NEW ca \in CACertificates, AddCA(ca)
        PROVE  /\ CA \in DOMAIN cas' <=> CA \in DOMAIN cas
               /\ CA \in DOMAIN cas => cas'[CA] = cas[CA]
    <2>1. ca.id # CA
      BY GenerateAssumption DEF GenerateAssumption
    <2>2. cas' = cas \/ \E n : cas' = Put(cas, ca.id, NewCA(ca, n))
      BY <1>1 DEF AddCA, Abort, tables
    <2> QED
      BY <2>1, <2>2 DEF Put
  <1>2. ASSUME NEW ca \in ID, NEW n \in Name, RequireCosignersForCA(ca, n)
        PROVE  /\ CA \in DOMAIN cas' <=> CA \in DOMAIN cas
               /\ CA \in DOMAIN cas => cas'[CA].revokedRanges = cas[CA].revokedRanges
    <2>1. \/ cas' = cas
          \/ /\ ca \in DOMAIN cas
             /\ cas' = [cas EXCEPT ![ca].requirements = Append(@, names[n])]
      BY <1>2 DEF RequireCosignersForCA, Abort, tables
    <2>2. CA \in DOMAIN cas => cas[CA] \in TrustedCA
      BY DEF PolicyTypeOK
    <2> QED
      BY <2>1, <2>2 DEF TrustedCA
  <1>3. ASSUME NEW line \in SubtreeLines, AddTrustedSubtree(line)
        PROVE  /\ CA \in DOMAIN cas' <=> CA \in DOMAIN cas
               /\ CA \in DOMAIN cas => cas'[CA].revokedRanges = cas[CA].revokedRanges
    <2>1. \/ cas' = cas
          \/ \E t : cas' = [cas EXCEPT ![line.ca].trustedSubtrees = Append(@, t)]
      BY <1>3 DEF AddTrustedSubtree, Abort, tables
    <2>2. CA \in DOMAIN cas => cas[CA] \in TrustedCA
      BY DEF PolicyTypeOK
    <2> QED
      BY <2>1, <2>2 DEF TrustedCA
  <1>4. ASSUME NEW line \in RevokeLines, RevokeRange(line)
        PROVE  /\ CA \in DOMAIN cas' <=> CA \in DOMAIN cas
               /\ CA \in DOMAIN cas =>
                    \/ cas'[CA].revokedRanges = cas[CA].revokedRanges
                    \/ \E r : cas'[CA].revokedRanges = Append(cas[CA].revokedRanges, r)
    <2>1. \/ cas' = cas
          \/ \E r : cas' = [cas EXCEPT ![line.ca].revokedRanges = Append(@, r)]
      BY <1>4 DEF RevokeRange, Abort, tables
    <2>2. ASSUME NEW r, cas' = [cas EXCEPT ![line.ca].revokedRanges = Append(@, r)]
          PROVE  /\ CA \in DOMAIN cas' <=> CA \in DOMAIN cas
                 /\ CA \in DOMAIN cas =>
                      \/ cas'[CA].revokedRanges = cas[CA].revokedRanges
                      \/ cas'[CA].revokedRanges = Append(cas[CA].revokedRanges, r)
      <3>1. CA \in DOMAIN cas => cas[CA] \in TrustedCA
        BY DEF PolicyTypeOK
      <3> QED
        BY <2>2, <3>1 DEF TrustedCA
    <2> QED
      BY <2>1, <2>2
  <1>5. ASSUME \/ CACertsLoaded \/ PolicyFileRead
               \/ \E id \in ID, wellFormed \in BOOLEAN : AddCosigner(id, wellFormed)
               \/ \E line \in GroupLines : AddGroup(line)
               \/ \E n \in Name : RequireCosignersForAllCAs(n)
        PROVE  cas' = cas
    BY <1>5 DEF CACertsLoaded, PolicyFileRead, AddCosigner, AddGroup,
                RequireCosignersForAllCAs, Abort, tables
  <1> QED
    BY <1>1, <1>2, <1>3, <1>4, <1>5 DEF PolicyNext

-----------------------------------------------------------------------------

LEMMA EndToEndInvInit == EndToEndInit => EndToEndInv
  <1> SUFFICES ASSUME EndToEndInit PROVE EndToEndInv
    OBVIOUS
  <1>1. Inv /\ VerifierInv
    BY InvInit, VerifierInvInit DEF EndToEndInit
  <1>2. /\ issuing = "signing" /\ cas = <<>> /\ cert = NoCertificate
        /\ caConfig \in CAConfigs /\ caCert = NoCACertificate
    BY DEF EndToEndInit, IssuanceInit, VerifyInit, Init
  <1>3. DOMAIN cas = {}
    BY <1>2
  <1> QED
    BY <1>1, <1>2, <1>3 DEF EndToEndInv, EncodedInv, CACertInv, BoundsAreKept,
                            VerdictInv, PresentedInv

\* What the verifier does leaves the certificates as they were made.
LEMMA CertificatesStay ==
    ASSUME EndToEndInv, UNCHANGED <<caVars, issuanceVars>>
    PROVE  /\ Inv' /\ EncodedInv' /\ CACertInv'
           /\ ReadBack(issued)' = ReadBack(issued)
  <1>1. Inv'
    BY InvNext DEF EndToEndInv
  <1>2. /\ issuing' = issuing /\ request' = request /\ cosigs' = cosigs
        /\ issued' = issued /\ caConfig' = caConfig /\ caCert' = caCert
    BY DEF issuanceVars, caVars
  <1>3. EncodedInv'
    BY <1>2 DEF EndToEndInv, EncodedInv, EntryExists, SerialIsValid, ProofExists
  <1>4. CACertInv'
    BY <1>2 DEF EndToEndInv, CACertInv
  <1> QED
    BY <1>1, <1>2, <1>3, <1>4 DEF ReadBack

\* Before the certificate is issued nothing has been loaded or presented.
LEMMA VerifierWaits ==
    ASSUME EndToEndInv, issuing # "done", UNCHANGED vars
    PROVE  VerifierInv' /\ VerdictInv' /\ BoundsAreKept' /\ PresentedInv'
  <1>1. VerifierInv'
    BY StutterStep DEF EndToEndInv
  <1>2. CA \notin DOMAIN cas /\ cert = NoCertificate
    BY DEF EndToEndInv, BoundsAreKept, PresentedInv
  <1>3. cas' = cas /\ cert' = cert
    BY DEF vars, policyVars, verifyVars
  <1> QED
    BY <1>1, <1>2, <1>3 DEF BoundsAreKept, PresentedInv, VerdictInv

LEMMA CreateCACertificateStep ==
    ASSUME EndToEndInv, CreateCACertificate
    PROVE  EndToEndInv'
  <1>1. /\ caCert = NoCACertificate /\ issuing # "done"
        /\ BoundsAreValid(caConfig.min, caConfig.max) /\ caConfig' = caConfig
        /\ caCert' = CACertificateOf(caConfig.min, caConfig.max, caConfig.override)
        /\ UNCHANGED issuanceVars /\ UNCHANGED vars
    BY DEF CreateCACertificate, EndToEndInv, CACertInv
  <1>2. Inv'
    BY <1>1, InvNext DEF EndToEndInv
  <1>3. /\ issuing' = issuing /\ request' = request /\ cosigs' = cosigs
    BY <1>1 DEF issuanceVars
  <1>4. EncodedInv'
    BY <1>3 DEF EndToEndInv, EncodedInv, EntryExists, SerialIsValid, ProofExists
  <1>5. CACertInv'
    BY <1>1, <1>3 DEF EndToEndInv, CACertInv
  <1>6. VerifierInv' /\ VerdictInv' /\ BoundsAreKept' /\ PresentedInv'
    BY <1>1, VerifierWaits
  <1> QED
    BY <1>2, <1>4, <1>5, <1>6 DEF EndToEndInv

LEMMA CreateCertificateStep ==
    ASSUME EndToEndInv, CreateCertificate
    PROVE  EndToEndInv'
  <1>1. /\ caCert # NoCACertificate /\ IssuanceNext /\ UNCHANGED caVars /\ UNCHANGED vars
    BY DEF CreateCertificate
  <1>2. Inv'
    BY <1>1, InvNext DEF EndToEndInv
  <1>3. issuing # "done"
    BY <1>1 DEF IssuanceNext, RefuseRequest, CosignNext, SortCosigs, RetryCosigs, Encode
  <1>4. EncodedInv'
    <2>1. CASE RefuseRequest
      BY <2>1 DEF RefuseRequest, Fail, EncodedInv
    <2>2. CASE CosignNext
      BY <2>2 DEF CosignNext, EncodedInv
    <2>3. CASE SortCosigs
      <3>1. /\ EntryExists /\ request' = request /\ issuing' = "signed"
            /\ ~request.dontSort => IsSorted(cosigs')
        <4>1. request.plants04
          BY GenerateAssumption DEF GenerateAssumption, EndToEndInv, Inv, IssuanceTypeOK
        <4> QED
          BY <2>3, <4>1 DEF SortCosigs
      <3> QED
        BY <3>1 DEF EncodedInv, EntryExists, IsSorted
    <2>4. CASE RetryCosigs
      BY <2>4 DEF RetryCosigs, EncodedInv
    <2>5. CASE Encode
      <3>1. /\ issuing = "signed" /\ request' = request /\ cosigs' = cosigs
            /\ \/ issuing' = "done" /\ SerialIsValid /\ ProofExists
               \/ issuing' \in {"failed", "gave up"}
        BY <2>5 DEF Encode, Fail
      <3> QED
        BY <3>1 DEF EndToEndInv, EncodedInv, EntryExists, IsSorted, SerialIsValid, ProofExists
    <2> QED
      BY <1>1, <2>1, <2>2, <2>3, <2>4, <2>5 DEF IssuanceNext
  <1>5. CACertInv'
    BY <1>1 DEF EndToEndInv, CACertInv, caVars
  <1>6. VerifierInv' /\ VerdictInv' /\ BoundsAreKept' /\ PresentedInv'
    BY <1>1, <1>3, VerifierWaits
  <1> QED
    BY <1>2, <1>4, <1>5, <1>6 DEF EndToEndInv

LEMMA LoadCACertificateStep ==
    ASSUME EndToEndInv, LoadCACertificate
    PROVE  EndToEndInv'
  <1>1. /\ issuing = "done" /\ AddCA(caCert)
        /\ UNCHANGED <<caVars, issuanceVars>> /\ UNCHANGED verifyVars
    BY DEF LoadCACertificate
  <1>2. caCert # NoCACertificate
    BY <1>1 DEF EndToEndInv, CACertInv
  <1>3. caCert \in CACertificate /\ caCert.id = CA
    BY <1>2, MadeCertificateLoads DEF EndToEndInv
  <1>4. AnyPolicyStep
    BY <1>1, <1>3 DEF AnyPolicyStep
  <1>5. VerifierInv' /\ VerdictInv'
    BY <1>1, <1>4, PolicyStep, VerdictOfPolicyStep DEF EndToEndInv
  <1>6. issuing' = issuing /\ caCert' = caCert /\ cert' = cert
    BY <1>1 DEF issuanceVars, caVars, verifyVars
  <1>7. PresentedInv'
    BY <1>1, <1>6, CertificatesStay DEF EndToEndInv, PresentedInv
  <1>8. BoundsAreKept'
    <2>1. CASE cas' = cas
      BY <1>6, <2>1 DEF EndToEndInv, BoundsAreKept
    <2>2. CASE caCert.wellFormed /\ cas' = Put(cas, CA, NewCA(caCert, Len(cosigners')))
      <3>1. cas'[CA].revokedRanges = OutsideRanges(caCert)
        BY <2>2 DEF Put, NewCA
      <3>2. Len(OutsideRanges(caCert)) \in Nat
        BY DEF OutsideRanges
      <3> QED
        BY <1>1, <1>6, <2>2, <3>1, <3>2 DEF BoundsAreKept
    <2> QED
      BY <1>1, <1>3, <2>1, <2>2 DEF AddCA, Abort, tables
  <1> QED
    BY <1>1, <1>5, <1>7, <1>8, CertificatesStay DEF EndToEndInv

LEMMA ReadPolicyFileStep ==
    ASSUME EndToEndInv, ReadPolicyFile
    PROVE  EndToEndInv'
  <1>1. /\ issuing = "done" /\ PolicyNext
        /\ UNCHANGED <<caVars, issuanceVars>> /\ UNCHANGED verifyVars
    BY DEF ReadPolicyFile
  <1>2. VerifierInv' /\ VerdictInv'
    BY <1>1, PolicyNextIsStep, PolicyStep, VerdictOfPolicyStep DEF EndToEndInv
  <1>3. issuing' = issuing /\ caCert' = caCert /\ cert' = cert
    BY <1>1 DEF issuanceVars, caVars, verifyVars
  <1>4. PresentedInv'
    BY <1>1, <1>3, CertificatesStay DEF EndToEndInv, PresentedInv
  <1>5. BoundsAreKept'
    <2> SUFFICES ASSUME CA \in DOMAIN cas' PROVE BoundsAreKept'
      BY DEF BoundsAreKept
    <2> DEFINE ranges == cas[CA].revokedRanges
               n == Len(OutsideRanges(caCert))
    <2>1. PolicyTypeOK
      BY DEF EndToEndInv, VerifierInv, VerifierTypeOK
    <2>2. /\ CA \in DOMAIN cas
          /\ \/ cas'[CA].revokedRanges = ranges
             \/ \E r : cas'[CA].revokedRanges = Append(ranges, r)
      BY <1>1, <2>1, RevokedRangesGrow
    <2>3. /\ caCert.wellFormed /\ n <= Len(ranges)
          /\ \A i \in 1 .. n : ranges[i] = OutsideRanges(caCert)[i]
      BY <2>2 DEF EndToEndInv, BoundsAreKept
    <2>4. ranges \in Seq(RevokedRange)
      BY <2>1, <2>2 DEF PolicyTypeOK, TrustedCA
    <2>5. n \in Nat /\ Len(ranges) \in Nat
      BY <2>4 DEF OutsideRanges
    <2> HIDE DEF ranges, n
    <2>6. /\ Len(cas'[CA].revokedRanges) \in Nat
          /\ Len(ranges) <= Len(cas'[CA].revokedRanges)
          /\ \A i \in 1 .. n : cas'[CA].revokedRanges[i] = ranges[i]
      <3>1. CASE cas'[CA].revokedRanges = ranges
        BY <2>5, <3>1
      <3>2. CASE cas'[CA].revokedRanges # ranges
        <4>1. PICK x : cas'[CA].revokedRanges = Append(ranges, x)
          BY <2>2, <3>2
        <4> DEFINE longer == Append(ranges, x)
                   S == RevokedRange \cup {x}
        <4>2. ranges \in Seq(S) /\ x \in S
          BY <2>4
        <4> HIDE DEF S
        <4>3. /\ Len(longer) = Len(ranges) + 1
              /\ \A i \in 1 .. Len(ranges) : longer[i] = ranges[i]
          BY <4>2
        <4> HIDE DEF longer
        <4>4. cas'[CA].revokedRanges = longer
          BY <4>1 DEF longer
        <4> QED
          BY <2>3, <2>5, <4>3, <4>4
      <3> QED
        BY <3>1, <3>2
    <2>7. n <= Len(cas'[CA].revokedRanges)
      BY <2>3, <2>5, <2>6
    <2> QED
      BY <1>1, <1>3, <2>3, <2>6, <2>7 DEF BoundsAreKept, n
  <1> QED
    BY <1>1, <1>2, <1>4, <1>5, CertificatesStay DEF EndToEndInv

LEMMA PresentStep ==
    ASSUME EndToEndInv, Present
    PROVE  EndToEndInv'
  <1> DEFINE c == ReadBack(issued)
  <1>1. /\ issuing = "done" /\ VerifyMTCProof(c) /\ UNCHANGED <<caVars, issuanceVars>>
    BY DEF Present
  <1>2. c \in Readable
    BY <1>1, ReadBackFacts DEF EndToEndInv
  <1>3. c # NoCertificate
    BY <1>2, ReadableAssumption DEF ReadableAssumption
  <1> HIDE DEF c
  <1>4. VerifierInv' /\ VerdictInv'
    BY <1>1, <1>3, VerifyMTCProofStep, VerdictOfCertificate DEF EndToEndInv
  <1>5. issuing' = issuing /\ caCert' = caCert /\ cas' = cas /\ cert' = c
    BY <1>1 DEF issuanceVars, caVars, VerifyMTCProof, policyVars
  <1>6. BoundsAreKept'
    BY <1>5 DEF EndToEndInv, BoundsAreKept
  <1>7. PresentedInv'
    BY <1>1, <1>5, CertificatesStay DEF PresentedInv, c
  <1> QED
    BY <1>1, <1>4, <1>6, <1>7, CertificatesStay DEF EndToEndInv

LEMMA JudgePresentedStep ==
    ASSUME EndToEndInv, JudgePresented
    PROVE  EndToEndInv'
  <1>1. UNCHANGED <<caVars, issuanceVars>>
    BY DEF JudgePresented
  <1>2. VerifierInv' /\ VerdictInv'
    BY EvaluateGroupStep, CheckRequirementsStep, ReportAndExitStep, VerdictOfJudgement
       DEF JudgePresented, EndToEndInv
  <1>3. /\ issuing' = issuing /\ caCert' = caCert /\ cas' = cas
        /\ cert' \in {cert, NoCertificate}
    BY DEF JudgePresented, issuanceVars, caVars, EvaluateGroup, CheckRequirements,
           ReportResult, Exit, policyVars, verifyVars, tables
  <1>4. BoundsAreKept'
    BY <1>3 DEF EndToEndInv, BoundsAreKept
  <1>5. PresentedInv'
    BY <1>1, <1>3, CertificatesStay DEF EndToEndInv, PresentedInv
  <1> QED
    BY <1>1, <1>2, <1>4, <1>5, CertificatesStay DEF EndToEndInv

LEMMA EndToEndInvStep ==
    EndToEndInv /\ [EndToEndNext]_<<caVars, issuanceVars, vars>> => EndToEndInv'
  <1>1. ASSUME EndToEndInv, UNCHANGED <<caVars, issuanceVars, vars>>
        PROVE  EndToEndInv'
    <2>1. VerifierInv' /\ VerdictInv'
      BY <1>1, StutterStep, VerdictOfJudgement DEF EndToEndInv
    <2>2. issuing' = issuing /\ caCert' = caCert /\ cas' = cas /\ cert' = cert
      BY <1>1 DEF issuanceVars, caVars, vars, policyVars, verifyVars
    <2>3. BoundsAreKept'
      BY <1>1, <2>2 DEF EndToEndInv, BoundsAreKept
    <2>4. PresentedInv'
      BY <1>1, <2>2, CertificatesStay DEF EndToEndInv, PresentedInv
    <2> QED
      BY <1>1, <2>1, <2>3, <2>4, CertificatesStay DEF EndToEndInv
  <1> QED
    BY <1>1, CreateCACertificateStep, CreateCertificateStep, LoadCACertificateStep,
       ReadPolicyFileStep, PresentStep, JudgePresentedStep DEF EndToEndNext

LEMMA EndToEndInvAlways == EndToEndSpec => []EndToEndInv
  BY EndToEndInvInit, EndToEndInvStep, PTL DEF EndToEndSpec

-----------------------------------------------------------------------------

\* Where the certificate is: its serial number names its log and its entry.
LEMMA IssuedPosition ==
    ASSUME Inv, EncodedInv, issuing = "done"
    PROVE  /\ LogNum \in LogNumber /\ LogNum \in Nat /\ request.index \in Index
           /\ SerialOf(LogNum, request.index) \in Serial
           /\ LogOf(SerialOf(LogNum, request.index)) = LogNum
           /\ IndexOf(SerialOf(LogNum, request.index)) = request.index
           /\ LogNamed(request) = LogNum
  <1>1. request \in Requests /\ SerialIsValid
    BY DEF Inv, IssuanceTypeOK, EncodedInv
  <1>2. request.plants04 /\ request.index \in Nat
    BY <1>1, GenerateAssumption, RequestType DEF GenerateAssumption
  <1>3. IndexCount \in Nat \ {0} /\ LogCount \in Nat \ {0}
    BY SerialAssumption
  <1>4. request.index \in 0 .. IndexCount - 1
    BY <1>1, <1>2, <1>3 DEF SerialIsValid
  <1>5. LogNum \in LogNumber /\ LogNum \in Nat
    BY <1>3, IssuanceAssumption DEF IssuanceAssumption, LogNumber
  <1>6. SerialOf(LogNum, request.index) \in Serial
    BY <1>4, <1>5, SerialOfInRange DEF Index
  <1>7. /\ LogOf(SerialOf(LogNum, request.index)) = LogNum
        /\ IndexOf(SerialOf(LogNum, request.index)) = request.index
    BY <1>3, <1>4, <1>5, Unpacked DEF LogOf, IndexOf, SerialOf
  <1> QED
    BY <1>2, <1>4, <1>5, <1>6, <1>7 DEF Index, LogNamed

\* Its inclusion proof evaluates.
LEMMA IssuedProofEvaluates ==
    ASSUME Inv, EncodedInv, issuing = "done"
    PROVE  ProofEvaluates(ReadBack(issued))
  <1> DEFINE c == ReadBack(issued)
  <1>1. /\ c.start = request.start /\ c.end = request.end /\ c.proofFits = TRUE
        /\ IndexOf(c.serial) = request.index
    BY ReadBackFacts, IssuedPosition
  <1>2. /\ request.start <= request.index /\ request.index < request.end
        /\ subtree(request.start, request.end) # NoHash
    BY DEF EncodedInv, ProofExists, EntryExists
  <1>3. IsValidSubtree(request.start, request.end)
    BY <1>2 DEF subtree, SubtreeHash
  <1> HIDE DEF c
  <1> QED
    BY <1>1, <1>2, <1>3 DEF ProofEvaluates, c

\* A certificate that lies within the bounds is not revoked by them, so that
\* what is left is what the policy file revokes.
LEMMA RevokedOnlyOutOfBounds ==
    ASSUME EndToEndInv, issuing = "done", CA \in DOMAIN cas
    PROVE  LogNum # 0 /\ ~Revoked(ReadBack(issued)) <=> WithinBounds /\ ~RevokedByPolicyFile
  <1> DEFINE serial == SerialOf(LogNum, request.index)
             ranges == cas[CA].revokedRanges
             outside == OutsideRanges(caCert)
             Hit(r) == r.min <= serial /\ serial <= r.max
  <1>1. Inv /\ EncodedInv /\ CACertInv /\ BoundsAreKept /\ PolicyTypeOK
    BY DEF EndToEndInv, VerifierInv, VerifierTypeOK
  <1>2. /\ ReadBack(issued).issuer = CA /\ ReadBack(issued).serial = serial
        /\ issued = CertificateOf(request, cosigs)
    BY <1>1, ReadBackFacts
  <1>3. /\ serial \in Serial /\ LogNum \in Nat /\ request.index \in 0 .. IndexCount - 1
        /\ issued.serial = serial
    <2>1. request.plants04
      BY <1>1, GenerateAssumption DEF GenerateAssumption, Inv, IssuanceTypeOK
    <2> QED
      BY <1>1, <1>2, <2>1, IssuedPosition DEF Index, CertificateOf
  <1>4. caCert # NoCACertificate
    BY <1>1 DEF CACertInv
  <1>5. /\ caCert \in CACertificate
        /\ caCert = CACertificateOf(caConfig.min, caConfig.max, caConfig.override)
        /\ BoundsAreValid(caConfig.min, caConfig.max)
    BY <1>1, <1>4, MadeCertificateLoads DEF CACertInv
  <1>6. /\ caConfig.min.log \in Nat /\ caConfig.max.log \in Nat
        /\ caConfig.min.index \in 0 .. IndexCount - 1
        /\ caConfig.max.index \in 0 .. IndexCount - 1
        /\ caConfig.min = [log |-> caConfig.min.log, index |-> caConfig.min.index]
        /\ caConfig.max = [log |-> caConfig.max.log, index |-> caConfig.max.index]
    <2>1. /\ caConfig.min \in [log : LogNumber, index : Nat]
          /\ caConfig.max \in [log : LogNumber, index : Nat]
      BY <1>1, CAConfigAssumption DEF CAConfigAssumption, CACertInv
    <2>2. LogNumber \subseteq Nat /\ IndexCount \in Nat
      BY SerialAssumption DEF LogNumber
    <2>3. caConfig.min.index < IndexCount /\ caConfig.max.index < IndexCount
      BY <1>5 DEF BoundsAreValid
    <2>4. /\ caConfig.min.log \in Nat /\ caConfig.max.log \in Nat
          /\ caConfig.min.index \in Nat /\ caConfig.max.index \in Nat
      BY <2>1, <2>2
    <2>5. /\ caConfig.min = [log |-> caConfig.min.log, index |-> caConfig.min.index]
          /\ caConfig.max = [log |-> caConfig.max.log, index |-> caConfig.max.index]
      BY <2>1
    <2> QED
      BY <2>2, <2>3, <2>4, <2>5
  <1>7. /\ caCert.minSerial = SerialOf(caConfig.min.log, caConfig.min.index)
        /\ caCert.maxSerial = SerialOf(caConfig.max.log, caConfig.max.index)
        /\ caCert.minSerial \in Nat /\ caCert.maxSerial \in Nat /\ serial \in Nat
    BY <1>3, <1>5, SerialIsNat DEF CACertificateOf, CACertificate
  <1> DEFINE position == [log |-> LogNum, index |-> request.index]
  <1>8. /\ caCert.minSerial <= serial <=> Precedes(caConfig.min, position)
        /\ serial <= caCert.maxSerial <=> Precedes(position, caConfig.max)
    BY <1>3, <1>6, <1>7, PrecedesBySerial
  <1>9. (\E i \in DOMAIN outside : Hit(outside[i]))
          <=> ~(Precedes(caConfig.min, position) /\ Precedes(position, caConfig.max))
    <2>1. (\E i \in DOMAIN outside : Hit(outside[i]))
             <=> serial < caCert.minSerial \/ serial > caCert.maxSerial
      BY <1>3, <1>5, OutsideRangesMean
    <2> HIDE DEF serial, outside, position, Hit
    <2> QED
      BY <1>7, <1>8, <2>1
  <1>10. WithinBounds <=> LogNum # 0 /\ ~(\E i \in DOMAIN outside : Hit(outside[i]))
    BY <1>9 DEF WithinBounds
  <1>11. /\ DOMAIN outside = 1 .. Len(outside) /\ Len(outside) \in Nat
         /\ DOMAIN ranges = 1 .. Len(ranges) /\ Len(ranges) \in Nat
         /\ Len(outside) <= Len(ranges)
         /\ \A i \in 1 .. Len(outside) : ranges[i] = outside[i]
    <2>1. ranges \in Seq(RevokedRange)
      BY <1>1 DEF PolicyTypeOK, TrustedCA
    <2>2. DOMAIN outside = 1 .. Len(outside) /\ Len(outside) \in Nat
      BY DEF OutsideRanges
    <2> QED
      BY <1>1, <2>1, <2>2 DEF BoundsAreKept
  <1>12. RevokedByPolicyFile <=> \E i \in Len(outside) + 1 .. Len(ranges) : Hit(ranges[i])
    BY <1>3 DEF RevokedByPolicyFile
  <1>13. Revoked(ReadBack(issued)) <=> \E i \in DOMAIN ranges : Hit(ranges[i])
    BY <1>2 DEF Revoked
  <1> HIDE DEF Hit, ranges, outside
  <1>14. (\E i \in DOMAIN ranges : Hit(ranges[i]))
           <=> \/ \E i \in DOMAIN outside : Hit(outside[i])
               \/ \E i \in Len(outside) + 1 .. Len(ranges) : Hit(ranges[i])
    BY <1>11
  <1> QED
    BY <1>10, <1>12, <1>13, <1>14

\* The order the verifier asks for is the one `generate` leaves, unless a
\* cosigner is there twice or the order was to be left as it is.
LEMMA IssuedInOrder ==
    ASSUME Inv, EncodedInv, issuing = "done"
    PROVE  InCanonicalOrder(ReadBack(issued).signatures) <=>
             /\ \A i, j \in DOMAIN issued.cosignatures :
                   i # j => issued.cosignatures[i].cosignerID # issued.cosignatures[j].cosignerID
             /\ request.dontSort => InCanonicalOrder(issued.cosignatures)
  <1>1. /\ cosigs \in Seq(Cosignature) /\ issued.cosignatures = cosigs
        /\ ~request.dontSort => IsSorted(cosigs)
    BY DEF Inv, IssuanceTypeOK, EncodedInv, CertificateOf
  <1>2. InCanonicalOrder(ReadBack(issued).signatures) <=> InCanonicalOrder(cosigs)
    <2> DEFINE sigs == ReadBack(issued).signatures
    <2>1. /\ Len(sigs) = Len(cosigs) /\ Len(cosigs) \in Nat
          /\ \A i \in 1 .. Len(cosigs) : sigs[i].cosignerID = cosigs[i].cosignerID
      BY <1>1, ReadBackFacts
    <2> HIDE DEF sigs
    <2>2. \A i \in 1 .. Len(cosigs) - 1 : i \in 1 .. Len(cosigs) /\ i + 1 \in 1 .. Len(cosigs)
      BY <2>1
    <2>3. InCanonicalOrder(sigs) <=> InCanonicalOrder(cosigs)
      BY <2>1, <2>2 DEF InCanonicalOrder
    <2> QED
      BY <2>3 DEF sigs
  <1> QED
    BY <1>1, <1>2, OrderedIsSortedAndDistinct

\* So the certificate passes the checks that come before the cosigners exactly
\* when nothing in its request spoils it and it is within its bounds and not
\* revoked; that a damaged proof is refused is left to its hash.
LEMMA EligibleMeans ==
    ASSUME EndToEndInv, issuing = "done"
    PROVE  Eligible(ReadBack(issued)) /\ ~request.bitFlip <=>
             CA \in DOMAIN cas /\ MeantToBeRead /\ WithinBounds /\ ~RevokedByPolicyFile
  <1> DEFINE c == ReadBack(issued)
  <1>1. Inv /\ EncodedInv
    BY DEF EndToEndInv
  <1>2. /\ c.issuer = CA /\ LogOf(c.serial) = LogNum
        /\ c.wellFormed <=> ~request.unusedBit /\ ~request.override
    BY <1>1, ReadBackFacts, IssuedPosition
  <1>3. ProofEvaluates(c)
    BY <1>1, IssuedProofEvaluates
  <1>4. MeantToBeRead <=>
          ~request.unusedBit /\ ~request.override /\ ~request.bitFlip
            /\ InCanonicalOrder(c.signatures)
    BY <1>1, IssuedInOrder DEF MeantToBeRead
  <1>5. CA \in DOMAIN cas =>
          (LogNum # 0 /\ ~Revoked(c) <=> WithinBounds /\ ~RevokedByPolicyFile)
    BY RevokedOnlyOutOfBounds
  <1> HIDE DEF c
  <1>6. Eligible(c) <=>
          /\ CA \in DOMAIN cas /\ ~request.unusedBit /\ ~request.override
          /\ InCanonicalOrder(c.signatures) /\ ~Revoked(c) /\ LogNum # 0
    BY <1>2, <1>3, Zenon DEF Eligible
  <1> QED
    BY <1>4, <1>5, <1>6, Zenon DEF c

\* The cosigners whose signature counts are those that were asked to sign, and
\* that the policy knows.
LEMMA SignersWereAsked ==
    ASSUME Inv, EncodedInv, issuing = "done", ~request.bitFlip
    PROVE  Signers(ReadBack(issued)) = AskedToSign \cap CosignerIDs
  <1> DEFINE c == ReadBack(issued)
             extras == Len(request.extra)
             asked == Len(request.cosigners)
  <1>1. /\ request \in Requests /\ cosigs \in Seq(Cosignature) /\ WellSigned(cosigs, request)
    BY DEF Inv, IssuanceTypeOK, Progress
  <1>2. /\ DOMAIN cosigs = 1 .. extras + asked /\ extras \in Nat /\ asked \in Nat
        /\ DOMAIN request.extra = 1 .. extras /\ DOMAIN request.cosigners = 1 .. asked
    BY <1>1, RequestType DEF WellSigned
  <1>3. /\ DOMAIN c.signatures = DOMAIN cosigs
        /\ \A i \in DOMAIN cosigs :
             /\ c.signatures[i].cosignerID = cosigs[i].cosignerID
             /\ c.signatures[i].key = cosigs[i].key
             /\ c.signatures[i].message = cosigs[i].message
        /\ HasMessages(c) /\ c.issuer = CA /\ LogOf(c.serial) = LogNum
        /\ LogNamed(request) = LogNum
        /\ c.start = request.start /\ c.end = request.end
        /\ c.hash = subtree(request.start, request.end)
    BY ReadBackFacts, IssuedPosition
  <1> HIDE DEF c
  <1>4. ASSUME NEW i \in DOMAIN cosigs, NEW id
        PROVE  Endorses(c.signatures[i], id, c) <=> CosignsRequest(cosigs[i], id, request)
    <2> DEFINE m == cosigs[i].message
    <2>1. m \in [cosigner : ID, ca : ID, log : LogNumber, timestamp : Nat,
                 start : Nat, end : Nat, hash : Hash]
      BY <1>3 DEF HasMessages
    <2> HIDE DEF m
    <2>2. m = [cosigner |-> id, ca |-> CA, log |-> LogNum, timestamp |-> 0,
               start |-> c.start, end |-> c.end, hash |-> c.hash] <=>
            /\ m.cosigner = id /\ m.ca = CA /\ m.log = LogNum /\ m.timestamp = 0
            /\ m.start = c.start /\ m.end = c.end /\ m.hash = c.hash
      BY <2>1
    <2> QED
      BY <1>3, <2>2 DEF Endorses, CosignsRequest, m
  <1>5. PICK order \in Bijection(DOMAIN cosigs, DOMAIN cosigs) :
          \A i \in DOMAIN cosigs :
             IF order[i] <= extras THEN cosigs[i] = request.extra[order[i]]
             ELSE CosignsRequest(cosigs[i], request.cosigners[order[i] - extras], request)
    BY <1>1 DEF WellSigned
  <1> HIDE DEF extras, asked
  <1>6. /\ \A i \in DOMAIN cosigs : order[i] \in DOMAIN cosigs
        /\ \A k \in DOMAIN cosigs : \E i \in DOMAIN cosigs : order[i] = k
    BY DEF Bijection, Injection, Surjection
  <1>7. ASSUME NEW id
        PROVE  (\E i \in DOMAIN cosigs : CosignsRequest(cosigs[i], id, request))
                 <=> id \in AskedToSign
    <2>1. ASSUME NEW i \in DOMAIN cosigs, CosignsRequest(cosigs[i], id, request)
          PROVE  id \in AskedToSign
      <3>1. cosigs[i].cosignerID = id
        BY <2>1 DEF CosignsRequest
      <3>2. CASE order[i] <= extras
        <4>1. order[i] \in DOMAIN request.extra /\ cosigs[i] = request.extra[order[i]]
          BY <1>2, <1>5, <1>6, <3>2
        <4> QED
          BY <2>1, <3>1, <4>1 DEF AskedToSign
      <3>3. CASE ~(order[i] <= extras)
        <4>1. CosignsRequest(cosigs[i], request.cosigners[order[i] - extras], request)
          BY <1>5, <3>3
        <4>2. order[i] \in 1 .. extras + asked
          BY <1>2, <1>6
        <4>3. order[i] - extras \in 1 .. asked
          BY <1>2, <3>3, <4>2
        <4> QED
          BY <1>2, <3>1, <4>1, <4>3 DEF CosignsRequest, AskedToSign
      <3> QED
        BY <3>2, <3>3
    <2>2. ASSUME NEW k \in DOMAIN request.cosigners, request.cosigners[k] = id
          PROVE  \E i \in DOMAIN cosigs : CosignsRequest(cosigs[i], id, request)
      <3>1. extras + k \in DOMAIN cosigs /\ (extras + k) - extras = k /\ ~(extras + k <= extras)
        BY <1>2
      <3>2. PICK i \in DOMAIN cosigs : order[i] = extras + k
        BY <1>6, <3>1
      <3> QED
        BY <1>5, <2>2, <3>1, <3>2
    <2>3. ASSUME NEW k \in DOMAIN request.extra,
                 CosignsRequest(request.extra[k], request.extra[k].cosignerID, request),
                 request.extra[k].cosignerID = id
          PROVE  \E i \in DOMAIN cosigs : CosignsRequest(cosigs[i], id, request)
      <3>1. k \in DOMAIN cosigs /\ k <= extras
        BY <1>2
      <3>2. PICK i \in DOMAIN cosigs : order[i] = k
        BY <1>6, <3>1
      <3> QED
        BY <1>5, <2>3, <3>1, <3>2
    <2> QED
      BY <2>1, <2>2, <2>3 DEF AskedToSign
  <1> QED
    BY <1>3, <1>4, <1>7 DEF Signers, c

-----------------------------------------------------------------------------

\* The trusted hash of the certificate's position, one at most, is a hash.
LEMMA TrustedHashFacts ==
    ASSUME EndToEndInv, issuing = "done", CA \in DOMAIN cas
    PROVE  /\ TrustedHash = FindTrustedSubtree(cas[CA], ReadBack(issued))
           /\ TrustedHash \subseteq Hash
           /\ \A g, h \in TrustedHash : g = h
  <1> DEFINE lines == cas[CA].trustedSubtrees
  <1>1. lines \in Seq(TrustedSubtree)
    BY DEF EndToEndInv, VerifierInv, VerifierTypeOK, PolicyTypeOK, TrustedCA
  <1>2. /\ ReadBack(issued).serial = issued.serial
        /\ ReadBack(issued).start = issued.start /\ ReadBack(issued).end = issued.end
    BY DEF ReadBack
  <1>3. Matches(cas[CA], issued) = Matches(cas[CA], ReadBack(issued))
    BY <1>2 DEF Matches
  <1>4. Matches(cas[CA], issued) \subseteq DOMAIN lines /\ DOMAIN lines \subseteq Nat
    BY <1>1 DEF Matches
  <1>5. \A i \in DOMAIN lines : lines[i].hash \in Hash
    <2> SUFFICES ASSUME NEW i \in DOMAIN lines PROVE lines[i].hash \in Hash
      OBVIOUS
    <2>1. lines[i] \in TrustedSubtree
      BY <1>1
    <2> QED
      BY <2>1 DEF TrustedSubtree
  <1> QED
    BY <1>3, <1>4, <1>5 DEF TrustedHash, FindTrustedSubtree

\* A verdict on a certificate is one on the certificate that was issued.
LEMMA JudgedIsIssued ==
    ASSUME EndToEndInv, verdict # "none"
    PROVE  /\ issuing = "done" /\ cert = ReadBack(issued) /\ cert.issuer = CA
           /\ HasMessages(cert) /\ PolicyInv /\ VerifierInv /\ cert # NoCertificate
           /\ CosignerIDs \in SUBSET ID
  <1>1. /\ cert # NoCertificate /\ issuing = "done" /\ cert = ReadBack(issued)
    BY DEF EndToEndInv, VerifierInv, JudgementInv, PresentedInv
  <1>2. cert.issuer = CA /\ HasMessages(cert)
    BY <1>1, ReadBackFacts DEF EndToEndInv
  <1>3. VerifierInv /\ PolicyInv
    BY DEF EndToEndInv, VerifierInv, VerifierTypeOK, PolicyInv
  <1>4. CosignerIDs \in SUBSET ID
    BY <1>3 DEF PolicyInv, PolicyTypeOK, CosignerIDs
  <1> QED
    BY <1>1, <1>2, <1>3, <1>4

\* A certificate whose proof is damaged is not signed by anyone.
LEMMA DamagedIsUnsigned ==
    ASSUME EndToEndInv, verdict # "none", request.bitFlip
    PROVE  cert.hash \notin Hash /\ Signers(cert) = {}
  <1>1. cert.hash \notin Hash
    BY JudgedIsIssued, ReadBackFacts, DamagedAssumption DEF EndToEndInv, DamagedAssumption
  <1>2. \A i \in DOMAIN cert.signatures : cert.signatures[i].message.hash \in Hash
    BY JudgedIsIssued DEF HasMessages
  <1> QED
    BY <1>1, <1>2 DEF Signers, Endorses

\* The verdict reached by counting cosignatures is that of the policy's
\* meaning for the cosigners asked to sign.
LEMMA CountedVerdict ==
    ASSUME EndToEndInv, verdict \in {"cosigned", "unsatisfied"}
    PROVE  verdict = "cosigned" <=> RequirementsMet /\ ~request.bitFlip
  <1>1. /\ issuing = "done" /\ cert = ReadBack(issued) /\ cert.issuer = CA
        /\ HasMessages(cert) /\ PolicyInv /\ VerifierInv /\ cert # NoCertificate
    BY JudgedIsIssued
  <1>2. Counting /\ CountingInv
    BY <1>1 DEF VerifierInv, JudgementInv, Counting
  <1>3. /\ next = Len(groups) + 1 /\ CA \in DOMAIN cas
        /\ verdict = "cosigned" <=> PolicySatisfied
    BY <1>1, <1>2 DEF CountingInv
  <1>4. verdict = "cosigned" <=>
          {CA} \cup RequiredOf(CA) \cup RequiredOfAll \subseteq SatisfiedNames
    BY <1>1, <1>2, <1>3, RequirementsByName
  <1>5. SatisfiedNames \subseteq Name /\ IsMeaning(SatisfiedNames, Signers(cert), GroupDefs)
    BY <1>1, <1>2, <1>3, SatisfiedNamesAreTheMeaning
  <1>6. Signers(cert) \in SUBSET CosignerIDs /\ CA \in CosignerIDs
    <2>1. CACosignersResolve
      BY <1>1 DEF PolicyInv, IndexesResolve
    <2> QED
      BY <1>3, <2>1 DEF Signers, CosignerIDs, CACosignersResolve
  <1>7. CA \in SatisfiedNames <=> CA \in Signers(cert)
    BY <1>1, <1>5, <1>6, MeaningOfNames
  <1>8. CASE request.bitFlip
    BY <1>4, <1>7, <1>8, DamagedIsUnsigned
  <1>9. CASE ~request.bitFlip
    <2>1. Signers(cert) = AskedToSign \cap CosignerIDs
      BY <1>1, <1>9, SignersWereAsked DEF EndToEndInv
    <2>2. ASSUME NEW X, IsMeaning(X, AskedToSign \cap CosignerIDs, GroupDefs)
          PROVE  X = SatisfiedNames
      BY <1>1, <1>5, <1>6, <2>1, <2>2, MeaningIsUnique
    <2>3. RequirementsMet <=> /\ CA \in AskedToSign
                              /\ RequiredOf(CA) \cup RequiredOfAll \subseteq SatisfiedNames
      BY <1>5, <2>1, <2>2 DEF RequirementsMet
    <2> QED
      BY <1>4, <1>6, <1>7, <1>9, <2>1, <2>3
  <1> QED
    BY <1>8, <1>9

\* The verdict is the one that is due.
LEMMA VerdictIsDue ==
    ASSUME EndToEndInv, verdict # "none"
    PROVE  Accepted <=> Due
  <1> DEFINE found == FindTrustedSubtree(cas[CA], cert)
             hash == subtree(request.start, request.end)
  <1>1. /\ issuing = "done" /\ cert = ReadBack(issued) /\ cert.issuer = CA
        /\ cert # NoCertificate
    BY JudgedIsIssued
  <1>2. /\ verdict = "rejected" => ~Eligible(cert) \/ (found # {} /\ cert.hash \notin found)
        /\ verdict = "trusted" => Eligible(cert) /\ cert.hash \in found
        /\ verdict \in {"cosigned", "unsatisfied"} => Eligible(cert) /\ found = {}
    BY <1>1 DEF EndToEndInv, VerdictInv
  <1>3. verdict \in {"rejected", "trusted", "cosigned", "unsatisfied"}
    BY DEF EndToEndInv, VerifierInv, VerifierTypeOK
  <1>4. Eligible(cert) /\ ~request.bitFlip <=>
          CA \in DOMAIN cas /\ MeantToBeRead /\ WithinBounds /\ ~RevokedByPolicyFile
    BY <1>1, EligibleMeans
  <1>5. Eligible(cert) => CA \in DOMAIN cas
    BY <1>1 DEF Eligible
  <1>6. CA \in DOMAIN cas =>
          /\ TrustedHash = found /\ found \subseteq Hash
          /\ \A g, h \in found : g = h
    BY <1>1, TrustedHashFacts
  <1>7. cert.hash = IF request.bitFlip THEN Damaged(hash) ELSE hash
    BY <1>1, ReadBackFacts DEF EndToEndInv
  <1>8. request.bitFlip => cert.hash \notin Hash
    BY DamagedIsUnsigned
  <1>9. Due <=> /\ CA \in DOMAIN cas /\ MeantToBeRead /\ WithinBounds /\ ~RevokedByPolicyFile
                /\ IF TrustedHash = {} THEN RequirementsMet ELSE TrustedHash = {hash}
    BY DEF Due
  <1> HIDE DEF found, hash
  <1>10. CASE verdict = "rejected"
    BY <1>2, <1>4, <1>5, <1>6, <1>7, <1>9, <1>10 DEF Accepted
  <1>11. CASE verdict = "trusted"
    BY <1>2, <1>4, <1>5, <1>6, <1>7, <1>8, <1>9, <1>11 DEF Accepted
  <1>12. CASE verdict \in {"cosigned", "unsatisfied"}
    BY <1>2, <1>4, <1>5, <1>6, <1>9, <1>12, CountedVerdict DEF Accepted
  <1> QED
    BY <1>3, <1>10, <1>11, <1>12

-----------------------------------------------------------------------------

\* Whatever the log, the CA certificate and the policy file, a certificate that
\* was issued as it should be, whose entry the CA stands by and whose subtree
\* is known or cosigned as required is accepted, in every order in which the
\* lines are read (encode.go:406-504, verify_proof.go:166-281).
THEOREM IssuedIsAccepted == EndToEndSpec => []DueIsAccepted
  <1>1. EndToEndInv => DueIsAccepted
    BY VerdictIsDue DEF DueIsAccepted
  <1> QED
    BY <1>1, EndToEndInvAlways, PTL

\* And nothing else that `generate` can make is accepted (encode.go:467-500,
\* verify_proof.go:166-281).
THEOREM OnlyDueIsAccepted == EndToEndSpec => []AcceptedIsDue
  <1>1. EndToEndInv => AcceptedIsDue
    BY VerdictIsDue DEF AcceptedIsDue, Accepted
  <1> QED
    BY <1>1, EndToEndInvAlways, PTL
=============================================================================
