-------------------------- MODULE AcceptanceProofs --------------------------
(****************************************************************************)
(* Proofs about `verify`.  First about Policy: the tables are well typed    *)
(* and every index kept in them resolves to the name it was read from.      *)
(* Then about the verifier: its tables stay so, and a verdict reached       *)
(* through cosignatures is the one that the policy, read by name, calls     *)
(* for; and a policy has one meaning by name.  Last, each step of           *)
(* VerifyProof, read by name, is a step of RelyingParty or leaves its state *)
(* alone -- for any policy file and certificates.                           *)
(****************************************************************************)
EXTENDS Acceptance, FiniteSetTheorems, TLAPS

PolicyInv == PolicyTypeOK /\ IndexesResolve

\* The CA certificates that might be loaded, and a step that reads any one of
\* them or a line of the policy file: what is proved of it holds of PolicyNext,
\* and of a CA certificate that `generate` has made.
CACertificate == [id : ID, minSerial : Serial, maxSerial : Serial, wellFormed : BOOLEAN]

AnyPolicyStep ==
    \/ \E ca \in CACertificate : AddCA(ca)
    \/ CACertsLoaded
    \/ \E id \in ID, wellFormed \in BOOLEAN : AddCosigner(id, wellFormed)
    \/ \E line \in GroupLines : AddGroup(line)
    \/ \E ca \in ID, n \in Name : RequireCosignersForCA(ca, n)
    \/ \E n \in Name : RequireCosignersForAllCAs(n)
    \/ \E line \in RevokeLines : RevokeRange(line)
    \/ \E line \in SubtreeLines : AddTrustedSubtree(line)
    \/ PolicyFileRead

LEMMA PolicyNextIsStep == PolicyNext => AnyPolicyStep
  BY PolicyInputAssumption DEF PolicyInputAssumption, PolicyNext, AnyPolicyStep, CACertificate

-----------------------------------------------------------------------------

\* Assigning to a key of a map of values in S.
LEMMA PutType ==
    ASSUME NEW S, NEW D, NEW f \in [D -> S], NEW k, NEW v \in S
    PROVE  Put(f, k, v) \in [D \cup {k} -> S]
  BY DEF Put

LEMMA SeqOfOne ==
    ASSUME NEW S, NEW x \in S
    PROVE  <<x>> \in Seq(S)
  OBVIOUS

\* Serial numbers, written or bounded in any of the ways the policy allows,
\* are natural numbers.
LEMMA SerialIsNat ==
    /\ Serial \subseteq Nat /\ MaxSerial \in Nat
    /\ LogNumber \subseteq Nat /\ Index \subseteq Nat
    /\ \A l, i \in Nat : SerialOf(l, i) \in Nat
  <1>1. LogCount * IndexCount \in Nat \ {0}
    BY SerialAssumption
  <1>2. \A l \in Nat : l * IndexCount \in Nat
    BY SerialAssumption
  <1> QED
    BY <1>1, <1>2, SerialAssumption DEF Serial, MaxSerial, LogNumber, Index, SerialOf

LEMMA ParsedSerialIsNat ==
    ASSUME NEW t \in Seq(Nat), SerialParses(t)
    PROVE  parseSerial(t) \in Nat
  <1>1. CASE Len(t) = 0
    BY <1>1, SerialIsNat DEF parseSerial
  <1>2. CASE Len(t) = 1 /\ t[1] \in Serial
    BY <1>2, SerialIsNat DEF parseSerial
  <1>3. CASE Len(t) = 2 /\ t[1] \in LogNumber /\ t[2] \in Index
    BY <1>3, SerialIsNat DEF parseSerial
  <1> QED
    BY <1>1, <1>2, <1>3 DEF SerialParses

\* The serial number of any entry that a log has room for is in range.
LEMMA SerialOfInRange ==
    ASSUME NEW l \in LogNumber, NEW i \in Index
    PROVE  SerialOf(l, i) \in Serial
  <1> DEFINE N == LogCount * IndexCount
  <1>1. LogCount \in Nat \ {0} /\ IndexCount \in Nat \ {0}
    BY SerialAssumption
  <1>2. N \in Nat \ {0}
    BY <1>1
  <1>3. l \in Nat /\ l <= LogCount - 1 /\ i \in Nat /\ i <= IndexCount - 1
    BY <1>1 DEF LogNumber, Index
  <1>4. l * IndexCount <= (LogCount - 1) * IndexCount
    BY <1>1, <1>3
  <1>5. (LogCount - 1) * IndexCount = N - IndexCount
    BY <1>1
  <1>6. l * IndexCount \in Nat
    BY <1>1, <1>3
  <1> HIDE DEF N
  <1>7. l * IndexCount + i \in 0 .. N - 1
    BY <1>1, <1>2, <1>3, <1>4, <1>5, <1>6
  <1> QED
    BY <1>7 DEF N, SerialOf, Serial

\* Serial numbers in a policy line that parses are in range.
LEMMA ParsedSerialInRange ==
    ASSUME NEW t \in Seq(Nat), SerialParses(t)
    PROVE  parseSerial(t) \in Serial
  <1> DEFINE N == LogCount * IndexCount
  <1>1. LogCount \in Nat \ {0} /\ IndexCount \in Nat \ {0}
    BY SerialAssumption
  <1>2. N \in Nat \ {0}
    BY <1>1
  <1>3. MaxSerial \in Serial
    BY <1>2 DEF MaxSerial, Serial
  <1>4. \A l \in LogNumber, i \in Index : SerialOf(l, i) \in Serial
    BY SerialOfInRange
  <1>5. CASE Len(t) = 0
    BY <1>3, <1>5 DEF parseSerial
  <1>6. CASE Len(t) = 1 /\ t[1] \in Serial
    BY <1>6 DEF parseSerial
  <1>7. CASE Len(t) = 2 /\ t[1] \in LogNumber /\ t[2] \in Index
    BY <1>4, <1>7 DEF parseSerial
  <1> QED
    BY <1>5, <1>6, <1>7 DEF SerialParses

\* The ranges around a CA certificate's bounds hold what lies outside them.
LEMMA OutsideRangesMean ==
    ASSUME NEW ca \in CACertificate, NEW s \in Serial
    PROVE  (\E i \in DOMAIN OutsideRanges(ca) :
               OutsideRanges(ca)[i].min <= s /\ s <= OutsideRanges(ca)[i].max)
           <=> s < ca.minSerial \/ s > ca.maxSerial
  <1>1. /\ ca.minSerial \in Nat /\ ca.maxSerial \in Nat /\ MaxSerial \in Nat
        /\ ca.maxSerial <= MaxSerial /\ s \in Nat /\ s <= MaxSerial
    <2>1. LogCount * IndexCount \in Nat \ {0}
      BY SerialAssumption
    <2> DEFINE N == LogCount * IndexCount
    <2> HIDE DEF N
    <2>2. ca.minSerial \in 0 .. N - 1 /\ ca.maxSerial \in 0 .. N - 1 /\ s \in 0 .. N - 1
      BY DEF CACertificate, N, Serial
    <2>3. N \in Nat \ {0} /\ MaxSerial = N - 1
      BY <2>1 DEF N, MaxSerial
    <2> QED
      BY <2>2, <2>3
  <1> DEFINE below == [min |-> 0, max |-> ca.minSerial - 1]
             above == [min |-> ca.maxSerial + 1, max |-> MaxSerial]
             Holds(r) == r.min <= s /\ s <= r.max
  <1>2. Holds(below) <=> s < ca.minSerial
    BY <1>1
  <1>3. Holds(above) <=> s > ca.maxSerial
    BY <1>1
  <1>4. ~(ca.minSerial > 0) => ~Holds(below)
    BY <1>1
  <1>5. ~(ca.maxSerial < MaxSerial) => ~Holds(above)
    BY <1>1
  <1> DEFINE R == OutsideRanges(ca)
             HasBelow == ca.minSerial > 0
             HasAbove == ca.maxSerial < MaxSerial
  <1>6. R = (IF HasBelow THEN <<below>> ELSE <<>>) \o (IF HasAbove THEN <<above>> ELSE <<>>)
    BY DEF OutsideRanges
  <1> HIDE DEF below, above, R, Holds, HasBelow, HasAbove
  <1>7. (\E i \in DOMAIN R : Holds(R[i])) <=> Holds(below) \/ Holds(above)
    <2>1. CASE HasBelow /\ HasAbove
      <3>1. R = <<below>> \o <<above>>
        BY <1>6, <2>1
      <3>2. R \in Seq({below, above}) /\ Len(R) = 2 /\ R[1] = below /\ R[2] = above
        BY <3>1
      <3>3. DOMAIN R = 1 .. 2
        BY <3>2
      <3>4. DOMAIN R = {1, 2}
        BY <3>3
      <3> QED
        BY <3>2, <3>4
    <2>2. CASE HasBelow /\ ~HasAbove
      <3>1. R = <<below>> \o <<>>
        BY <1>6, <2>2
      <3>2. R = <<below>>
        BY <3>1
      <3>3. DOMAIN R = {1} /\ R[1] = below
        BY <3>2
      <3> QED
        BY <1>5, <2>2, <3>3 DEF HasAbove
    <2>3. CASE ~HasBelow /\ HasAbove
      <3>1. R = <<>> \o <<above>>
        BY <1>6, <2>3
      <3>2. R = <<above>>
        BY <3>1
      <3>3. DOMAIN R = {1} /\ R[1] = above
        BY <3>2
      <3> QED
        BY <1>4, <2>3, <3>3 DEF HasBelow
    <2>4. CASE ~HasBelow /\ ~HasAbove
      <3>1. R = <<>> \o <<>>
        BY <1>6, <2>4
      <3>2. DOMAIN R = {}
        BY <3>1
      <3> QED
        BY <1>4, <1>5, <2>4, <3>2 DEF HasBelow, HasAbove
    <2> QED
      BY <2>1, <2>2, <2>3, <2>4
  <1> QED
    BY <1>2, <1>3, <1>7 DEF R, Holds

LEMMA NewCAType ==
    ASSUME NEW ca \in CACertificate, NEW n \in Nat \ {0}
    PROVE  NewCA(ca, n) \in TrustedCA
  <1>1. ca.minSerial \in Nat /\ ca.maxSerial \in Nat
    BY SerialIsNat DEF CACertificate
  <1>2. OutsideRanges(ca) \in Seq(RevokedRange)
    <2> DEFINE below == <<[min |-> 0, max |-> ca.minSerial - 1]>>
               above == <<[min |-> ca.maxSerial + 1, max |-> MaxSerial]>>
    <2>1. ca.minSerial > 0 => below \in Seq(RevokedRange)
      BY <1>1, SeqOfOne DEF RevokedRange
    <2>2. above \in Seq(RevokedRange)
      <3>1. ca.maxSerial + 1 \in Nat /\ MaxSerial \in Nat
        <4>1. MaxSerial \in Nat
          BY SerialIsNat
        <4> QED
          BY <1>1, <4>1
      <3>2. [min |-> ca.maxSerial + 1, max |-> MaxSerial] \in RevokedRange
        BY ONLY <3>1 DEF RevokedRange
      <3> QED
        BY <3>2, SeqOfOne
    <2> QED
      BY <2>1, <2>2 DEF OutsideRanges
  <1> QED
    BY <1>2 DEF NewCA, TrustedCA

-----------------------------------------------------------------------------

LEMMA InitTypeOK == Init => PolicyTypeOK
  <1> SUFFICES ASSUME Init PROVE PolicyTypeOK
    OBVIOUS
  <1>1. DOMAIN names = {} /\ DOMAIN cas = {}
    BY DEF Init
  <1>2. names \in [DOMAIN names -> PolicyIndex] /\ cas \in [DOMAIN cas -> TrustedCA]
    BY <1>1 DEF Init
  <1> QED
    BY <1>1, <1>2 DEF Init, PolicyTypeOK

\* A new cosigner keeps the tables well typed.
LEMMA RegisterCosignerType ==
    ASSUME PolicyTypeOK, NEW id \in ID, RegisterCosigner(id)
    PROVE  /\ cosigners' \in Seq(ID) /\ Len(cosigners') = Len(cosigners) + 1
           /\ DOMAIN names' = DOMAIN names \cup {id}
           /\ names' \in [DOMAIN names' -> PolicyIndex]
           /\ DOMAIN names' \subseteq Name
  <1>1. cosigners' \in Seq(ID) /\ Len(cosigners') = Len(cosigners) + 1
    BY DEF PolicyTypeOK, RegisterCosigner
  <1>2. [isGroup |-> FALSE, index |-> Len(cosigners')] \in PolicyIndex
    BY <1>1 DEF PolicyIndex, PolicyTypeOK
  <1>3. names' \in [DOMAIN names \cup {id} -> PolicyIndex]
    BY <1>2, PutType DEF PolicyTypeOK, RegisterCosigner
  <1>4. DOMAIN names' = DOMAIN names \cup {id}
    BY <1>3
  <1> QED
    BY <1>1, <1>3, <1>4, NameAssumption DEF PolicyTypeOK

\* So does a change of one CA's record.
LEMMA UpdateCAType ==
    ASSUME PolicyTypeOK, NEW ca \in DOMAIN cas, NEW r \in TrustedCA,
           cas' = [cas EXCEPT ![ca] = r]
    PROVE  /\ DOMAIN cas' = DOMAIN cas
           /\ cas' \in [DOMAIN cas' -> TrustedCA]
  BY DEF PolicyTypeOK

LEMMA GroupOfType ==
    ASSUME PolicyTypeOK, NEW line \in GroupLines, GroupLineOK(line)
    PROVE  GroupOf(line) \in PolicyGroup
  <1>1. /\ line.name \in Name /\ line.number \in Nat \ {0}
        /\ line.members \in Seq(Name) /\ Len(line.members) \in Nat
    BY PolicyInputAssumption DEF GroupLineOK
  <1>2. \A i \in 1 .. Len(line.members) : names[line.members[i]] \in PolicyIndex
    BY <1>1 DEF GroupLineOK, PolicyTypeOK
  <1>3. [i \in 1 .. Len(line.members) |-> names[line.members[i]]] \in Seq(PolicyIndex)
    BY <1>1, <1>2
  <1> QED
    BY <1>1, <1>3 DEF GroupOf, PolicyGroup

\* Reading a CA certificate or a policy line keeps the tables well typed.
LEMMA TypeOKStep ==
    ASSUME PolicyTypeOK, AnyPolicyStep
    PROVE  PolicyTypeOK'
  <1>1. ASSUME NEW ca \in CACertificate, AddCA(ca)
        PROVE  PolicyTypeOK'
    <2>1. ca.id \in ID
      BY DEF CACertificate
    <2>2. CASE Abort
      BY <2>2 DEF Abort, tables, PolicyTypeOK
    <2>3. CASE ~Abort
      <3>1. /\ RegisterCosigner(ca.id)
            /\ cas' = Put(cas, ca.id, NewCA(ca, Len(cosigners')))
            /\ UNCHANGED <<phase, groups, requirementsForAllCAs>>
        BY <1>1, <2>3 DEF AddCA
      <3>2. NewCA(ca, Len(cosigners')) \in TrustedCA
        <4>1. Len(cosigners') \in Nat \ {0}
          <5>1. cosigners \in Seq(ID)
            BY DEF PolicyTypeOK
          <5>2. Len(cosigners) \in Nat
            BY <5>1
          <5>3. Len(cosigners') = Len(cosigners) + 1
            BY <2>1, <3>1, RegisterCosignerType
          <5> QED
            BY <5>2, <5>3
        <4> QED
          BY <4>1, NewCAType
      <3>3. cas' \in [DOMAIN cas \cup {ca.id} -> TrustedCA]
        BY <3>1, <3>2, PutType DEF PolicyTypeOK
      <3>4. DOMAIN cas' = DOMAIN cas \cup {ca.id}
        BY <3>3
      <3> QED
        BY <2>1, <3>1, <3>3, <3>4, RegisterCosignerType DEF PolicyTypeOK
    <2> QED
      BY <2>2, <2>3
  <1>2. ASSUME CACertsLoaded \/ PolicyFileRead
        PROVE  PolicyTypeOK'
    BY <1>2 DEF CACertsLoaded, PolicyFileRead, tables, PolicyTypeOK
  <1>3. ASSUME NEW id \in ID, NEW wellFormed \in BOOLEAN, AddCosigner(id, wellFormed)
        PROVE  PolicyTypeOK'
    <2>1. CASE Abort
      BY <2>1 DEF Abort, tables, PolicyTypeOK
    <2>2. CASE RegisterCosigner(id) /\ UNCHANGED <<phase, groups, requirementsForAllCAs, cas>>
      BY <2>2, RegisterCosignerType DEF PolicyTypeOK
    <2> QED
      BY <1>3, <2>1, <2>2 DEF AddCosigner
  <1>4. ASSUME NEW line \in GroupLines, AddGroup(line)
        PROVE  PolicyTypeOK'
    <2>1. CASE Abort
      BY <2>1 DEF Abort, tables, PolicyTypeOK
    <2>2. CASE GroupLineOK(line) /\ ~Abort
      <3>1. /\ groups' = Append(groups, GroupOf(line))
            /\ names' = Put(names, line.name, [isGroup |-> TRUE, index |-> Len(groups')])
            /\ UNCHANGED <<phase, cosigners, requirementsForAllCAs, cas>>
        BY <1>4, <2>2 DEF AddGroup
      <3>2. groups' \in Seq(PolicyGroup) /\ Len(groups') = Len(groups) + 1
        BY <2>2, <3>1, GroupOfType DEF PolicyTypeOK
      <3>3. [isGroup |-> TRUE, index |-> Len(groups')] \in PolicyIndex
        BY <3>2 DEF PolicyIndex, PolicyTypeOK
      <3>4. names' \in [DOMAIN names \cup {line.name} -> PolicyIndex]
        BY <3>1, <3>3, PutType DEF PolicyTypeOK
      <3>5. DOMAIN names' = DOMAIN names \cup {line.name} /\ line.name \in Name
        BY <3>4, PolicyInputAssumption
      <3> QED
        BY <3>1, <3>2, <3>4, <3>5 DEF PolicyTypeOK
    <2> QED
      BY <1>4, <2>1, <2>2 DEF AddGroup
  <1>5. ASSUME NEW ca \in ID, NEW n \in Name, RequireCosignersForCA(ca, n)
        PROVE  PolicyTypeOK'
    <2>1. CASE Abort
      BY <2>1 DEF Abort, tables, PolicyTypeOK
    <2>2. CASE ~Abort
      <3>1. /\ n \in DOMAIN names /\ ca \in DOMAIN cas
            /\ cas' = [cas EXCEPT ![ca].requirements = Append(@, names[n])]
            /\ UNCHANGED <<phase, names, cosigners, groups, requirementsForAllCAs>>
        BY <1>5, <2>2 DEF RequireCosignersForCA
      <3> DEFINE r == [cas[ca] EXCEPT !.requirements = Append(@, names[n])]
      <3>2. cas[ca] \in TrustedCA /\ names[n] \in PolicyIndex
        BY <3>1 DEF PolicyTypeOK
      <3>3. r \in TrustedCA
        <4>1. Append(cas[ca].requirements, names[n]) \in Seq(PolicyIndex)
          BY <3>2 DEF TrustedCA
        <4> QED
          BY <3>2, <4>1 DEF TrustedCA
      <3>4. cas' = [cas EXCEPT ![ca] = r]
        BY <3>1
      <3> HIDE DEF r
      <3> QED
        BY <3>1, <3>3, <3>4, UpdateCAType DEF PolicyTypeOK
    <2> QED
      BY <2>1, <2>2
  <1>6. ASSUME NEW n \in Name, RequireCosignersForAllCAs(n)
        PROVE  PolicyTypeOK'
    <2>1. CASE Abort
      BY <2>1 DEF Abort, tables, PolicyTypeOK
    <2>2. CASE ~Abort
      <3>1. /\ n \in DOMAIN names
            /\ requirementsForAllCAs' = Append(requirementsForAllCAs, names[n])
            /\ UNCHANGED <<phase, names, cosigners, groups, cas>>
        BY <1>6, <2>2 DEF RequireCosignersForAllCAs
      <3> QED
        BY <3>1 DEF PolicyTypeOK
    <2> QED
      BY <2>1, <2>2
  <1>7. ASSUME NEW line \in RevokeLines, RevokeRange(line)
        PROVE  PolicyTypeOK'
    <2>1. CASE Abort
      BY <2>1 DEF Abort, tables, PolicyTypeOK
    <2>2. CASE ~Abort
      <3> DEFINE new == [min |-> parseSerial(line.min), max |-> parseSerial(line.max)]
                 r == [cas[line.ca] EXCEPT !.revokedRanges = Append(@, new)]
      <3>1. /\ RevokeLineOK(line)
            /\ cas' = [cas EXCEPT ![line.ca].revokedRanges = Append(@, new)]
            /\ UNCHANGED <<phase, names, cosigners, groups, requirementsForAllCAs>>
        BY <1>7, <2>2 DEF RevokeRange
      <3>2. new \in RevokedRange
        BY <3>1, PolicyInputAssumption, ParsedSerialIsNat DEF RevokeLineOK, RevokedRange
      <3>3. line.ca \in DOMAIN cas /\ cas[line.ca] \in TrustedCA
        BY <3>1 DEF RevokeLineOK, PolicyTypeOK
      <3> HIDE DEF new
      <3>4. r \in TrustedCA
        <4>1. Append(cas[line.ca].revokedRanges, new) \in Seq(RevokedRange)
          BY <3>2, <3>3 DEF TrustedCA
        <4> QED
          BY <3>3, <4>1 DEF TrustedCA
      <3>5. cas' = [cas EXCEPT ![line.ca] = r]
        BY <3>1
      <3> HIDE DEF r
      <3> QED
        BY <3>1, <3>3, <3>4, <3>5, UpdateCAType DEF PolicyTypeOK
    <2> QED
      BY <2>1, <2>2
  <1>8. ASSUME NEW line \in SubtreeLines, AddTrustedSubtree(line)
        PROVE  PolicyTypeOK'
    <2>1. CASE Abort
      BY <2>1 DEF Abort, tables, PolicyTypeOK
    <2>2. CASE ~Abort
      <3> DEFINE new == [log |-> line.log, start |-> line.start,
                         end |-> line.end, hash |-> line.hash]
                 r == [cas[line.ca] EXCEPT !.trustedSubtrees = Append(@, new)]
      <3>1. /\ SubtreeLineOK(line)
            /\ cas' = [cas EXCEPT ![line.ca].trustedSubtrees = Append(@, new)]
            /\ UNCHANGED <<phase, names, cosigners, groups, requirementsForAllCAs>>
        BY <1>8, <2>2 DEF AddTrustedSubtree
      <3>2. new \in TrustedSubtree
        BY PolicyInputAssumption DEF TrustedSubtree
      <3>3. line.ca \in DOMAIN cas /\ cas[line.ca] \in TrustedCA
        BY <3>1 DEF SubtreeLineOK, PolicyTypeOK
      <3> HIDE DEF new
      <3>4. r \in TrustedCA
        <4>1. Append(cas[line.ca].trustedSubtrees, new) \in Seq(TrustedSubtree)
          BY <3>2, <3>3 DEF TrustedCA
        <4> QED
          BY <3>3, <4>1 DEF TrustedCA
      <3>5. cas' = [cas EXCEPT ![line.ca] = r]
        BY <3>1
      <3> HIDE DEF r
      <3> QED
        BY <3>1, <3>3, <3>4, <3>5, UpdateCAType DEF PolicyTypeOK
    <2> QED
      BY <2>1, <2>2
  <1> QED
    BY <1>1, <1>2, <1>3, <1>4, <1>5, <1>6, <1>7, <1>8 DEF AnyPolicyStep

-----------------------------------------------------------------------------

\* A step either leaves the names alone, or enters one for the cosigner or
\* the group it appends.
LEMMA NamesChange ==
    ASSUME PolicyTypeOK, AnyPolicyStep
    PROVE  \/ names' = names /\ cosigners' = cosigners /\ groups' = groups
           \/ \E id \in ID \ DOMAIN names :
                 /\ cosigners' = Append(cosigners, id) /\ groups' = groups
                 /\ names' = Put(names, id, [isGroup |-> FALSE, index |-> Len(cosigners) + 1])
           \/ \E line \in GroupLines :
                 /\ line.name \notin DOMAIN names
                 /\ groups' = Append(groups, GroupOf(line)) /\ cosigners' = cosigners
                 /\ names' = Put(names, line.name,
                                 [isGroup |-> TRUE, index |-> Len(groups) + 1])
  <1> DEFINE Same == names' = names /\ cosigners' = cosigners /\ groups' = groups
  <1>0. /\ cosigners \in Seq(ID) /\ groups \in Seq(PolicyGroup)
        /\ \A x : Len(Append(cosigners, x)) = Len(cosigners) + 1
        /\ \A x : Len(Append(groups, x)) = Len(groups) + 1
    BY DEF PolicyTypeOK
  <1>1. ASSUME NEW ca \in CACertificate, AddCA(ca)
        PROVE  \/ Same
               \/ /\ RegisterCosigner(ca.id) /\ groups' = groups
                  /\ ca.id \in ID \ DOMAIN names
    BY <1>1 DEF CACertificate, AddCA, Abort, tables
  <1>2. ASSUME NEW line \in GroupLines, AddGroup(line)
        PROVE  \/ Same
               \/ /\ line.name \notin DOMAIN names
                  /\ groups' = Append(groups, GroupOf(line)) /\ cosigners' = cosigners
                  /\ names' = Put(names, line.name,
                                  [isGroup |-> TRUE, index |-> Len(groups) + 1])
    BY <1>0, <1>2 DEF AddGroup, GroupLineOK, Abort, tables
  <1>3. ASSUME NEW id \in ID, NEW wellFormed \in BOOLEAN, AddCosigner(id, wellFormed)
        PROVE  \/ Same
               \/ RegisterCosigner(id) /\ groups' = groups /\ id \notin DOMAIN names
    BY <1>3 DEF AddCosigner, Abort, tables
  <1>4. ASSUME \/ CACertsLoaded \/ PolicyFileRead
               \/ \E ca \in ID, n \in Name : RequireCosignersForCA(ca, n)
               \/ \E n \in Name : RequireCosignersForAllCAs(n)
               \/ \E line \in RevokeLines : RevokeRange(line)
               \/ \E line \in SubtreeLines : AddTrustedSubtree(line)
        PROVE  Same
    BY <1>4 DEF CACertsLoaded, PolicyFileRead, RequireCosignersForCA, tables,
                RequireCosignersForAllCAs, RevokeRange, AddTrustedSubtree, Abort
  <1>5. ASSUME NEW id \in ID, RegisterCosigner(id)
        PROVE  /\ cosigners' = Append(cosigners, id)
               /\ names' = Put(names, id, [isGroup |-> FALSE, index |-> Len(cosigners) + 1])
    BY <1>0, <1>5 DEF RegisterCosigner
  <1> QED
    BY <1>1, <1>2, <1>3, <1>4, <1>5 DEF AnyPolicyStep

\* So the cosigners and the groups only ever grow at the end.
LEMMA TablesOnlyGrow ==
    ASSUME PolicyTypeOK, AnyPolicyStep
    PROVE  /\ \/ cosigners' = cosigners
              \/ \E id \in ID : cosigners' = Append(cosigners, id)
           /\ \/ groups' = groups
              \/ \E line \in GroupLines : groups' = Append(groups, GroupOf(line))
  BY NamesChange

\* The bound of the tables and the name at an index, for given tables.
Within(idx, gs, cs) == idx.index <= (IF idx.isGroup THEN Len(gs) ELSE Len(cs))
NameAt(idx, gs, cs) == IF idx.isGroup THEN gs[idx.index].name ELSE cs[idx.index]

LEMMA ResolvesByTables ==
    \A n \in DOMAIN names :
        InTables(names[n]) /\ NameForIndex(names[n]) = n
        <=> Within(names[n], groups, cosigners) /\ NameAt(names[n], groups, cosigners) = n
  BY DEF InTables, NameForIndex, Within, NameAt

\* So an index that lies in the tables keeps the name it stands for.
LEMMA IndexesAreStable ==
    ASSUME PolicyTypeOK, AnyPolicyStep
    PROVE  \A idx \in PolicyIndex : Within(idx, groups, cosigners) =>
              /\ Within(idx, groups', cosigners')
              /\ NameAt(idx, groups', cosigners') = NameAt(idx, groups, cosigners)
  <1> SUFFICES ASSUME NEW idx \in PolicyIndex, Within(idx, groups, cosigners)
               PROVE  /\ Within(idx, groups', cosigners')
                      /\ NameAt(idx, groups', cosigners') = NameAt(idx, groups, cosigners)
    OBVIOUS
  <1>1. cosigners \in Seq(ID) /\ groups \in Seq(PolicyGroup)
    BY DEF PolicyTypeOK
  <1>2. idx.index \in Nat \ {0} /\ idx.isGroup \in BOOLEAN
    BY DEF PolicyIndex
  <1>3. ~idx.isGroup => /\ idx.index <= Len(cosigners')
                        /\ cosigners'[idx.index] = cosigners[idx.index]
    BY <1>1, <1>2, TablesOnlyGrow DEF Within
  <1>4. idx.isGroup => /\ idx.index <= Len(groups')
                       /\ groups'[idx.index] = groups[idx.index]
    <2>1. ASSUME NEW line, groups' = Append(groups, GroupOf(line)), idx.isGroup
          PROVE  /\ idx.index <= Len(groups')
                 /\ groups'[idx.index] = groups[idx.index]
      <3> DEFINE g == GroupOf(line)
      <3> HIDE DEF g
      <3> QED
        BY <1>1, <1>2, <2>1 DEF Within
    <2> QED
      BY <1>1, <1>2, <2>1, TablesOnlyGrow DEF Within
  <1> QED
    BY <1>2, <1>3, <1>4 DEF Within, NameAt

-----------------------------------------------------------------------------

LEMMA InitIndexesResolve == Init => IndexesResolve
  <1> SUFFICES ASSUME Init PROVE IndexesResolve
    OBVIOUS
  <1>1. /\ DOMAIN names = {} /\ DOMAIN cas = {} /\ DOMAIN groups = {}
        /\ DOMAIN requirementsForAllCAs = {}
    BY DEF Init
  <1>2. DOMAIN cosigners = {}
    BY DEF Init
  <1> QED
    BY <1>1, <1>2 DEF IndexesResolve, NamesResolve, EntriesAreNamed,
                CACosignersResolve, RequirementsResolve, GroupsAreOrdered

\* The name an index was read from is entered with an index that resolves to
\* it, and the older names keep theirs.
LEMMA NamesResolveStep ==
    ASSUME PolicyInv, AnyPolicyStep
    PROVE  NamesResolve'
  <1>0. cosigners \in Seq(ID) /\ groups \in Seq(PolicyGroup)
    BY DEF PolicyInv, PolicyTypeOK
  <1>1. \A n \in DOMAIN names :
           /\ Within(names[n], groups', cosigners')
           /\ NameAt(names[n], groups', cosigners') = n
    <2>1. \A n \in DOMAIN names : names[n] \in PolicyIndex
      BY DEF PolicyInv, PolicyTypeOK
    <2>2. \A n \in DOMAIN names : Within(names[n], groups, cosigners)
                                  /\ NameAt(names[n], groups, cosigners) = n
      BY ResolvesByTables DEF PolicyInv, IndexesResolve, NamesResolve
    <2> QED
      BY <2>1, <2>2, IndexesAreStable DEF PolicyInv
  <1> SUFFICES \A n \in DOMAIN names' : /\ Within(names'[n], groups', cosigners')
                                        /\ NameAt(names'[n], groups', cosigners') = n
    BY DEF NamesResolve, InTables, NameForIndex, Within, NameAt
  <1>2. CASE names' = names
    BY <1>1, <1>2
  <1>3. ASSUME NEW id \in ID, cosigners' = Append(cosigners, id),
               names' = Put(names, id, [isGroup |-> FALSE, index |-> Len(cosigners) + 1])
        PROVE  \A n \in DOMAIN names' : /\ Within(names'[n], groups', cosigners')
                                        /\ NameAt(names'[n], groups', cosigners') = n
    <2> DEFINE idx == [isGroup |-> FALSE, index |-> Len(cosigners) + 1]
    <2>1. Within(idx, groups', cosigners') /\ NameAt(idx, groups', cosigners') = id
      BY <1>0, <1>3 DEF Within, NameAt
    <2>2. names' = Put(names, id, idx)
      BY <1>3
    <2> HIDE DEF idx
    <2>3. /\ DOMAIN names' = DOMAIN names \cup {id} /\ names'[id] = idx
         /\ \A x \in DOMAIN names \ {id} : names'[x] = names[x]
      BY <2>2 DEF Put
    <2> QED
      BY <1>1, <2>1, <2>3
  <1>4. ASSUME NEW line \in GroupLines, groups' = Append(groups, GroupOf(line)),
               names' = Put(names, line.name, [isGroup |-> TRUE, index |-> Len(groups) + 1])
        PROVE  \A n \in DOMAIN names' : /\ Within(names'[n], groups', cosigners')
                                        /\ NameAt(names'[n], groups', cosigners') = n
    <2> DEFINE idx == [isGroup |-> TRUE, index |-> Len(groups) + 1]
    <2>1. GroupOf(line).name = line.name
      BY DEF GroupOf
    <2>2. Within(idx, groups', cosigners') /\ NameAt(idx, groups', cosigners') = line.name
      BY <1>0, <1>4, <2>1 DEF Within, NameAt
    <2>3. names' = Put(names, line.name, idx)
      BY <1>4
    <2> HIDE DEF idx
    <2>4. /\ DOMAIN names' = DOMAIN names \cup {line.name} /\ names'[line.name] = idx
         /\ \A x \in DOMAIN names \ {line.name} : names'[x] = names[x]
      BY <2>3 DEF Put
    <2> QED
      BY <1>1, <2>2, <2>4
  <1> QED
    BY <1>2, <1>3, <1>4, NamesChange DEF PolicyInv

\* An appended entry gets its own name, which was not another's.
LEMMA EntriesAreNamedStep ==
    ASSUME PolicyInv, AnyPolicyStep
    PROVE  EntriesAreNamed'
  <1>0. /\ cosigners \in Seq(ID) /\ groups \in Seq(PolicyGroup)
        /\ Len(cosigners) \in Nat /\ Len(groups) \in Nat
        /\ EntriesAreNamed
    BY DEF PolicyInv, PolicyTypeOK, IndexesResolve
  <1>1. CASE names' = names /\ cosigners' = cosigners /\ groups' = groups
    BY <1>0, <1>1 DEF EntriesAreNamed
  <1>2. ASSUME NEW id \in ID \ DOMAIN names,
               cosigners' = Append(cosigners, id), groups' = groups,
               names' = Put(names, id, [isGroup |-> FALSE, index |-> Len(cosigners) + 1])
        PROVE  EntriesAreNamed'
    <2> DEFINE idx == [isGroup |-> FALSE, index |-> Len(cosigners) + 1]
    <2>1. /\ DOMAIN names' = DOMAIN names \cup {id} /\ names'[id] = idx
          /\ \A x \in DOMAIN names : names'[x] = names[x]
      BY <1>2 DEF Put
    <2>2. /\ DOMAIN cosigners' = DOMAIN cosigners \cup {Len(cosigners) + 1}
          /\ cosigners'[Len(cosigners) + 1] = id
          /\ \A k \in DOMAIN cosigners : cosigners'[k] = cosigners[k]
      BY <1>0, <1>2
    <2>3. \A k \in DOMAIN cosigners' :
            /\ cosigners'[k] \in DOMAIN names'
            /\ names'[cosigners'[k]] = [isGroup |-> FALSE, index |-> k]
      <3>1. \A k \in DOMAIN cosigners :
              /\ cosigners[k] \in DOMAIN names
              /\ names[cosigners[k]] = [isGroup |-> FALSE, index |-> k]
        BY <1>0 DEF EntriesAreNamed
      <3> HIDE DEF idx
      <3>2. \A k \in DOMAIN cosigners' : k = Len(cosigners) + 1 =>
              cosigners'[k] \in DOMAIN names' /\ names'[cosigners'[k]] = idx
        BY <2>1, <2>2
      <3>3. \A k \in DOMAIN cosigners :
              /\ cosigners'[k] \in DOMAIN names'
              /\ names'[cosigners'[k]] = [isGroup |-> FALSE, index |-> k]
        BY <2>1, <2>2, <3>1
      <3> QED
        BY <2>2, <3>2, <3>3 DEF idx
    <2>4. \A k \in DOMAIN groups' :
            /\ groups'[k].name \in DOMAIN names'
            /\ names'[groups'[k].name] = [isGroup |-> TRUE, index |-> k]
      BY <1>0, <1>2, <2>1 DEF EntriesAreNamed
    <2> QED
      BY <2>3, <2>4 DEF EntriesAreNamed
  <1>3. ASSUME NEW line \in GroupLines, line.name \notin DOMAIN names,
               groups' = Append(groups, GroupOf(line)), cosigners' = cosigners,
               names' = Put(names, line.name, [isGroup |-> TRUE, index |-> Len(groups) + 1])
        PROVE  EntriesAreNamed'
    <2> DEFINE idx == [isGroup |-> TRUE, index |-> Len(groups) + 1]
               new == GroupOf(line)
    <2>1. /\ DOMAIN names' = DOMAIN names \cup {line.name} /\ names'[line.name] = idx
          /\ \A x \in DOMAIN names : names'[x] = names[x]
      BY <1>3 DEF Put
    <2>2. new.name = line.name /\ groups' = Append(groups, new)
      BY <1>3 DEF GroupOf
    <2> HIDE DEF new
    <2>3. /\ DOMAIN groups' = DOMAIN groups \cup {Len(groups) + 1}
          /\ groups'[Len(groups) + 1] = new
          /\ \A k \in DOMAIN groups : groups'[k] = groups[k]
      BY <1>0, <2>2
    <2>4. \A k \in DOMAIN groups' :
            /\ groups'[k].name \in DOMAIN names'
            /\ names'[groups'[k].name] = [isGroup |-> TRUE, index |-> k]
      <3>1. \A k \in DOMAIN groups :
              /\ groups[k].name \in DOMAIN names
              /\ names[groups[k].name] = [isGroup |-> TRUE, index |-> k]
        BY <1>0 DEF EntriesAreNamed
      <3> HIDE DEF idx
      <3>2. \A k \in DOMAIN groups' : k = Len(groups) + 1 =>
              groups'[k].name \in DOMAIN names' /\ names'[groups'[k].name] = idx
        BY <2>1, <2>2, <2>3
      <3>3. \A k \in DOMAIN groups :
              /\ groups'[k].name \in DOMAIN names'
              /\ names'[groups'[k].name] = [isGroup |-> TRUE, index |-> k]
        BY <2>1, <2>3, <3>1
      <3> QED
        BY <2>3, <3>2, <3>3 DEF idx
    <2>5. \A k \in DOMAIN cosigners' :
            /\ cosigners'[k] \in DOMAIN names'
            /\ names'[cosigners'[k]] = [isGroup |-> FALSE, index |-> k]
      BY <1>0, <1>3, <2>1 DEF EntriesAreNamed
    <2> QED
      BY <2>4, <2>5 DEF EntriesAreNamed
  <1> QED
    BY <1>1, <1>2, <1>3, NamesChange DEF PolicyInv

\* A CA's cosigner is the one registered with it.
LEMMA CACosignersResolveStep ==
    ASSUME PolicyInv, AnyPolicyStep
    PROVE  CACosignersResolve'
  <1>0. cosigners \in Seq(ID) /\ cas \in [DOMAIN cas -> TrustedCA]
    BY DEF PolicyInv, PolicyTypeOK
  <1>1. \A ca \in DOMAIN cas : /\ cas[ca].cosignerIndex \in DOMAIN cosigners'
                               /\ cosigners'[cas[ca].cosignerIndex] = ca
    <2>1. \A ca \in DOMAIN cas : /\ cas[ca].cosignerIndex \in DOMAIN cosigners
                                 /\ cosigners[cas[ca].cosignerIndex] = ca
      BY DEF PolicyInv, IndexesResolve, CACosignersResolve
    <2> QED
      BY <1>0, <2>1, TablesOnlyGrow DEF PolicyInv
  <1>2. ASSUME DOMAIN cas' = DOMAIN cas,
               \A ca \in DOMAIN cas : cas'[ca].cosignerIndex = cas[ca].cosignerIndex
        PROVE  CACosignersResolve'
    BY <1>1, <1>2 DEF CACosignersResolve
  <1>3. ASSUME NEW ca \in CACertificate, AddCA(ca)
        PROVE  CACosignersResolve'
    <2>1. CASE Abort
      BY <1>2, <2>1 DEF Abort, tables
    <2>2. CASE ~Abort
      <3>1. /\ cosigners' = Append(cosigners, ca.id)
            /\ cas' = Put(cas, ca.id, NewCA(ca, Len(cosigners')))
        BY <1>3, <2>2 DEF AddCA, RegisterCosigner
      <3>2. NewCA(ca, Len(cosigners')).cosignerIndex = Len(cosigners')
        BY DEF NewCA
      <3>3. /\ Len(cosigners') \in DOMAIN cosigners'
            /\ cosigners'[Len(cosigners')] = ca.id
        <4>1. ca.id \in ID
          BY DEF CACertificate
        <4> QED
          BY <1>0, <3>1, <4>1
      <3> DEFINE new == NewCA(ca, Len(cosigners'))
      <3>4. cas' = Put(cas, ca.id, new) /\ new.cosignerIndex = Len(cosigners')
        BY <3>1, <3>2
      <3> HIDE DEF new
      <3>5. /\ DOMAIN cas' = DOMAIN cas \cup {ca.id} /\ cas'[ca.id] = new
            /\ \A x \in DOMAIN cas \ {ca.id} : cas'[x] = cas[x]
        BY <3>4 DEF Put
      <3> QED
        BY <1>1, <3>3, <3>4, <3>5 DEF CACosignersResolve
    <2> QED
      BY <2>1, <2>2
  <1>5. ASSUME cas' = cas
        PROVE  CACosignersResolve'
    BY <1>2, <1>5
  <1>6. ASSUME NEW ca \in ID, NEW n \in Name, RequireCosignersForCA(ca, n)
        PROVE  CACosignersResolve'
    <2>1. CASE cas' = cas
      BY <1>5, <2>1
    <2>2. CASE /\ ca \in DOMAIN cas
               /\ cas' = [cas EXCEPT ![ca].requirements = Append(@, names[n])]
      BY <1>0, <1>2, <2>2 DEF TrustedCA
    <2> QED
      BY <1>6, <2>1, <2>2 DEF RequireCosignersForCA, Abort, tables
  <1>7. ASSUME NEW line \in RevokeLines, RevokeRange(line)
        PROVE  CACosignersResolve'
    <2>1. CASE cas' = cas
      BY <1>5, <2>1
    <2> DEFINE new == [min |-> parseSerial(line.min), max |-> parseSerial(line.max)]
    <2>2. CASE /\ line.ca \in DOMAIN cas
               /\ cas' = [cas EXCEPT ![line.ca].revokedRanges = Append(@, new)]
      <3> HIDE DEF new
      <3> QED
        BY <1>0, <1>2, <2>2 DEF TrustedCA
    <2> QED
      BY <1>7, <2>1, <2>2 DEF RevokeRange, RevokeLineOK, Abort, tables
  <1>8. ASSUME NEW line \in SubtreeLines, AddTrustedSubtree(line)
        PROVE  CACosignersResolve'
    <2>1. CASE cas' = cas
      BY <1>5, <2>1
    <2> DEFINE new == [log |-> line.log, start |-> line.start,
                       end |-> line.end, hash |-> line.hash]
    <2>2. CASE /\ line.ca \in DOMAIN cas
               /\ cas' = [cas EXCEPT ![line.ca].trustedSubtrees = Append(@, new)]
      <3> HIDE DEF new
      <3> QED
        BY <1>0, <1>2, <2>2 DEF TrustedCA
    <2> QED
      BY <1>8, <2>1, <2>2 DEF AddTrustedSubtree, SubtreeLineOK, Abort, tables
  <1>9. ASSUME \/ CACertsLoaded \/ PolicyFileRead
               \/ \E id \in ID, wellFormed \in BOOLEAN : AddCosigner(id, wellFormed)
               \/ \E line \in GroupLines : AddGroup(line)
               \/ \E n \in Name : RequireCosignersForAllCAs(n)
        PROVE  cas' = cas
    BY <1>9 DEF CACertsLoaded, PolicyFileRead, AddCosigner, AddGroup, tables,
                RequireCosignersForAllCAs, Abort
  <1> QED
    BY <1>3, <1>5, <1>6, <1>7, <1>8, <1>9 DEF AnyPolicyStep

\* A requirement is appended with the index of a name, which lies in the
\* tables.
LEMMA RequirementsResolveStep ==
    ASSUME PolicyInv, AnyPolicyStep
    PROVE  RequirementsResolve'
  <1> DEFINE Ok(idx) == Within(idx, groups', cosigners')
  <1>0. /\ requirementsForAllCAs \in Seq(PolicyIndex)
        /\ cas \in [DOMAIN cas -> TrustedCA]
        /\ \A n \in DOMAIN names : names[n] \in PolicyIndex
    BY DEF PolicyInv, PolicyTypeOK
  <1>1. /\ \A i \in DOMAIN requirementsForAllCAs : Ok(requirementsForAllCAs[i])
        /\ \A ca \in DOMAIN cas : \A i \in DOMAIN cas[ca].requirements :
              Ok(cas[ca].requirements[i])
        /\ \A n \in DOMAIN names : Ok(names[n])
    <2>1. /\ \A i \in DOMAIN requirementsForAllCAs :
                Within(requirementsForAllCAs[i], groups, cosigners)
          /\ \A ca \in DOMAIN cas : \A i \in DOMAIN cas[ca].requirements :
                Within(cas[ca].requirements[i], groups, cosigners)
          /\ \A n \in DOMAIN names : Within(names[n], groups, cosigners)
      BY DEF PolicyInv, IndexesResolve, RequirementsResolve, NamesResolve,
             InTables, Within
    <2>2. /\ \A i \in DOMAIN requirementsForAllCAs : requirementsForAllCAs[i] \in PolicyIndex
          /\ \A ca \in DOMAIN cas : \A i \in DOMAIN cas[ca].requirements :
                cas[ca].requirements[i] \in PolicyIndex
      BY <1>0 DEF TrustedCA
    <2>3. \A idx \in PolicyIndex :
              Within(idx, groups, cosigners) => Within(idx, groups', cosigners')
      BY IndexesAreStable DEF PolicyInv
    <2> QED
      BY <1>0, <2>1, <2>2, <2>3
  <1> HIDE DEF Ok
  <1> SUFFICES /\ \A i \in DOMAIN requirementsForAllCAs' : Ok(requirementsForAllCAs'[i])
               /\ \A ca \in DOMAIN cas' : \A i \in DOMAIN cas'[ca].requirements :
                     Ok(cas'[ca].requirements[i])
    BY DEF Ok, RequirementsResolve, InTables, Within
  <1> DEFINE AllOk == \A i \in DOMAIN requirementsForAllCAs' : Ok(requirementsForAllCAs'[i])
             CAOk  == \A ca \in DOMAIN cas' : \A i \in DOMAIN cas'[ca].requirements :
                        Ok(cas'[ca].requirements[i])
  <1>2. CASE requirementsForAllCAs' = requirementsForAllCAs /\ cas' = cas
    BY <1>1, <1>2
  <1>3. ASSUME requirementsForAllCAs' = requirementsForAllCAs, DOMAIN cas' = DOMAIN cas,
               \A ca \in DOMAIN cas : cas'[ca].requirements = cas[ca].requirements
        PROVE  AllOk /\ CAOk
    BY <1>1, <1>3
  <1>4. ASSUME NEW ca \in CACertificate, AddCA(ca)
        PROVE  AllOk /\ CAOk
    <2>1. CASE Abort
      BY <1>2, <2>1 DEF Abort, tables
    <2>2. CASE ~Abort
      <3> DEFINE new == NewCA(ca, Len(cosigners'))
      <3>1. cas' = Put(cas, ca.id, new) /\ requirementsForAllCAs' = requirementsForAllCAs
        BY <1>4, <2>2 DEF AddCA
      <3>2. new.requirements = <<>>
        BY DEF NewCA
      <3> HIDE DEF new
      <3>3. /\ DOMAIN cas' = DOMAIN cas \cup {ca.id} /\ cas'[ca.id] = new
            /\ \A x \in DOMAIN cas \ {ca.id} : cas'[x] = cas[x]
        BY <3>1 DEF Put
      <3> QED
        BY <1>1, <3>1, <3>2, <3>3
    <2> QED
      BY <2>1, <2>2
  <1>5. ASSUME NEW ca \in ID, NEW n \in Name, RequireCosignersForCA(ca, n)
        PROVE  AllOk /\ CAOk
    <2>1. CASE Abort
      BY <1>2, <2>1 DEF Abort, tables
    <2>2. CASE ~Abort
      <3>1. /\ n \in DOMAIN names /\ ca \in DOMAIN cas
            /\ cas' = [cas EXCEPT ![ca].requirements = Append(@, names[n])]
            /\ requirementsForAllCAs' = requirementsForAllCAs
        BY <1>5, <2>2 DEF RequireCosignersForCA
      <3>2. /\ DOMAIN cas' = DOMAIN cas
            /\ cas'[ca].requirements = Append(cas[ca].requirements, names[n])
            /\ \A x \in DOMAIN cas \ {ca} : cas'[x] = cas[x]
        BY <1>0, <3>1 DEF TrustedCA
      <3>3. cas[ca].requirements \in Seq(PolicyIndex)
        BY <1>0, <3>1 DEF TrustedCA
      <3>4. \A i \in DOMAIN cas'[ca].requirements : Ok(cas'[ca].requirements[i])
        <4> DEFINE old == cas[ca].requirements
        <4>1. old \in Seq(PolicyIndex) /\ cas'[ca].requirements = Append(old, names[n])
          BY <3>2, <3>3
        <4>2. (\A i \in DOMAIN old : Ok(old[i])) /\ Ok(names[n])
          BY <1>1, <3>1
        <4> HIDE DEF old
        <4>3. \A i \in DOMAIN Append(old, names[n]) : Ok(Append(old, names[n])[i])
          BY <1>0, <3>1, <4>1, <4>2
        <4> QED
          BY <4>1, <4>3
      <3> QED
        BY <1>1, <3>1, <3>2, <3>4
    <2> QED
      BY <2>1, <2>2
  <1>6. ASSUME NEW n \in Name, RequireCosignersForAllCAs(n)
        PROVE  AllOk /\ CAOk
    <2>1. CASE Abort
      BY <1>2, <2>1 DEF Abort, tables
    <2>2. CASE ~Abort
      <3>1. /\ n \in DOMAIN names /\ cas' = cas
            /\ requirementsForAllCAs' = Append(requirementsForAllCAs, names[n])
        BY <1>6, <2>2 DEF RequireCosignersForAllCAs
      <3>2. AllOk
        BY <1>0, <1>1, <3>1
      <3> QED
        BY <1>1, <3>1, <3>2
    <2> QED
      BY <2>1, <2>2
  <1>7. ASSUME NEW line \in RevokeLines, RevokeRange(line)
        PROVE  AllOk /\ CAOk
    <2> DEFINE new == [min |-> parseSerial(line.min), max |-> parseSerial(line.max)]
    <2>1. CASE Abort
      BY <1>2, <2>1 DEF Abort, tables
    <2>2. CASE ~Abort
      <3>1. /\ line.ca \in DOMAIN cas /\ requirementsForAllCAs' = requirementsForAllCAs
            /\ cas' = [cas EXCEPT ![line.ca].revokedRanges = Append(@, new)]
        BY <1>7, <2>2 DEF RevokeRange, RevokeLineOK
      <3> HIDE DEF new
      <3>2. /\ DOMAIN cas' = DOMAIN cas
            /\ \A x \in DOMAIN cas : cas'[x].requirements = cas[x].requirements
        BY <1>0, <3>1 DEF TrustedCA
      <3> QED
        BY <1>3, <3>1, <3>2
    <2> QED
      BY <2>1, <2>2
  <1>8. ASSUME NEW line \in SubtreeLines, AddTrustedSubtree(line)
        PROVE  AllOk /\ CAOk
    <2> DEFINE new == [log |-> line.log, start |-> line.start,
                       end |-> line.end, hash |-> line.hash]
    <2>1. CASE Abort
      BY <1>2, <2>1 DEF Abort, tables
    <2>2. CASE ~Abort
      <3>1. /\ line.ca \in DOMAIN cas /\ requirementsForAllCAs' = requirementsForAllCAs
            /\ cas' = [cas EXCEPT ![line.ca].trustedSubtrees = Append(@, new)]
        BY <1>8, <2>2 DEF AddTrustedSubtree, SubtreeLineOK
      <3> HIDE DEF new
      <3>2. /\ DOMAIN cas' = DOMAIN cas
            /\ \A x \in DOMAIN cas : cas'[x].requirements = cas[x].requirements
        BY <1>0, <3>1 DEF TrustedCA
      <3> QED
        BY <1>3, <3>1, <3>2
    <2> QED
      BY <2>1, <2>2
  <1>9. ASSUME \/ CACertsLoaded \/ PolicyFileRead
               \/ \E id \in ID, wellFormed \in BOOLEAN : AddCosigner(id, wellFormed)
               \/ \E line \in GroupLines : AddGroup(line)
        PROVE  requirementsForAllCAs' = requirementsForAllCAs /\ cas' = cas
    BY <1>9 DEF CACertsLoaded, PolicyFileRead, AddCosigner, AddGroup, tables, Abort
  <1> QED
    BY <1>2, <1>4, <1>5, <1>6, <1>7, <1>8, <1>9 DEF AnyPolicyStep

\* A group's members are looked up before the group is appended.
LEMMA GroupsAreOrderedStep ==
    ASSUME PolicyInv, AnyPolicyStep
    PROVE  GroupsAreOrdered'
  <1> DEFINE Ok(m, g, cs) == IF m.isGroup THEN m.index < g ELSE m.index <= Len(cs)
  <1>0. /\ cosigners \in Seq(ID) /\ groups \in Seq(PolicyGroup)
        /\ Len(cosigners) \in Nat /\ Len(groups) \in Nat
        /\ \A n \in DOMAIN names : names[n] \in PolicyIndex
    BY DEF PolicyInv, PolicyTypeOK
  <1>1. Len(cosigners') \in Nat /\ Len(cosigners) <= Len(cosigners')
    BY <1>0, TablesOnlyGrow DEF PolicyInv
  <1>2. \A g \in DOMAIN groups : \A i \in DOMAIN groups[g].members :
            Ok(groups[g].members[i], g, cosigners')
    <2>1. SUFFICES ASSUME NEW g \in DOMAIN groups, NEW i \in DOMAIN groups[g].members
                   PROVE  Ok(groups[g].members[i], g, cosigners')
      OBVIOUS
    <2>2. groups[g].members[i] \in PolicyIndex
      <3>1. groups[g] \in PolicyGroup
        BY <1>0
      <3>2. groups[g].members \in Seq(PolicyIndex)
        BY <3>1 DEF PolicyGroup
      <3> QED
        BY <3>2
    <2>3. Ok(groups[g].members[i], g, cosigners)
      BY DEF PolicyInv, IndexesResolve, GroupsAreOrdered
    <2> QED
      BY <1>0, <1>1, <2>2, <2>3 DEF PolicyIndex
  <1> SUFFICES \A g \in DOMAIN groups' : \A i \in DOMAIN groups'[g].members :
                   Ok(groups'[g].members[i], g, cosigners')
    BY DEF GroupsAreOrdered
  <1>3. CASE groups' = groups
    BY <1>2, <1>3
  <1>4. ASSUME NEW line \in GroupLines, GroupLineOK(line), cosigners' = cosigners,
               groups' = Append(groups, GroupOf(line))
        PROVE  \A g \in DOMAIN groups' : \A i \in DOMAIN groups'[g].members :
                   Ok(groups'[g].members[i], g, cosigners')
    <2>1. line.members \in Seq(Name)
      BY PolicyInputAssumption
    <2>2. \A i \in DOMAIN GroupOf(line).members :
              Ok(GroupOf(line).members[i], Len(groups) + 1, cosigners)
      <3>1. SUFFICES ASSUME NEW i \in 1 .. Len(line.members)
                     PROVE  Ok(names[line.members[i]], Len(groups) + 1, cosigners)
        BY DEF GroupOf
      <3>2. line.members[i] \in DOMAIN names
        BY <1>4, <2>1 DEF GroupLineOK
      <3>3. InTables(names[line.members[i]]) /\ names[line.members[i]] \in PolicyIndex
        BY <1>0, <3>2 DEF PolicyInv, IndexesResolve, NamesResolve
      <3> QED
        BY <1>0, <3>3 DEF InTables, PolicyIndex
    <2> DEFINE new == GroupOf(line)
    <2>3. \A i \in DOMAIN new.members : Ok(new.members[i], Len(groups) + 1, cosigners)
      BY <2>2
    <2>4. groups' = Append(groups, new)
      BY <1>4
    <2> HIDE DEF new, Ok
    <2>5. /\ DOMAIN groups' = 1 .. Len(groups) + 1 /\ groups'[Len(groups) + 1] = new
          /\ \A g \in DOMAIN groups : groups'[g] = groups[g]
          /\ DOMAIN groups' = DOMAIN groups \cup {Len(groups) + 1}
      BY <1>0, <2>4, SMTT(30)
    <2> QED
      BY <1>2, <1>4, <2>3, <2>5
  <1>5. ASSUME \/ \E ca \in CACertificate : AddCA(ca)
               \/ \E id \in ID, wellFormed \in BOOLEAN : AddCosigner(id, wellFormed)
               \/ CACertsLoaded \/ PolicyFileRead
               \/ \E ca \in ID, n \in Name : RequireCosignersForCA(ca, n)
               \/ \E n \in Name : RequireCosignersForAllCAs(n)
               \/ \E line \in RevokeLines : RevokeRange(line)
               \/ \E line \in SubtreeLines : AddTrustedSubtree(line)
        PROVE  groups' = groups
    BY <1>5 DEF CACertsLoaded, PolicyFileRead, RequireCosignersForCA, tables, AddCA,
                AddCosigner, RegisterCosigner, RequireCosignersForAllCAs, RevokeRange,
                AddTrustedSubtree, Abort
  <1>6. ASSUME NEW line \in GroupLines, AddGroup(line)
        PROVE  \/ groups' = groups
               \/ /\ GroupLineOK(line) /\ cosigners' = cosigners
                  /\ groups' = Append(groups, GroupOf(line))
    BY <1>6 DEF AddGroup, Abort, tables
  <1> QED
    BY <1>3, <1>4, <1>5, <1>6 DEF AnyPolicyStep

-----------------------------------------------------------------------------

\* PolicyInv holds initially, and reading the policy preserves it.
LEMMA PolicyInvInit == Init => PolicyInv
  BY InitTypeOK, InitIndexesResolve DEF PolicyInv

LEMMA PolicyInvStep ==
    ASSUME PolicyInv, AnyPolicyStep \/ UNCHANGED policyVars
    PROVE  PolicyInv'
  <1>1. CASE AnyPolicyStep
    <2>1. PolicyTypeOK'
      BY <1>1, TypeOKStep DEF PolicyInv
    <2> QED
      BY <1>1, <2>1, NamesResolveStep, EntriesAreNamedStep, CACosignersResolveStep,
         RequirementsResolveStep, GroupsAreOrderedStep DEF PolicyInv, IndexesResolve
  <1>2. CASE UNCHANGED policyVars
    BY <1>2 DEF policyVars, PolicyInv, PolicyTypeOK, IndexesResolve, NamesResolve,
                EntriesAreNamed, CACosignersResolve, RequirementsResolve, GroupsAreOrdered,
                InTables, NameForIndex
  <1> QED
    BY <1>1, <1>2

-----------------------------------------------------------------------------

\* The types of the verifier's state, and its invariant, whatever certificate
\* it is shown.
VerifierTypeOK ==
    /\ PolicyTypeOK
    /\ verdict \in {"none", "rejected", "trusted", "cosigned", "unsatisfied"}
    /\ cosignersSatisfied \subseteq DOMAIN cosigners
    /\ groupsSatisfied \subseteq DOMAIN groups
    /\ next \in 1 .. Len(groups) + 1
    /\ outcomes \subseteq BOOLEAN

VerifierInv == VerifierTypeOK /\ IndexesResolve /\ JudgementInv

\* What has been found out about the certificate under verification; the
\* policy stays what it was.
VerdictInv ==
    cert # NoCertificate =>
        LET found == FindTrustedSubtree(cas[cert.issuer], cert)
        IN  /\ verdict = "rejected" =>
                  ~Eligible(cert) \/ (found # {} /\ cert.hash \notin found)
            /\ verdict = "trusted" => Eligible(cert) /\ cert.hash \in found
            /\ verdict \in {"none", "cosigned", "unsatisfied"} =>
                  Eligible(cert) /\ found = {}

\* With the certificates of Certificates.
VerifyInv == VerifierInv /\ cert \in Certificates \cup {NoCertificate} /\ VerdictInv

\* A signature's message has a message's fields and no others.
HasMessages(c) ==
    \A i \in DOMAIN c.signatures :
        c.signatures[i].message \in
            [cosigner : ID, ca : ID, log : LogNumber, timestamp : Nat,
             start : Nat, end : Nat, hash : Hash]

LEMMA VerifierInvInit == VerifyInit => VerifierInv
  <1> SUFFICES ASSUME VerifyInit PROVE VerifierInv
    OBVIOUS
  <1>1. PolicyInv
    BY PolicyInvInit DEF VerifyInit
  <1>2. groups = <<>> /\ cosigners = <<>>
    BY DEF VerifyInit, Init
  <1>3. VerifierTypeOK
    BY <1>1, <1>2 DEF PolicyInv, VerifyInit, VerifierTypeOK
  <1> QED
    BY <1>1, <1>3 DEF PolicyInv, VerifierInv, VerifyInit, JudgementInv, CountingInv, Counting

-----------------------------------------------------------------------------

\* While the policy is read no certificate is under verification.
LEMMA PolicyStep ==
    ASSUME VerifierInv, AnyPolicyStep, UNCHANGED verifyVars
    PROVE  VerifierInv'
  <1>1. PolicyInv'
    BY PolicyInvStep, SMTT(30) DEF VerifierInv, VerifierTypeOK, PolicyInv
  <1>2. phase # "ready"
    BY DEF AnyPolicyStep, AddCA, CACertsLoaded, AddCosigner, AddGroup,
           RequireCosignersForCA, RequireCosignersForAllCAs, RevokeRange,
           AddTrustedSubtree, PolicyFileRead
  <1>3. cert' = NoCertificate /\ verdict' = "none"
    BY <1>2 DEF VerifierInv, JudgementInv, VerifierTypeOK, verifyVars
  <1>4. JudgementInv'
    BY <1>3 DEF JudgementInv, CountingInv, Counting
  <1>5. /\ DOMAIN cosigners \subseteq DOMAIN cosigners'
        /\ DOMAIN groups \subseteq DOMAIN groups'
        /\ next \in 1 .. Len(groups') + 1
    <2>1. cosigners \in Seq(ID) /\ groups \in Seq(PolicyGroup) /\ next \in 1 .. Len(groups) + 1
      BY DEF VerifierInv, VerifierTypeOK, PolicyTypeOK
    <2>2. \/ cosigners' = cosigners
          \/ \E id \in ID : cosigners' = Append(cosigners, id)
      BY TablesOnlyGrow DEF VerifierInv, VerifierTypeOK
    <2>3. groups' = groups \/ \E g : groups' = Append(groups, g)
      BY TablesOnlyGrow DEF VerifierInv, VerifierTypeOK
    <2> QED
      BY <2>1, <2>2, <2>3
  <1>6. VerifierTypeOK'
    BY <1>1, <1>5 DEF VerifierInv, VerifierTypeOK, PolicyInv, verifyVars
  <1> QED
    BY <1>1, <1>4, <1>6 DEF VerifierInv, PolicyInv

\* Verification leaves the policy alone.
LEMMA PolicyIsFixed ==
    ASSUME VerifierInv, UNCHANGED tables, phase' \in {"ready", "passed", "failed"}
    PROVE  PolicyTypeOK' /\ IndexesResolve'
  BY DEF VerifierInv, VerifierTypeOK, tables, PolicyTypeOK, IndexesResolve, NamesResolve,
         EntriesAreNamed, CACosignersResolve, RequirementsResolve, GroupsAreOrdered,
         InTables, NameForIndex

-----------------------------------------------------------------------------

\* The certificate is taken up: decided at once, or its signers are marked.
LEMMA VerifyMTCProofStep ==
    ASSUME VerifierInv, NEW c, c # NoCertificate, VerifyMTCProof(c)
    PROVE  VerifierInv'
  <1>1. /\ phase = "ready" /\ cert' = c /\ groupsSatisfied' = {} /\ next' = 1
        /\ UNCHANGED <<policyVars, outcomes>> /\ c # NoCertificate
    BY DEF VerifyMTCProof
  <1>2. PolicyTypeOK' /\ IndexesResolve'
    BY <1>1, PolicyIsFixed DEF policyVars, tables
  <1>3. \/ verdict' \in {"rejected", "trusted"} /\ cosignersSatisfied' = {}
        \/ /\ Eligible(c) /\ verdict' = "none"
           /\ cosignersSatisfied' = VerifiedCosigners(c)
    BY DEF VerifyMTCProof
  <1>4. VerifierTypeOK'
    <2>1. groups' \in Seq(PolicyGroup) /\ 1 \in 1 .. Len(groups') + 1
      BY <1>2 DEF PolicyTypeOK
    <2>2. cosignersSatisfied' \subseteq DOMAIN cosigners'
      BY <1>1, <1>3 DEF VerifiedCosigners, policyVars
    <2> QED
      BY <1>1, <1>2, <1>3, <2>1, <2>2 DEF VerifierTypeOK, VerifierInv
  <1>5. ASSUME Eligible(c), verdict' = "none", cosignersSatisfied' = VerifiedCosigners(c)
        PROVE  CountingInv'
    <2>1. c.issuer \in DOMAIN cas' /\ ProofEvaluates(c)
      BY <1>1, <1>5 DEF Eligible, policyVars
    <2>2. cosignersSatisfied' = VerifiedCosigners(cert)'
      BY <1>1, <1>5 DEF VerifiedCosigners, policyVars
    <2>3. 1 .. next' - 1 = {}
      BY <1>1
    <2> QED
      BY <1>1, <1>5, <2>1, <2>2, <2>3 DEF CountingInv
  <1>6. JudgementInv'
    BY <1>1, <1>3, <1>5 DEF JudgementInv, CountingInv, Counting, policyVars
  <1> QED
    BY <1>2, <1>4, <1>6 DEF VerifierInv

\* A member of a group is a cosigner or an earlier group, so marking group
\* `next` changes no count of a group up to it.
LEMMA CountsAreSettled ==
    ASSUME VerifierInv, EvaluateGroup, NEW k \in 1 .. next
    PROVE  SatisfiedMembers(groups[k])' = SatisfiedMembers(groups[k])
  <1>1. /\ UNCHANGED <<groups, cosigners, cosignersSatisfied>>
        /\ next \in Nat /\ next <= Len(groups)
        /\ groups \in Seq(PolicyGroup)
        /\ \/ groupsSatisfied' = groupsSatisfied
           \/ groupsSatisfied' = groupsSatisfied \cup {next}
    <2>1. groups \in Seq(PolicyGroup) /\ next \in 1 .. Len(groups) + 1
      BY DEF VerifierInv, VerifierTypeOK, PolicyTypeOK
    <2> QED
      BY <2>1 DEF EvaluateGroup, policyVars
  <1>2. k \in DOMAIN groups /\ k <= next /\ k \in Nat
    BY <1>1
  <1>3. \A i \in DOMAIN groups[k].members :
            groups[k].members[i].isGroup => groups[k].members[i].index # next
    <2> SUFFICES ASSUME NEW i \in DOMAIN groups[k].members, groups[k].members[i].isGroup
                 PROVE  groups[k].members[i].index # next
      OBVIOUS
    <2>1. groups[k].members[i].index < k
      BY <1>2 DEF VerifierInv, IndexesResolve, GroupsAreOrdered
    <2>2. groups[k] \in PolicyGroup
      BY <1>1, <1>2
    <2>3. groups[k].members \in Seq(PolicyIndex)
      BY <2>2 DEF PolicyGroup
    <2>4. groups[k].members[i].index \in Nat
      <3>1. groups[k].members[i] \in PolicyIndex
        BY <2>3
      <3> QED
        BY <3>1 DEF PolicyIndex
    <2> QED
      BY <1>1, <1>2, <2>1, <2>4
  <1> QED
    BY <1>1, <1>3 DEF SatisfiedMembers, Satisfied

LEMMA EvaluateGroupStep ==
    ASSUME VerifierInv, EvaluateGroup
    PROVE  VerifierInv'
  <1> DEFINE Reached(k) == Cardinality(SatisfiedMembers(groups[k])) >= groups[k].number
  <1>1. /\ UNCHANGED <<policyVars, cert, verdict, cosignersSatisfied, outcomes>>
        /\ cert # NoCertificate /\ verdict = "none" /\ next' = next + 1
        /\ groupsSatisfied' = groupsSatisfied \cup {k \in {next} : Reached(k)}
    BY DEF EvaluateGroup
  <1>2. /\ groups \in Seq(PolicyGroup) /\ next \in 1 .. Len(groups)
        /\ phase = "ready" /\ CountingInv /\ Counting
    <2>1. groups \in Seq(PolicyGroup) /\ next \in 1 .. Len(groups) + 1
      BY DEF VerifierInv, VerifierTypeOK, PolicyTypeOK
    <2> QED
      BY <1>1, <2>1 DEF EvaluateGroup, VerifierInv, JudgementInv, Counting
  <1>3. PolicyTypeOK' /\ IndexesResolve'
    BY <1>1, <1>2, PolicyIsFixed DEF policyVars, tables
  <1>4. groupsSatisfied' \subseteq DOMAIN groups' /\ next' \in 1 .. Len(groups') + 1
    BY <1>1, <1>2 DEF VerifierInv, VerifierTypeOK, policyVars
  <1>5. VerifierTypeOK'
    BY <1>1, <1>3, <1>4 DEF VerifierInv, VerifierTypeOK, policyVars
  <1>6. \A k \in 1 .. next : Reached(k)' <=> Reached(k)
    BY <1>1, CountsAreSettled DEF policyVars
  <1>7. groupsSatisfied = {k \in 1 .. next - 1 : Reached(k)}
    BY <1>2 DEF CountingInv
  <1> HIDE DEF Reached
  <1>8. groupsSatisfied' = {k \in 1 .. next : Reached(k)}
    BY <1>1, <1>2, <1>7
  <1>9. groupsSatisfied' = {k \in 1 .. next' - 1 : Reached(k)'}
    <2>1. next' - 1 = next
      BY <1>1, <1>2
    <2> QED
      BY <1>6, <1>8, <2>1
  <1>10. CountingInv'
    <2>1. /\ cert'.issuer \in DOMAIN cas' /\ ProofEvaluates(cert)'
          /\ cosignersSatisfied' = VerifiedCosigners(cert)'
      BY <1>1, <1>2 DEF CountingInv, ProofEvaluates, VerifiedCosigners, policyVars
    <2> QED
      BY <1>1, <1>9, <2>1 DEF CountingInv, Reached
  <1> QED
    BY <1>1, <1>2, <1>3, <1>5, <1>10 DEF VerifierInv, JudgementInv, policyVars

\* The requirements are judged when every group has been evaluated.
LEMMA CheckRequirementsStep ==
    ASSUME VerifierInv, CheckRequirements
    PROVE  VerifierInv'
  <1>1. /\ UNCHANGED <<policyVars, cert, cosignersSatisfied, groupsSatisfied, next, outcomes>>
        /\ cert # NoCertificate /\ verdict = "none" /\ next > Len(groups)
        /\ verdict' = IF PolicySatisfied THEN "cosigned" ELSE "unsatisfied"
    BY DEF CheckRequirements
  <1>2. /\ phase = "ready" /\ CountingInv /\ Counting /\ next = Len(groups) + 1
    <2>1. groups \in Seq(PolicyGroup) /\ next \in 1 .. Len(groups) + 1
      BY DEF VerifierInv, VerifierTypeOK, PolicyTypeOK
    <2> QED
      BY <1>1, <2>1 DEF VerifierInv, JudgementInv, Counting
  <1>3. PolicyTypeOK' /\ IndexesResolve'
    BY <1>1, <1>2, PolicyIsFixed DEF policyVars, tables
  <1>4. VerifierTypeOK'
    BY <1>1, <1>3 DEF VerifierInv, VerifierTypeOK, policyVars
  <1>5. PolicySatisfied' <=> PolicySatisfied
    BY <1>1 DEF PolicySatisfied, Satisfied, policyVars
  <1>6. CountingInv'
    <2>1. \A k : SatisfiedMembers(groups[k])' = SatisfiedMembers(groups[k])
      BY <1>1 DEF SatisfiedMembers, Satisfied, policyVars
    <2>2. /\ cert'.issuer \in DOMAIN cas' /\ ProofEvaluates(cert)'
          /\ cosignersSatisfied' = VerifiedCosigners(cert)'
      BY <1>1, <1>2 DEF CountingInv, ProofEvaluates, VerifiedCosigners, policyVars
    <2>3. groupsSatisfied' = {k \in 1 .. next' - 1 :
              Cardinality(SatisfiedMembers(groups[k])') >= groups'[k].number}
      BY <1>1, <1>2, <2>1 DEF CountingInv, policyVars
    <2>4. next' = Len(groups') + 1 /\ (verdict' = "cosigned" <=> PolicySatisfied')
      BY <1>1, <1>2, <1>5 DEF policyVars
    <2> QED
      BY <2>2, <2>3, <2>4 DEF CountingInv
  <1> QED
    BY <1>1, <1>2, <1>3, <1>4, <1>6 DEF VerifierInv, JudgementInv, policyVars

LEMMA ReportAndExitStep ==
    ASSUME VerifierInv, ReportResult \/ Exit
    PROVE  VerifierInv'
  <1>0. groups \in Seq(PolicyGroup)
    BY DEF VerifierInv, VerifierTypeOK, PolicyTypeOK
  <1>1. CASE ReportResult
    <2>1. phase = "ready"
      BY <1>1 DEF ReportResult, VerifierInv, JudgementInv
    <2>2. PolicyTypeOK' /\ IndexesResolve'
      BY <1>1, <2>1, PolicyIsFixed DEF ReportResult, policyVars, tables
    <2> QED
      BY <1>0, <1>1, <2>2 DEF ReportResult, VerifierInv, VerifierTypeOK, JudgementInv,
                              CountingInv, Counting, policyVars
  <1>2. CASE Exit
    <2>1. PolicyTypeOK' /\ IndexesResolve'
      BY <1>2, PolicyIsFixed DEF Exit
    <2> QED
      BY <1>2, <2>1 DEF Exit, VerifierInv, VerifierTypeOK, JudgementInv, CountingInv,
                        Counting, verifyVars, tables
  <1> QED
    BY <1>1, <1>2

LEMMA StutterStep ==
    ASSUME VerifierInv, UNCHANGED vars
    PROVE  VerifierInv'
  <1>1. UNCHANGED <<phase, names, cosigners, groups, requirementsForAllCAs, cas, cert,
                    verdict, cosignersSatisfied, groupsSatisfied, next, outcomes>>
    BY DEF vars, policyVars, verifyVars
  <1>2. PolicyTypeOK' /\ IndexesResolve'
    BY <1>1 DEF VerifierInv, VerifierTypeOK, PolicyTypeOK, IndexesResolve, NamesResolve,
                EntriesAreNamed, CACosignersResolve, RequirementsResolve,
                GroupsAreOrdered, InTables, NameForIndex
  <1>3. JudgementInv'
    BY <1>1 DEF VerifierInv, JudgementInv, CountingInv, Counting, VerifiedCosigners,
                ProofEvaluates, SatisfiedMembers, Satisfied, PolicySatisfied
  <1> QED
    BY <1>1, <1>2, <1>3 DEF VerifierInv, VerifierTypeOK

-----------------------------------------------------------------------------

\* What is known of a certificate depends on it and the CAs only.
LEMMA EligibilityStays ==
    ASSUME NEW c, cert' = c, cas' = cas
    PROVE  /\ Eligible(cert)' <=> Eligible(c)
           /\ FindTrustedSubtree(cas[cert.issuer], cert)' = FindTrustedSubtree(cas[c.issuer], c)
  <1>1. Revoked(cert)' <=> Revoked(c)
    BY DEF Revoked
  <1>2. ProofEvaluates(cert)' <=> ProofEvaluates(c)
    BY DEF ProofEvaluates, IsValidSubtree, IndexOf
  <1>3. Eligible(cert)' <=> Eligible(c)
    BY <1>1, <1>2 DEF Eligible
  <1>4. Matches(cas[cert.issuer], cert)' = Matches(cas[c.issuer], c)
    BY DEF Matches
  <1>5. FindTrustedSubtree(cas[cert.issuer], cert)' = FindTrustedSubtree(cas[c.issuer], c)
    BY <1>4 DEF FindTrustedSubtree
  <1> QED
    BY <1>3, <1>5

LEMMA VerdictOfPolicyStep ==
    ASSUME VerifierInv, AnyPolicyStep, UNCHANGED verifyVars
    PROVE  VerdictInv'
  <1>1. phase # "ready"
    BY DEF AnyPolicyStep, AddCA, CACertsLoaded, AddCosigner, AddGroup,
           RequireCosignersForCA, RequireCosignersForAllCAs, RevokeRange,
           AddTrustedSubtree, PolicyFileRead
  <1>2. cert' = NoCertificate
    BY <1>1 DEF VerifierInv, JudgementInv, verifyVars
  <1> QED
    BY <1>2 DEF VerdictInv

LEMMA VerdictOfCertificate ==
    ASSUME NEW c, VerifyMTCProof(c)
    PROVE  VerdictInv'
  <1> DEFINE found == FindTrustedSubtree(cas[c.issuer], c)
  <1>1. cert' = c /\ cas' = cas
    BY DEF VerifyMTCProof, policyVars
  <1>2. \/ verdict' = "rejected" /\ ~Eligible(c)
        \/ verdict' = "rejected" /\ Eligible(c) /\ found # {} /\ c.hash \notin found
        \/ verdict' = "trusted" /\ Eligible(c) /\ c.hash \in found
        \/ verdict' = "none" /\ Eligible(c) /\ found = {}
    BY DEF VerifyMTCProof
  <1>3. /\ Eligible(cert)' <=> Eligible(c)
        /\ FindTrustedSubtree(cas[cert.issuer], cert)' = found
    BY <1>1, EligibilityStays
  <1> HIDE DEF found
  <1> QED
    BY <1>1, <1>2, <1>3 DEF VerdictInv

LEMMA VerdictOfJudgement ==
    ASSUME VerdictInv,
           \/ EvaluateGroup \/ CheckRequirements \/ ReportResult \/ Exit
           \/ UNCHANGED vars
    PROVE  VerdictInv'
  <1>1. CASE cas' = cas /\ cert' = cert /\ verdict' = verdict
    <2>1. /\ Eligible(cert)' <=> Eligible(cert)
          /\ FindTrustedSubtree(cas[cert.issuer], cert)'
                = FindTrustedSubtree(cas[cert.issuer], cert)
      BY <1>1, EligibilityStays
    <2> QED
      BY <1>1, <2>1 DEF VerdictInv
  <1>2. CASE EvaluateGroup \/ Exit \/ UNCHANGED vars
    BY <1>1, <1>2 DEF EvaluateGroup, Exit, vars, policyVars, verifyVars, tables
  <1>3. CASE CheckRequirements
    <2>1. /\ cas' = cas /\ cert' = cert /\ cert # NoCertificate /\ verdict = "none"
          /\ verdict' \in {"cosigned", "unsatisfied"}
      BY <1>3 DEF CheckRequirements, policyVars
    <2>2. /\ Eligible(cert)' <=> Eligible(cert)
          /\ FindTrustedSubtree(cas[cert.issuer], cert)'
                = FindTrustedSubtree(cas[cert.issuer], cert)
      BY <2>1, EligibilityStays
    <2> QED
      BY <2>1, <2>2 DEF VerdictInv
  <1>4. CASE ReportResult
    BY <1>4 DEF ReportResult, VerdictInv
  <1> QED
    BY <1>2, <1>3, <1>4

-----------------------------------------------------------------------------

LEMMA VerifyInvInit == VerifyInit => VerifyInv
  BY VerifierInvInit DEF VerifyInit, VerifyInv, VerdictInv

LEMMA VerifyInvStep == VerifyInv /\ [Next]_vars => VerifyInv'
  <1> SUFFICES ASSUME VerifyInv, [Next]_vars PROVE VerifyInv'
    OBVIOUS
  <1>0. VerifierInv /\ VerdictInv /\ cert \in Certificates \cup {NoCertificate}
    BY DEF VerifyInv
  <1>1. CASE PolicyNext /\ UNCHANGED verifyVars
    BY <1>0, <1>1, PolicyNextIsStep, PolicyStep, VerdictOfPolicyStep
       DEF VerifyInv, verifyVars
  <1>2. ASSUME NEW c \in Certificates, VerifyMTCProof(c)
        PROVE  VerifyInv'
    <2>1. c # NoCertificate
      BY CertificateAssumption DEF CertificateAssumption
    <2>2. cert' = c
      BY <1>2 DEF VerifyMTCProof
    <2> QED
      BY <1>0, <1>2, <2>1, <2>2, VerifyMTCProofStep, VerdictOfCertificate DEF VerifyInv
  <1>3. CASE EvaluateGroup \/ CheckRequirements \/ ReportResult \/ Exit
    <2>1. cert' \in Certificates \cup {NoCertificate}
      BY <1>0, <1>3 DEF EvaluateGroup, CheckRequirements, ReportResult, Exit, verifyVars
    <2> QED
      BY <1>0, <1>3, <2>1, EvaluateGroupStep, CheckRequirementsStep, ReportAndExitStep,
         VerdictOfJudgement DEF VerifyInv
  <1>4. CASE UNCHANGED vars
    BY <1>0, <1>4, StutterStep, VerdictOfJudgement DEF VerifyInv, vars, verifyVars
  <1> QED
    BY <1>1, <1>2, <1>3, <1>4 DEF Next, VerifyNext

LEMMA VerifyInvariant == Spec => []VerifyInv
  BY VerifyInvInit, VerifyInvStep, PTL DEF Spec

\* What the invariant says, part by part.
LEMMA VerifyInvParts ==
    ASSUME VerifyInv
    PROVE  /\ VerifierInv /\ VerifyTypeOK /\ PolicyInv /\ VerdictInv
           /\ cert # NoCertificate => HasMessages(cert)
  <1>1. VerifierInv /\ VerifyTypeOK /\ PolicyInv /\ VerdictInv
    BY DEF VerifyInv, VerifierInv, VerifyTypeOK, VerifierTypeOK, PolicyInv
  <1>2. ASSUME cert # NoCertificate PROVE HasMessages(cert)
    <2>1. cert \in Certificate
      BY <1>2, CertificateAssumption DEF VerifyInv, CertificateAssumption
    <2>2. cert.signatures \in Seq(Signature)
      BY <2>1 DEF Certificate
    <2>3. ASSUME NEW i \in DOMAIN cert.signatures
          PROVE  cert.signatures[i].message \in
                   [cosigner : ID, ca : ID, log : LogNumber, timestamp : Nat,
                    start : Nat, end : Nat, hash : Hash]
      <3>1. cert.signatures[i] \in Signature
        BY <2>2
      <3>2. cert.signatures[i].message \in Message
        BY <3>1 DEF Signature
      <3> QED
        BY <3>2, SerialIsNat DEF Message
    <2> QED
      BY <2>3 DEF HasMessages
  <1> QED
    BY <1>1, <1>2

-----------------------------------------------------------------------------

\* What the marked cosigners and groups are, by name.
SatisfiedNames ==
    {cosigners[k] : k \in cosignersSatisfied}
    \cup {groups[k].name : k \in groupsSatisfied}

\* The table of names leads back from an entry's name to the entry.
LEMMA EntriesIndexed ==
    ASSUME VerifierInv
    PROVE  /\ \A k \in DOMAIN cosigners : /\ names[cosigners[k]].isGroup = FALSE
                                          /\ names[cosigners[k]].index = k
           /\ \A k \in DOMAIN groups : /\ names[groups[k].name].isGroup = TRUE
                                       /\ names[groups[k].name].index = k
  <1>1. EntriesAreNamed
    BY DEF VerifierInv, IndexesResolve
  <1>2. ASSUME NEW k \in DOMAIN cosigners
        PROVE  /\ names[cosigners[k]].isGroup = FALSE
               /\ names[cosigners[k]].index = k
    <2>1. names[cosigners[k]] = [isGroup |-> FALSE, index |-> k]
      BY <1>1 DEF EntriesAreNamed
    <2> QED
      BY <2>1
  <1>3. ASSUME NEW k \in DOMAIN groups
        PROVE  /\ names[groups[k].name].isGroup = TRUE
               /\ names[groups[k].name].index = k
    <2>1. names[groups[k].name] = [isGroup |-> TRUE, index |-> k]
      BY <1>1 DEF EntriesAreNamed
    <2> QED
      BY <2>1
  <1> QED
    BY <1>2, <1>3

\* An index is marked exactly when its name is among the satisfied ones: no
\* two entries share a name.
LEMMA SatisfiedByName ==
    ASSUME VerifierInv, NEW idx \in PolicyIndex, InTables(idx)
    PROVE  Satisfied(idx) <=> NameForIndex(idx) \in SatisfiedNames
  <1>1. /\ cosignersSatisfied \subseteq DOMAIN cosigners
        /\ groupsSatisfied \subseteq DOMAIN groups
        /\ idx.isGroup \in BOOLEAN /\ idx.index \in Nat \ {0}
        /\ cosigners \in Seq(ID) /\ groups \in Seq(PolicyGroup)
        /\ EntriesAreNamed
    BY DEF VerifierInv, VerifierTypeOK, PolicyTypeOK, PolicyIndex, IndexesResolve
  <1>2. CASE idx.isGroup
    <2>1. idx.index \in DOMAIN groups /\ NameForIndex(idx) = groups[idx.index].name
      BY <1>1, <1>2 DEF InTables, NameForIndex
    <2>2. \A k \in DOMAIN groups : groups[k].name = groups[idx.index].name => k = idx.index
      <3>1. \A k \in DOMAIN groups : names[groups[k].name].index = k
        BY EntriesIndexed
      <3> QED
        BY <2>1, <3>1
    <2>3. \A k \in DOMAIN cosigners : cosigners[k] # groups[idx.index].name
      <3>1. names[groups[idx.index].name].isGroup = TRUE
        BY <2>1, EntriesIndexed
      <3>2. \A k \in DOMAIN cosigners : names[cosigners[k]].isGroup = FALSE
        BY EntriesIndexed
      <3> QED
        BY <3>1, <3>2
    <2> QED
      BY <1>1, <1>2, <2>1, <2>2, <2>3 DEF Satisfied, SatisfiedNames
  <1>3. CASE ~idx.isGroup
    <2>1. idx.index \in DOMAIN cosigners /\ NameForIndex(idx) = cosigners[idx.index]
      BY <1>1, <1>3 DEF InTables, NameForIndex
    <2>2. \A k \in DOMAIN cosigners : cosigners[k] = cosigners[idx.index] => k = idx.index
      <3>1. \A k \in DOMAIN cosigners : names[cosigners[k]].index = k
        BY EntriesIndexed
      <3> QED
        BY <2>1, <3>1
    <2>3. \A k \in DOMAIN groups : groups[k].name # cosigners[idx.index]
      <3>1. names[cosigners[idx.index]].isGroup = FALSE
        BY <2>1, EntriesIndexed
      <3>2. \A k \in DOMAIN groups : names[groups[k].name].isGroup = TRUE
        BY EntriesIndexed
      <3> QED
        BY <3>1, <3>2
    <2> QED
      BY <1>1, <1>3, <2>1, <2>2, <2>3 DEF Satisfied, SatisfiedNames
  <1> QED
    BY <1>1, <1>2, <1>3

\* A valid signature is one that endorses the certificate's subtree.
LEMMA VerifyIsEndorsement ==
    ASSUME NEW c, HasMessages(c), NEW i \in DOMAIN c.signatures, NEW id \in ID,
           ProofEvaluates(c)
    PROVE  Endorses(c.signatures[i], id, c) <=>
             c.signatures[i].cosignerID = id /\ Verify(id, c, c.signatures[i])
  <1> DEFINE s == c.signatures[i]
  <1>3. s.message \in [cosigner : ID, ca : ID, log : LogNumber, timestamp : Nat,
                         start : Nat, end : Nat, hash : Hash]
    BY DEF HasMessages
  <1>4. \A l : s.message = cosignedMessage(id, c.issuer, l, 0, c) <=>
              /\ s.message.cosigner = id /\ s.message.ca = c.issuer
              /\ s.message.log = l /\ s.message.timestamp = 0
              /\ s.message.start = c.start /\ s.message.end = c.end
              /\ s.message.hash = c.hash
    BY <1>3 DEF cosignedMessage
  <1> HIDE DEF s
  <1>5. Endorses(s, id, c) <=> s.cosignerID = id /\ Verify(id, c, s)
    BY <1>4 DEF Endorses, Verify, ProofEvaluates
  <1> QED
    BY <1>5 DEF s

\* The cosigners marked are the signers.
LEMMA MarkedAreSigners ==
    ASSUME VerifierInv, Counting, HasMessages(cert)
    PROVE  Signers(cert) = {cosigners[k] : k \in cosignersSatisfied}
  <1>1. /\ ProofEvaluates(cert)
        /\ cosignersSatisfied = VerifiedCosigners(cert)
        /\ cosigners \in Seq(ID) /\ EntriesAreNamed /\ NamesResolve
    BY DEF VerifierInv, VerifierTypeOK, JudgementInv, CountingInv, PolicyTypeOK,
           IndexesResolve
  <1>2. ASSUME NEW k \in DOMAIN cosigners, NEW i \in DOMAIN cert.signatures
        PROVE  Endorses(cert.signatures[i], cosigners[k], cert) <=>
                 LET s == cert.signatures[i]
                 IN  /\ s.cosignerID \in DOMAIN names
                     /\ names[s.cosignerID] = [isGroup |-> FALSE, index |-> k]
                     /\ Verify(cosigners[k], cert, s)
    <2> DEFINE s == cert.signatures[i]
    <2>1. Endorses(s, cosigners[k], cert) <=>
             s.cosignerID = cosigners[k] /\ Verify(cosigners[k], cert, s)
      BY <1>1, VerifyIsEndorsement
    <2>2. /\ cosigners[k] \in DOMAIN names
          /\ names[cosigners[k]] = [isGroup |-> FALSE, index |-> k]
      BY <1>1 DEF EntriesAreNamed
    <2>3. \A n \in DOMAIN names :
             names[n] = [isGroup |-> FALSE, index |-> k] => n = cosigners[k]
      BY <1>1 DEF NamesResolve, NameForIndex
    <2> HIDE DEF s
    <2>4. s.cosignerID = cosigners[k] <=>
             /\ s.cosignerID \in DOMAIN names
             /\ names[s.cosignerID] = [isGroup |-> FALSE, index |-> k]
      BY <2>2, <2>3
    <2> QED
      BY <2>1, <2>4 DEF s
  <1>3. VerifiedCosigners(cert) =
          {k \in DOMAIN cosigners : \E i \in DOMAIN cert.signatures :
              Endorses(cert.signatures[i], cosigners[k], cert)}
    BY <1>2 DEF VerifiedCosigners
  <1> QED
    BY <1>1, <1>3 DEF Signers, CosignerIDs

\* Once all groups are evaluated, the satisfied names solve the group
\* equations of the policy.
LEMMA SatisfiedNamesAreTheMeaning ==
    ASSUME VerifierInv, Counting, HasMessages(cert), next = Len(groups) + 1
    PROVE  /\ SatisfiedNames \subseteq Name
           /\ IsMeaning(SatisfiedNames, Signers(cert), GroupDefs)
  <1>1. /\ cosignersSatisfied \subseteq DOMAIN cosigners
        /\ groupsSatisfied \subseteq DOMAIN groups
        /\ cosigners \in Seq(ID) /\ groups \in Seq(PolicyGroup)
        /\ EntriesAreNamed /\ GroupsAreOrdered
    BY DEF VerifierInv, VerifierTypeOK, PolicyTypeOK, IndexesResolve
  <1>2. SatisfiedNames \subseteq Name
    <2>1. \A k \in DOMAIN cosigners : cosigners[k] \in Name
      BY <1>1, NameAssumption
    <2>2. \A k \in DOMAIN groups : groups[k].name \in Name
      <3>1. \A k \in DOMAIN groups : groups[k] \in PolicyGroup
        BY <1>1
      <3> QED
        BY <3>1 DEF PolicyGroup
    <2> QED
      BY <1>1, <2>1, <2>2 DEF SatisfiedNames
  <1>3. groupsSatisfied = {k \in DOMAIN groups :
          Cardinality(SatisfiedMembers(groups[k])) >= groups[k].number}
    BY <1>1 DEF VerifierInv, JudgementInv, CountingInv
  <1>4. ASSUME NEW k \in DOMAIN groups
        PROVE  MembersIn(GroupDefinition(groups[k]), SatisfiedNames)
                 = SatisfiedMembers(groups[k])
    <2>1. groups[k].members \in Seq(PolicyIndex)
      <3>1. groups[k] \in PolicyGroup
        BY <1>1
      <3> QED
        BY <3>1 DEF PolicyGroup
    <2>2. ASSUME NEW i \in DOMAIN groups[k].members
          PROVE  NameForIndex(groups[k].members[i]) \in SatisfiedNames
                   <=> Satisfied(groups[k].members[i])
      <3>1. groups[k].members[i] \in PolicyIndex
        BY <2>1
      <3>2. InTables(groups[k].members[i])
        BY <1>1, <3>1 DEF GroupsAreOrdered, InTables, PolicyIndex
      <3> QED
        BY <3>1, <3>2, SatisfiedByName
    <2> QED
      BY <2>2 DEF MembersIn, GroupDefinition, SatisfiedMembers
  <1>5. ASSUME NEW k \in DOMAIN groups
        PROVE  /\ GroupDefinition(groups[k]).name = groups[k].name
               /\ GroupDefinition(groups[k]).number = groups[k].number
    BY DEF GroupDefinition
  <1>6. Signers(cert) = {cosigners[k] : k \in cosignersSatisfied}
    BY MarkedAreSigners
  <1>7. \A n : n \in {groups[k].name : k \in groupsSatisfied} <=>
              \E g \in GroupDefs :
                 g.name = n /\ Cardinality(MembersIn(g, SatisfiedNames)) >= g.number
    BY <1>3, <1>4, <1>5 DEF GroupDefs
  <1>8. \A n : n \in SatisfiedNames <=>
              \/ n \in Signers(cert)
              \/ \E g \in GroupDefs :
                   g.name = n /\ Cardinality(MembersIn(g, SatisfiedNames)) >= g.number
    BY <1>6, <1>7 DEF SatisfiedNames
  <1> QED
    BY <1>2, <1>8 DEF IsMeaning

\* And the requirements are judged by them.
LEMMA RequirementsByName ==
    ASSUME VerifierInv, Counting
    PROVE  PolicySatisfied <=> {cert.issuer} \cup RequiredOf(cert.issuer)
                                 \cup RequiredOfAll \subseteq SatisfiedNames
  <1> DEFINE ca == cas[cert.issuer]
             own == [isGroup |-> FALSE, index |-> ca.cosignerIndex]
  <1>1. /\ cert.issuer \in DOMAIN cas /\ ca \in TrustedCA
        /\ requirementsForAllCAs \in Seq(PolicyIndex)
        /\ CACosignersResolve /\ RequirementsResolve /\ cosigners \in Seq(ID)
    BY DEF VerifierInv, VerifierTypeOK, JudgementInv, CountingInv, PolicyTypeOK, IndexesResolve
  <1>2. own \in PolicyIndex /\ InTables(own) /\ NameForIndex(own) = cert.issuer
    BY <1>1 DEF TrustedCA, PolicyIndex, CACosignersResolve, InTables, NameForIndex
  <1>3. Satisfied(own) <=> cert.issuer \in SatisfiedNames
    BY <1>2, SatisfiedByName
  <1>4. ASSUME NEW i \in DOMAIN ca.requirements
        PROVE  Satisfied(ca.requirements[i]) <=>
                 NameForIndex(ca.requirements[i]) \in SatisfiedNames
    <2>1. ca.requirements \in Seq(PolicyIndex)
      BY <1>1 DEF TrustedCA
    <2>2. ca.requirements[i] \in PolicyIndex /\ InTables(ca.requirements[i])
      BY <1>1, <2>1 DEF RequirementsResolve
    <2> QED
      BY <2>2, SatisfiedByName
  <1>5. ASSUME NEW i \in DOMAIN requirementsForAllCAs
        PROVE  Satisfied(requirementsForAllCAs[i]) <=>
                 NameForIndex(requirementsForAllCAs[i]) \in SatisfiedNames
    <2>1. /\ requirementsForAllCAs[i] \in PolicyIndex
          /\ InTables(requirementsForAllCAs[i])
      BY <1>1 DEF RequirementsResolve
    <2> QED
      BY <2>1, SatisfiedByName
  <1> QED
    BY <1>3, <1>4, <1>5 DEF PolicySatisfied, RequiredOf, RequiredOfAll

-----------------------------------------------------------------------------

\* The state stays well typed, for any policy files and certificates.
THEOREM TypeCorrect == Spec => []VerifyTypeOK
  <1>1. VerifyInv => VerifyTypeOK
    BY VerifyInvParts
  <1> QED
    BY <1>1, VerifyInvariant, PTL

\* Every index captured while reading a policy file resolves, from then on,
\* to the name it was read from (policy.go:204, 233, 244-258).
THEOREM IndexesAlwaysResolve == Spec => []IndexesResolve
  <1>1. VerifyInv => IndexesResolve
    BY DEF VerifyInv, VerifierInv
  <1> QED
    BY <1>1, VerifyInvariant, PTL

\* Acceptance by cosignatures is sound: the CA itself and, by the meaning of
\* the policy's groups, every required cosigner or group endorsed exactly the
\* certificate's subtree (verify_proof.go:244-280).
THEOREM AcceptanceIsSound == Spec => []CosignedMeansPolicyMet
  <1>1. VerifyInv => CosignedMeansPolicyMet
    <2> SUFFICES ASSUME VerifyInv, verdict = "cosigned"
                 PROVE  \E X \in SUBSET Name :
                          /\ IsMeaning(X, Signers(cert), GroupDefs)
                          /\ cert.issuer \in Signers(cert)
                          /\ RequiredOf(cert.issuer) \cup RequiredOfAll \subseteq X
      BY DEF CosignedMeansPolicyMet
    <2>0. VerifierInv /\ cert # NoCertificate /\ HasMessages(cert)
      BY VerifyInvParts DEF VerifierInv, JudgementInv
    <2>1. Counting /\ CountingInv
      BY <2>0 DEF VerifierInv, JudgementInv, Counting
    <2>2. next = Len(groups) + 1 /\ PolicySatisfied
      BY <2>1 DEF CountingInv
    <2>3. {cert.issuer} \cup RequiredOf(cert.issuer) \cup RequiredOfAll \subseteq SatisfiedNames
      BY <2>0, <2>1, <2>2, RequirementsByName
    <2>4. cert.issuer \in Signers(cert)
      <3>1. cert.issuer \in DOMAIN cas /\ cas[cert.issuer].cosignerIndex \in cosignersSatisfied
        BY <2>1, <2>2 DEF CountingInv, PolicySatisfied, Satisfied
      <3>2. cosigners[cas[cert.issuer].cosignerIndex] = cert.issuer
        BY <2>0, <3>1 DEF VerifierInv, IndexesResolve, CACosignersResolve
      <3> QED
        BY <2>0, <2>1, <3>1, <3>2, MarkedAreSigners
    <2> QED
      BY <2>0, <2>1, <2>2, <2>3, <2>4, SatisfiedNamesAreTheMeaning
  <1> QED
    BY <1>1, VerifyInvariant, PTL

\* And complete: a certificate is refused for its cosignatures only if some
\* requirement is not met (verify_proof.go:261-279).
THEOREM RefusalIsJustified == Spec => []UnsatisfiedMeansPolicyNotMet
  <1>1. VerifyInv => UnsatisfiedMeansPolicyNotMet
    <2> SUFFICES ASSUME VerifyInv, verdict = "unsatisfied"
                 PROVE  \E X \in SUBSET Name :
                          /\ IsMeaning(X, Signers(cert), GroupDefs)
                          /\ ~({cert.issuer} \cup RequiredOf(cert.issuer)
                                  \cup RequiredOfAll \subseteq X)
      BY DEF UnsatisfiedMeansPolicyNotMet
    <2>0. VerifierInv /\ cert # NoCertificate /\ HasMessages(cert)
      BY VerifyInvParts DEF VerifierInv, JudgementInv
    <2>1. Counting /\ CountingInv
      BY <2>0 DEF VerifierInv, JudgementInv, Counting
    <2>2. next = Len(groups) + 1 /\ ~PolicySatisfied
      BY <2>1 DEF CountingInv
    <2>3. ~({cert.issuer} \cup RequiredOf(cert.issuer) \cup RequiredOfAll
              \subseteq SatisfiedNames)
      BY <2>0, <2>1, <2>2, RequirementsByName
    <2> QED
      BY <2>0, <2>1, <2>2, <2>3, SatisfiedNamesAreTheMeaning
  <1> QED
    BY <1>1, VerifyInvariant, PTL

-----------------------------------------------------------------------------

(***************************************************************************)
(* A policy has one meaning: because the members of a group are declared   *)
(* before it, exactly one set of names solves the group equations, whoever *)
(* signs and whatever the policy file.                                     *)
(***************************************************************************)

\* A set of natural numbers has a least one: arguments about all groups go by
\* the first for which they fail.
LEMMA NatLeast ==
    ASSUME NEW T, T \subseteq Nat, T # {}
    PROVE  \E x \in T : \A y \in T : x <= y
  <1>1. PICK x \in T : \A y \in T : <<y, x>> \notin OpToRel(<, Nat)
    BY NatLessThanWellFounded, WFMin
  <1>2. ASSUME NEW y \in T PROVE x <= y
    <2>1. x \in Nat /\ y \in Nat
      OBVIOUS
    <2>2. ~(y < x)
      <3>1. <<y, x>> \notin {ss \in Nat \X Nat : ss[1] < ss[2]}
        BY <1>1 DEF OpToRel
      <3> QED
        BY <2>1, <3>1
    <2> QED
      BY <2>1, <2>2
  <1> QED
    BY <1>2

-----------------------------------------------------------------------------

\* What the policy's groups are made of.
LEMMA GroupFacts ==
    ASSUME PolicyInv
    PROVE  /\ DOMAIN groups \subseteq Nat /\ DOMAIN groups = 1 .. Len(groups)
           /\ Len(groups) \in Nat
           /\ \A k \in DOMAIN groups :
                /\ GroupDefinition(groups[k]).name = groups[k].name
                /\ GroupDefinition(groups[k]).number = groups[k].number
                /\ DOMAIN GroupDefinition(groups[k]).members = DOMAIN groups[k].members
                /\ \A i \in DOMAIN groups[k].members :
                     GroupDefinition(groups[k]).members[i]
                        = NameForIndex(groups[k].members[i])
                /\ groups[k].name \notin CosignerIDs
           /\ \A j, k \in DOMAIN groups : groups[j].name = groups[k].name => j = k
  <1>1. cosigners \in Seq(ID) /\ groups \in Seq(PolicyGroup) /\ EntriesAreNamed
    BY DEF PolicyInv, PolicyTypeOK, IndexesResolve
  <1>2. /\ \A k \in DOMAIN cosigners : /\ names[cosigners[k]].isGroup = FALSE
        /\ \A k \in DOMAIN groups : /\ names[groups[k].name].isGroup = TRUE
                                    /\ names[groups[k].name].index = k
    <2>1. ASSUME NEW k \in DOMAIN cosigners PROVE names[cosigners[k]].isGroup = FALSE
      <3>1. names[cosigners[k]] = [isGroup |-> FALSE, index |-> k]
        BY <1>1 DEF EntriesAreNamed
      <3> QED
        BY <3>1
    <2>2. ASSUME NEW k \in DOMAIN groups
          PROVE  names[groups[k].name].isGroup = TRUE /\ names[groups[k].name].index = k
      <3>1. names[groups[k].name] = [isGroup |-> TRUE, index |-> k]
        BY <1>1 DEF EntriesAreNamed
      <3> QED
        BY <3>1
    <2> QED
      BY <2>1, <2>2
  <1>3. DOMAIN groups \subseteq Nat /\ DOMAIN groups = 1 .. Len(groups) /\ Len(groups) \in Nat
    BY <1>1
  <1>4. \A k \in DOMAIN groups : groups[k].name \notin CosignerIDs
    BY <1>2 DEF CosignerIDs
  <1>5. \A j, k \in DOMAIN groups : groups[j].name = groups[k].name => j = k
    BY <1>2
  <1>6. ASSUME NEW k \in DOMAIN groups
        PROVE  /\ GroupDefinition(groups[k]).name = groups[k].name
               /\ GroupDefinition(groups[k]).number = groups[k].number
               /\ DOMAIN GroupDefinition(groups[k]).members = DOMAIN groups[k].members
               /\ \A i \in DOMAIN groups[k].members :
                    GroupDefinition(groups[k]).members[i]
                       = NameForIndex(groups[k].members[i])
    BY DEF GroupDefinition
  <1> QED
    BY <1>3, <1>4, <1>5, <1>6

\* A member of a group is a cosigner or the name of an earlier group.
LEMMA MembersComeEarlier ==
    ASSUME PolicyInv, NEW k \in DOMAIN groups, NEW i \in DOMAIN groups[k].members
    PROVE  \/ NameForIndex(groups[k].members[i]) \in CosignerIDs
           \/ \E j \in DOMAIN groups :
                j < k /\ NameForIndex(groups[k].members[i]) = groups[j].name
  <1> DEFINE m == groups[k].members[i]
  <1>1. cosigners \in Seq(ID) /\ groups \in Seq(PolicyGroup) /\ GroupsAreOrdered
    BY DEF PolicyInv, PolicyTypeOK, IndexesResolve
  <1>2. groups[k] \in PolicyGroup
    BY <1>1
  <1>3. groups[k].members \in Seq(PolicyIndex)
    BY <1>2 DEF PolicyGroup
  <1>4. m \in PolicyIndex
    BY <1>3
  <1>5. m.index \in Nat \ {0} /\ m.isGroup \in BOOLEAN
    BY <1>4 DEF PolicyIndex
  <1>6. IF m.isGroup THEN m.index < k ELSE m.index <= Len(cosigners)
    BY <1>1 DEF GroupsAreOrdered
  <1> HIDE DEF m
  <1>7. CASE m.isGroup
    <2>1. m.index \in DOMAIN groups /\ m.index < k
      BY <1>1, <1>5, <1>6, <1>7
    <2>2. NameForIndex(m) = groups[m.index].name
      BY <1>7 DEF NameForIndex
    <2> QED
      BY <2>1, <2>2 DEF m
  <1>8. CASE ~m.isGroup
    <2>1. m.index \in DOMAIN cosigners
      BY <1>1, <1>5, <1>6, <1>8
    <2>2. NameForIndex(m) \in CosignerIDs
      BY <1>8, <2>1 DEF NameForIndex, CosignerIDs
    <2> QED
      BY <2>2 DEF m
  <1> QED
    BY <1>5, <1>7, <1>8

\* What a solution of the equations says of any name, and of the name of a
\* group.
LEMMA MeaningOfNames ==
    ASSUME PolicyInv, NEW S \in SUBSET CosignerIDs, NEW X, IsMeaning(X, S, GroupDefs)
    PROVE  /\ X \subseteq S \cup {groups[k].name : k \in DOMAIN groups} /\ S \subseteq X
           /\ \A n \in CosignerIDs : n \in X <=> n \in S
           /\ \A k \in DOMAIN groups :
                groups[k].name \in X <=>
                  Cardinality(MembersIn(GroupDefinition(groups[k]), X)) >= groups[k].number
  <1>1. \A n : n \in X <=>
          \/ n \in S
          \/ \E g \in GroupDefs : g.name = n /\ Cardinality(MembersIn(g, X)) >= g.number
    BY DEF IsMeaning
  <1> DEFINE Reached(k) ==
        Cardinality(MembersIn(GroupDefinition(groups[k]), X)) >= groups[k].number
  <1>2. \A n : n \in X <=> n \in S \/ \E k \in DOMAIN groups : groups[k].name = n /\ Reached(k)
    BY <1>1, GroupFacts DEF GroupDefs
  <1> HIDE DEF Reached
  <1>3. /\ \A k \in DOMAIN groups : groups[k].name \notin CosignerIDs
        /\ \A j, k \in DOMAIN groups : groups[j].name = groups[k].name => j = k
    BY GroupFacts
  <1>4. X \subseteq S \cup {groups[k].name : k \in DOMAIN groups} /\ S \subseteq X
    BY <1>2
  <1>5. \A n \in CosignerIDs : n \in X <=> n \in S
    BY <1>2, <1>3
  <1>6. \A k \in DOMAIN groups : groups[k].name \in X <=> Reached(k)
    BY <1>2, <1>3
  <1> QED
    BY <1>4, <1>5, <1>6 DEF Reached

\* Sets that agree on the members of a group hold as many of them.
LEMMA SameMembers ==
    ASSUME PolicyInv, NEW k \in DOMAIN groups, NEW X, NEW Y,
           \A n \in CosignerIDs : n \in X <=> n \in Y,
           \A j \in DOMAIN groups : j < k => (groups[j].name \in X <=> groups[j].name \in Y)
    PROVE  MembersIn(GroupDefinition(groups[k]), X) = MembersIn(GroupDefinition(groups[k]), Y)
  <1>1. \A i \in DOMAIN groups[k].members :
          NameForIndex(groups[k].members[i]) \in X <=> NameForIndex(groups[k].members[i]) \in Y
    BY MembersComeEarlier
  <1>2. /\ DOMAIN GroupDefinition(groups[k]).members = DOMAIN groups[k].members
        /\ \A i \in DOMAIN groups[k].members :
             GroupDefinition(groups[k]).members[i] = NameForIndex(groups[k].members[i])
    BY GroupFacts
  <1> QED
    BY <1>1, <1>2 DEF MembersIn

\* Two solutions agree: at the first group on which they did not, they would
\* agree on all its members.
LEMMA MeaningIsUnique ==
    ASSUME PolicyInv, NEW S \in SUBSET CosignerIDs,
           NEW X, NEW Y, IsMeaning(X, S, GroupDefs), IsMeaning(Y, S, GroupDefs)
    PROVE  X = Y
  <1> DEFINE T == {k \in DOMAIN groups : ~(groups[k].name \in X <=> groups[k].name \in Y)}
  <1>1. \A n \in CosignerIDs : n \in X <=> n \in Y
    BY MeaningOfNames
  <1>2. T = {}
    <2> SUFFICES ASSUME T # {} PROVE FALSE
      OBVIOUS
    <2>1. T \subseteq Nat /\ DOMAIN groups \subseteq Nat
      BY GroupFacts
    <2>2. PICK k \in T : \A j \in T : k <= j
      BY <2>1, NatLeast
    <2>3. \A j \in DOMAIN groups :
            j < k => (groups[j].name \in X <=> groups[j].name \in Y)
      <3> SUFFICES ASSUME NEW j \in DOMAIN groups, j < k, j \in T PROVE FALSE
        OBVIOUS
      <3>1. j \in Nat /\ k \in Nat /\ k <= j
        BY <2>1, <2>2
      <3> QED
        BY <3>1
    <2>4. MembersIn(GroupDefinition(groups[k]), X) = MembersIn(GroupDefinition(groups[k]), Y)
      BY <1>1, <2>3, SameMembers
    <2>5. groups[k].name \in X <=> groups[k].name \in Y
      BY <2>4, MeaningOfNames
    <2> QED
      BY <2>2, <2>5
  <1>3. \A k \in DOMAIN groups : groups[k].name \in X <=> groups[k].name \in Y
    BY <1>2
  <1>4. /\ X \subseteq S \cup {groups[k].name : k \in DOMAIN groups} /\ S \subseteq X
        /\ Y \subseteq S \cup {groups[k].name : k \in DOMAIN groups} /\ S \subseteq Y
    BY MeaningOfNames
  <1> QED
    BY <1>3, <1>4

-----------------------------------------------------------------------------

\* The names satisfied when S signs and the groups in G are marked.
NamesOf(S, G) == S \cup {groups[j].name : j \in G}

\* The groups in G are those among the first k that reach their number, as
\* EvaluateGroups has marked them after k iterations.
Solves(S, G, k) ==
    /\ G \subseteq 1 .. k
    /\ \A j \in 1 .. k :
          j \in G <=> Cardinality(MembersIn(GroupDefinition(groups[j]), NamesOf(S, G)))
                         >= groups[j].number

\* Marking group k changes no count of a group up to k.
LEMMA OneMoreGroup ==
    ASSUME PolicyInv, NEW S \in SUBSET CosignerIDs, NEW k \in DOMAIN groups,
           NEW G, Solves(S, G, k - 1)
    PROVE  \E H : Solves(S, H, k)
  <1> DEFINE Count(j, H) == Cardinality(MembersIn(GroupDefinition(groups[j]), NamesOf(S, H)))
             H == G \cup {j \in {k} : Count(j, G) >= groups[j].number}
  <1>1. /\ DOMAIN groups = 1 .. Len(groups) /\ Len(groups) \in Nat
        /\ \A j \in DOMAIN groups : groups[j].name \notin CosignerIDs
        /\ \A i, j \in DOMAIN groups : groups[i].name = groups[j].name => i = j
    BY GroupFacts
  <1>2. k \in Nat /\ 1 .. k \subseteq DOMAIN groups /\ G \subseteq 1 .. k - 1
    BY <1>1 DEF Solves
  <1>3. ASSUME NEW j \in 1 .. k PROVE Count(j, H) = Count(j, G)
    <2>1. \A n \in CosignerIDs : n \in NamesOf(S, H) <=> n \in NamesOf(S, G)
      BY <1>1, <1>2 DEF NamesOf
    <2>2. ASSUME NEW i \in DOMAIN groups, i < j
          PROVE  groups[i].name \in NamesOf(S, H) <=> groups[i].name \in NamesOf(S, G)
      <3>1. i # k
        BY <1>1, <1>2, <2>2
      <3>2. i \in H <=> i \in G
        BY <3>1
      <3>3. G \subseteq DOMAIN groups
        <4>1. 1 .. k - 1 \subseteq 1 .. k
          BY <1>2
        <4> QED
          BY <1>2, <4>1
      <3>4. H \subseteq DOMAIN groups
        BY <3>3
      <3> HIDE DEF H
      <3> QED
        BY <1>1, <3>2, <3>3, <3>4 DEF NamesOf
    <2>3. j \in DOMAIN groups
      BY <1>2
    <2> HIDE DEF H
    <2> QED
      BY <2>1, <2>2, <2>3, SameMembers
  <1>4. \A j \in 1 .. k : j \in H <=> Count(j, G) >= groups[j].number
    <2>1. \A j \in 1 .. k - 1 : j \in G <=> Count(j, G) >= groups[j].number
      BY DEF Solves
    <2>2. k \notin G
      BY <1>2
    <2>3. \A j \in 1 .. k : j = k \/ j \in 1 .. k - 1
      BY <1>2
    <2>4. \A j \in 1 .. k - 1 : j # k
      BY <1>2
    <2> HIDE DEF Count
    <2> QED
      BY <2>1, <2>2, <2>3, <2>4
  <1>5. H \subseteq 1 .. k
    <2>1. 1 .. k - 1 \subseteq 1 .. k /\ k \in 1 .. k
      BY <1>1, <1>2
    <2> HIDE DEF Count
    <2> QED
      BY <1>2, <2>1
  <1> HIDE DEF H
  <1>6. Solves(S, H, k)
    BY <1>3, <1>4, <1>5 DEF Solves
  <1> QED
    BY <1>6

LEMMA GroupsCanBeSolved ==
    ASSUME PolicyInv, NEW S \in SUBSET CosignerIDs
    PROVE  \E G : Solves(S, G, Len(groups))
  <1> DEFINE T == {k \in 0 .. Len(groups) : ~\E G : Solves(S, G, k)}
  <1>1. DOMAIN groups = 1 .. Len(groups) /\ Len(groups) \in Nat
    BY GroupFacts
  <1>2. T = {}
    <2> SUFFICES ASSUME T # {} PROVE FALSE
      OBVIOUS
    <2>1. T \subseteq Nat
      BY <1>1
    <2>2. PICK k \in T : \A j \in T : k <= j
      BY <2>1, NatLeast
    <2>3. k # 0
      <3>1. 1 .. 0 = {}
        OBVIOUS
      <3>2. Solves(S, {}, 0)
        BY <3>1 DEF Solves
      <3> QED
        BY <2>2, <3>2
    <2>4. k \in DOMAIN groups /\ k - 1 \in 0 .. Len(groups) /\ ~(k <= k - 1)
      BY <1>1, <2>2, <2>3
    <2>5. PICK G : Solves(S, G, k - 1)
      BY <2>2, <2>4
    <2>6. \E H : Solves(S, H, k)
      BY <2>4, <2>5, OneMoreGroup
    <2> QED
      BY <2>2, <2>6
  <1>3. Len(groups) \in 0 .. Len(groups)
    BY <1>1
  <1> QED
    BY <1>2, <1>3

LEMMA MeaningExists ==
    ASSUME PolicyInv, NEW S \in SUBSET CosignerIDs
    PROVE  \E X \in SUBSET (CosignerIDs \cup {g.name : g \in GroupDefs}) :
              IsMeaning(X, S, GroupDefs)
  <1>1. PICK G : Solves(S, G, Len(groups))
    BY GroupsCanBeSolved
  <1> DEFINE X == NamesOf(S, G)
             Reached(k) ==
               Cardinality(MembersIn(GroupDefinition(groups[k]), X)) >= groups[k].number
  <1>2. /\ G \subseteq DOMAIN groups
        /\ \A k \in DOMAIN groups : k \in G <=> Reached(k)
    BY <1>1, GroupFacts DEF Solves
  <1>3. \A n : (\E g \in GroupDefs : g.name = n /\ Cardinality(MembersIn(g, X)) >= g.number)
               <=> \E k \in DOMAIN groups : groups[k].name = n /\ Reached(k)
    BY GroupFacts DEF GroupDefs
  <1>4. \A n : n \in X <=> n \in S \/ \E k \in G : groups[k].name = n
    BY DEF NamesOf
  <1>5. {g.name : g \in GroupDefs} = {groups[k].name : k \in DOMAIN groups}
    BY GroupFacts DEF GroupDefs
  <1>6. IsMeaning(X, S, GroupDefs)
    <2> HIDE DEF X, Reached
    <2>1. \A n : n \in X <=> \/ n \in S
            \/ \E g \in GroupDefs : g.name = n /\ Cardinality(MembersIn(g, X)) >= g.number
      BY <1>2, <1>3, <1>4
    <2> QED
      BY <2>1 DEF IsMeaning
  <1>7. X \subseteq CosignerIDs \cup {g.name : g \in GroupDefs}
    BY <1>2, <1>4, <1>5
  <1> QED
    BY <1>6, <1>7

-----------------------------------------------------------------------------

\* Every policy that is read has exactly one meaning, whoever signs
\* (policy.go:337).
THEOREM PolicyAlwaysHasOneMeaning == Spec => []PolicyHasOneMeaning
  <1>1. VerifyInv => PolicyHasOneMeaning
    <2> SUFFICES ASSUME VerifyInv, NEW S \in SUBSET CosignerIDs
                 PROVE  Cardinality({X \in SUBSET (CosignerIDs \cup {g.name : g \in GroupDefs}) :
                                       IsMeaning(X, S, GroupDefs)}) = 1
      BY DEF PolicyHasOneMeaning
    <2> DEFINE D == CosignerIDs \cup {g.name : g \in GroupDefs}
    <2>1. PolicyInv
      BY VerifyInvParts
    <2>2. PICK X \in SUBSET D : IsMeaning(X, S, GroupDefs)
      BY <2>1, MeaningExists
    <2>3. \A Y : IsMeaning(Y, S, GroupDefs) => Y = X
      BY <2>1, <2>2, MeaningIsUnique
    <2>4. {Y \in SUBSET D : IsMeaning(Y, S, GroupDefs)} = {X}
      BY <2>2, <2>3
    <2> QED
      BY <2>4, FS_Singleton
  <1> QED
    BY <1>1, VerifyInvariant, PTL

-----------------------------------------------------------------------------

\* RelyingParty's definitions over constants are those of VerifyProof.
LEMMA SameSerials ==
    /\ RP!Serial = Serial
    /\ \A s : RP!LogOf(s) = LogOf(s)
    /\ \A t : RP!parseSerial(t) = parseSerial(t)
  BY DEF RP!Serial, Serial, RP!LogOf, LogOf, RP!parseSerial, parseSerial,
         RP!MaxSerial, MaxSerial, RP!SerialOf, SerialOf

\* And so are those over certificates, signatures and groups.
LEMMA SameJudgements ==
    /\ \A c : RP!ProofEvaluates(c) <=> ProofEvaluates(c)
    /\ \A sigs : RP!InCanonicalOrder(sigs) <=> InCanonicalOrder(sigs)
    /\ \A s, id, c : RP!Endorses(s, id, c) <=> Endorses(s, id, c)
    /\ \A X, S, gs : RP!IsMeaning(X, S, gs) <=> IsMeaning(X, S, gs)
  <1>1. \A start, end : RP!IsValidSubtree(start, end) <=> IsValidSubtree(start, end)
    <2>1. RP!Pow2 = Pow2
      BY DEF RP!Pow2, Pow2
    <2> QED
      BY <2>1 DEF RP!IsValidSubtree, IsValidSubtree, RP!ShiftedOne, ShiftedOne,
                  RP!BitLen, BitLen, RP!LowBits, LowBits, RP!Minus, Minus
  <1>2. \A s : RP!IndexOf(s) = IndexOf(s)
    BY DEF RP!IndexOf, IndexOf
  <1>3. \A c : RP!ProofEvaluates(c) <=> ProofEvaluates(c)
    BY <1>1, <1>2 DEF RP!ProofEvaluates, ProofEvaluates
  <1>4. \A sigs : RP!InCanonicalOrder(sigs) <=> InCanonicalOrder(sigs)
    BY DEF RP!InCanonicalOrder, InCanonicalOrder
  <1>5. \A s, id, c : RP!Endorses(s, id, c) <=> Endorses(s, id, c)
    BY SameSerials DEF RP!Endorses, Endorses
  <1>6. \A X, S, gs : RP!IsMeaning(X, S, gs) <=> IsMeaning(X, S, gs)
    <2>1. \A T : RP!Cardinality(T) = Cardinality(T)
      BY DEF RP!Cardinality, Cardinality
    <2>2. \A g, X : RP!MembersIn(g, X) = MembersIn(g, X)
      BY DEF RP!MembersIn, MembersIn
    <2> QED
      BY <2>1, <2>2 DEF RP!IsMeaning, IsMeaning
  <1> QED
    BY <1>3, <1>4, <1>5, <1>6

-----------------------------------------------------------------------------

\* What is defined is what has a name in the policy's table.
LEMMA DefinedNames ==
    ASSUME PolicyInv
    PROVE  RP!Defined = DOMAIN names
  <1>1. /\ cosigners \in Seq(ID) /\ groups \in Seq(PolicyGroup)
        /\ EntriesAreNamed /\ NamesResolve /\ names \in [DOMAIN names -> PolicyIndex]
    BY DEF PolicyInv, PolicyTypeOK, IndexesResolve
  <1>2. {g.name : g \in GroupDefs} = {groups[k].name : k \in DOMAIN groups}
    BY GroupFacts DEF GroupDefs
  <1>3. RP!Defined \subseteq DOMAIN names
    BY <1>1, <1>2 DEF RP!Defined, CosignerIDs, EntriesAreNamed
  <1>4. ASSUME NEW n \in DOMAIN names
        PROVE  n \in CosignerIDs \/ n \in {groups[k].name : k \in DOMAIN groups}
    <2>1. names[n] \in PolicyIndex /\ InTables(names[n]) /\ NameForIndex(names[n]) = n
      BY <1>1 DEF NamesResolve
    <2> DEFINE idx == names[n]
    <2> HIDE DEF idx
    <2>2. /\ idx.index \in Nat \ {0} /\ idx.isGroup \in BOOLEAN
          /\ InTables(idx) /\ NameForIndex(idx) = n
      BY <2>1 DEF PolicyIndex, idx
    <2>3. CASE idx.isGroup
      <3>1. idx.index \in DOMAIN groups /\ n = groups[idx.index].name
        BY <1>1, <2>2, <2>3 DEF InTables, NameForIndex
      <3> QED
        BY <3>1
    <2>4. CASE ~idx.isGroup
      <3>1. idx.index \in DOMAIN cosigners /\ n = cosigners[idx.index]
        BY <1>1, <2>2, <2>4 DEF InTables, NameForIndex
      <3> QED
        BY <3>1 DEF CosignerIDs
    <2> QED
      BY <2>2, <2>3, <2>4
  <1> QED
    BY <1>2, <1>3, <1>4 DEF RP!Defined

\* An index that resolves stands for a name.
LEMMA IndexedNames ==
    ASSUME PolicyInv, NEW idx \in PolicyIndex, InTables(idx)
    PROVE  NameForIndex(idx) \in Name
  <1>1. /\ cosigners \in Seq(ID) /\ groups \in Seq(PolicyGroup)
        /\ idx.index \in Nat \ {0} /\ idx.isGroup \in BOOLEAN
    BY DEF PolicyInv, PolicyTypeOK, PolicyIndex
  <1>2. CASE idx.isGroup
    <2>1. idx.index \in DOMAIN groups
      BY <1>1, <1>2 DEF InTables
    <2>2. groups[idx.index] \in PolicyGroup
      BY <1>1, <2>1
    <2>3. groups[idx.index].name \in Name
      BY <2>2 DEF PolicyGroup
    <2> QED
      BY <1>2, <2>3 DEF NameForIndex
  <1>3. CASE ~idx.isGroup
    <2>1. idx.index \in DOMAIN cosigners
      BY <1>1, <1>3 DEF InTables
    <2> QED
      BY <1>1, <1>3, <2>1, NameAssumption DEF NameForIndex
  <1> QED
    BY <1>1, <1>2, <1>3

\* And it stands for the same name after a step.
LEMMA NamesStay ==
    ASSUME PolicyInv, PolicyNext, NEW idx \in PolicyIndex, InTables(idx)
    PROVE  /\ (IF idx.isGroup THEN groups'[idx.index].name ELSE cosigners'[idx.index])
                 = NameForIndex(idx)
           /\ NameForIndex(idx) \in Name
  <1>1. /\ Within(idx, groups, cosigners) /\ PolicyTypeOK
        /\ NameAt(idx, groups, cosigners) = NameForIndex(idx)
    BY DEF InTables, NameForIndex, Within, NameAt, PolicyInv
  <1>2. NameAt(idx, groups', cosigners') = NameAt(idx, groups, cosigners)
    BY <1>1, PolicyNextIsStep, IndexesAreStable
  <1> QED
    BY <1>1, <1>2, IndexedNames DEF NameAt

\* A name that is defined is what its index stands for.
LEMMA NameOfEntry ==
    ASSUME PolicyInv, NEW n \in DOMAIN names
    PROVE  /\ names[n] \in PolicyIndex /\ InTables(names[n]) /\ NameForIndex(names[n]) = n
           /\ n \in Name
  BY DEF PolicyInv, PolicyTypeOK, IndexesResolve, NamesResolve

\* The members of a group resolve.
LEMMA MembersResolve ==
    ASSUME PolicyInv, NEW k \in DOMAIN groups, NEW i \in DOMAIN groups[k].members
    PROVE  groups[k].members[i] \in PolicyIndex /\ InTables(groups[k].members[i])
  <1>1. groups \in Seq(PolicyGroup) /\ GroupsAreOrdered
    BY DEF PolicyInv, PolicyTypeOK, IndexesResolve
  <1>2. groups[k] \in PolicyGroup /\ k \in Nat /\ k <= Len(groups)
    BY <1>1
  <1>3. groups[k].members \in Seq(PolicyIndex)
    BY <1>2 DEF PolicyGroup
  <1>4. groups[k].members[i] \in PolicyIndex
    BY <1>3
  <1> DEFINE m == groups[k].members[i]
  <1>5. IF m.isGroup THEN m.index < k ELSE m.index <= Len(cosigners)
    BY <1>1 DEF GroupsAreOrdered
  <1> HIDE DEF m
  <1>6. m.index \in Nat /\ m.isGroup \in BOOLEAN /\ Len(groups) \in Nat
    BY <1>1, <1>4 DEF m, PolicyIndex
  <1>7. InTables(m)
    BY <1>2, <1>5, <1>6 DEF InTables
  <1> QED
    BY <1>4, <1>7 DEF m

\* And so does what is required.
LEMMA RequirementFacts ==
    ASSUME PolicyInv
    PROVE  /\ \A i \in DOMAIN requirementsForAllCAs :
                /\ requirementsForAllCAs[i] \in PolicyIndex
                /\ InTables(requirementsForAllCAs[i])
           /\ \A ca \in DOMAIN cas : \A i \in DOMAIN cas[ca].requirements :
                /\ cas[ca].requirements[i] \in PolicyIndex
                /\ InTables(cas[ca].requirements[i])
  <1>1. /\ requirementsForAllCAs \in Seq(PolicyIndex) /\ RequirementsResolve
        /\ cas \in [DOMAIN cas -> TrustedCA]
    BY DEF PolicyInv, PolicyTypeOK, IndexesResolve
  <1>2. ASSUME NEW ca \in DOMAIN cas, NEW i \in DOMAIN cas[ca].requirements
        PROVE  cas[ca].requirements[i] \in PolicyIndex
    <2>1. cas[ca] \in TrustedCA
      BY <1>1
    <2>2. cas[ca].requirements \in Seq(PolicyIndex)
      BY <2>1 DEF TrustedCA
    <2> QED
      BY <2>2
  <1> QED
    BY <1>1, <1>2 DEF RequirementsResolve

-----------------------------------------------------------------------------

\* How a step changes each part of the policy, by name.

\* A cosigner is added.
LEMMA CosignerIDsGrow ==
    ASSUME PolicyInv, NEW id \in ID, cosigners' = Append(cosigners, id)
    PROVE  CosignerIDs' = CosignerIDs \cup {id}
  <1>1. cosigners \in Seq(ID)
    BY DEF PolicyInv, PolicyTypeOK
  <1>2. /\ DOMAIN cosigners' = 1 .. Len(cosigners) + 1
        /\ cosigners'[Len(cosigners) + 1] = id
        /\ DOMAIN cosigners = 1 .. Len(cosigners) /\ Len(cosigners) \in Nat
        /\ \A i \in DOMAIN cosigners : cosigners'[i] = cosigners[i]
    BY <1>1
  <1>3. DOMAIN cosigners' = DOMAIN cosigners \cup {Len(cosigners) + 1}
    BY <1>2
  <1> QED
    BY <1>2, <1>3 DEF CosignerIDs

\* The groups declared so far keep their definitions.
LEMMA GroupDefinitionsStay ==
    ASSUME PolicyInv, PolicyNext, NEW k \in DOMAIN groups, groups'[k] = groups[k]
    PROVE  GroupDefinition(groups[k])' = GroupDefinition(groups[k])
  <1>1. \A i \in DOMAIN groups[k].members :
          NameForIndex(groups[k].members[i])' = NameForIndex(groups[k].members[i])
    <2> SUFFICES ASSUME NEW i \in DOMAIN groups[k].members
                 PROVE  NameForIndex(groups[k].members[i])' = NameForIndex(groups[k].members[i])
      OBVIOUS
    <2> DEFINE m == groups[k].members[i]
    <2>1. m \in PolicyIndex /\ InTables(m)
      BY MembersResolve
    <2>2. m' = m
      OBVIOUS
    <2> HIDE DEF m
    <2>3. NameForIndex(m)' = NameForIndex(m)
      BY <2>1, <2>2, NamesStay DEF NameForIndex
    <2> QED
      BY <2>3 DEF m
  <1> QED
    BY <1>1 DEF GroupDefinition

\* Without a new group, the group definitions are the same.
LEMMA GroupDefsStay ==
    ASSUME PolicyInv, PolicyNext, groups' = groups
    PROVE  GroupDefs' = GroupDefs
  <1>1. \A k \in DOMAIN groups : GroupDefinition(groups[k])' = GroupDefinition(groups[k])
    BY GroupDefinitionsStay
  <1> QED
    BY <1>1 DEF GroupDefs

\* A group's definition, for given tables.
DefinitionIn(g, gs, cs) ==
    [name |-> g.name, number |-> g.number,
     members |-> [i \in DOMAIN g.members |-> NameAt(g.members[i], gs, cs)]]

\* The definitions before and after a step, as operators of the tables.
LEMMA DefinitionsByTables ==
    /\ GroupDefs = {DefinitionIn(groups[k], groups, cosigners) : k \in DOMAIN groups}
    /\ GroupDefs' = {DefinitionIn(groups'[k], groups', cosigners') : k \in DOMAIN groups'}
  BY DEF GroupDefs, GroupDefinition, DefinitionIn, NameAt, NameForIndex

\* The definition of a new group is the line it was read from.
LEMMA GroupOfLine ==
    ASSUME PolicyInv, PolicyNext, NEW line \in GroupLines, GroupLineOK(line)
    PROVE  DefinitionIn(GroupOf(line), groups', cosigners') = line
  <1>1. line \in [name : Name, number : Int, members : Seq(Name)]
    BY PolicyInputAssumption
  <1>2. /\ line = [name |-> line.name, number |-> line.number, members |-> line.members]
        /\ line.members \in Seq(Name)
    BY <1>1
  <1>3. /\ GroupOf(line).name = line.name /\ GroupOf(line).number = line.number
        /\ GroupOf(line).members = [i \in 1 .. Len(line.members) |-> names[line.members[i]]]
    BY DEF GroupOf
  <1>4. DOMAIN line.members = 1 .. Len(line.members)
    BY <1>2
  <1>5. ASSUME NEW i \in DOMAIN line.members
        PROVE  NameAt(names[line.members[i]], groups', cosigners') = line.members[i]
    <2> DEFINE n == line.members[i]
               m == names[n]
    <2>1. n \in DOMAIN names
      BY DEF GroupLineOK
    <2> HIDE DEF n
    <2>2. m \in PolicyIndex /\ InTables(m) /\ NameForIndex(m) = n
      BY <2>1, NameOfEntry
    <2>3. (IF m.isGroup THEN groups'[m.index].name ELSE cosigners'[m.index]) = n
      BY <2>2, NamesStay
    <2> QED
      BY <2>3 DEF n, NameAt
  <1>6. [i \in DOMAIN GroupOf(line).members |->
            NameAt(GroupOf(line).members[i], groups', cosigners')] = line.members
    <2>1. line.members = [i \in DOMAIN line.members |-> line.members[i]]
      BY <1>2
    <2>2. DOMAIN GroupOf(line).members = DOMAIN line.members
      BY <1>3, <1>4
    <2>3. \A i \in DOMAIN line.members : GroupOf(line).members[i] = names[line.members[i]]
      BY <1>3, <1>4
    <2> QED
      BY <1>5, <2>1, <2>2, <2>3
  <1> QED
    BY <1>2, <1>3, <1>6 DEF DefinitionIn

\* A group command adds the definition on its line and changes no other.
LEMMA GroupDefsGrow ==
    ASSUME PolicyInv, PolicyNext, NEW line \in GroupLines, GroupLineOK(line),
           groups' = Append(groups, GroupOf(line))
    PROVE  GroupDefs' = GroupDefs \cup {line}
  <1> DEFINE new == GroupOf(line)
             n == Len(groups) + 1
  <1>1. groups \in Seq(PolicyGroup)
    BY DEF PolicyInv, PolicyTypeOK
  <1>2. DefinitionIn(new, groups', cosigners') = line
    BY GroupOfLine
  <1> HIDE DEF new
  <1>3. /\ groups'[n] = new /\ DOMAIN groups' = 1 .. n
        /\ DOMAIN groups = 1 .. Len(groups) /\ Len(groups) \in Nat
        /\ \A k \in DOMAIN groups : groups'[k] = groups[k]
    BY <1>1 DEF new
  <1>4. DOMAIN groups' = DOMAIN groups \cup {n}
    BY <1>3
  <1>5. \A k \in DOMAIN groups :
          DefinitionIn(groups'[k], groups', cosigners')
             = DefinitionIn(groups[k], groups, cosigners)
    <2> SUFFICES ASSUME NEW k \in DOMAIN groups
                 PROVE  DefinitionIn(groups[k], groups', cosigners')
                          = DefinitionIn(groups[k], groups, cosigners)
      BY <1>3
    <2>1. \A i \in DOMAIN groups[k].members :
            NameAt(groups[k].members[i], groups', cosigners')
               = NameAt(groups[k].members[i], groups, cosigners)
      BY MembersResolve, NamesStay DEF NameAt, NameForIndex
    <2> QED
      BY <2>1 DEF DefinitionIn
  <1> QED
    BY <1>2, <1>3, <1>4, <1>5, DefinitionsByTables

-----------------------------------------------------------------------------

\* The names that a list of requirements stands for, for given tables.
RequiredIn(reqs, gs, cs) == {NameAt(reqs[i], gs, cs) : i \in DOMAIN reqs}

\* What is required before and after a step, as operators of the tables.
LEMMA RequiredByTables ==
    /\ RequiredOfAll = RequiredIn(requirementsForAllCAs, groups, cosigners)
    /\ RequiredOfAll' = RequiredIn(requirementsForAllCAs', groups', cosigners')
    /\ \A ca : /\ RequiredOf(ca) = RequiredIn(cas[ca].requirements, groups, cosigners)
               /\ RequiredOf(ca)' = RequiredIn(cas'[ca].requirements, groups', cosigners')
  BY DEF RequiredOfAll, RequiredOf, RequiredIn, NameAt, NameForIndex

\* A list that resolves keeps its names, and one more index adds its name.
LEMMA RequiredInStays ==
    ASSUME PolicyInv, PolicyNext, NEW reqs,
           \A i \in DOMAIN reqs : reqs[i] \in PolicyIndex /\ InTables(reqs[i])
    PROVE  RequiredIn(reqs, groups', cosigners') = RequiredIn(reqs, groups, cosigners)
  <1>1. \A i \in DOMAIN reqs :
          NameAt(reqs[i], groups', cosigners') = NameAt(reqs[i], groups, cosigners)
    BY NamesStay DEF NameAt, NameForIndex
  <1> QED
    BY <1>1 DEF RequiredIn

LEMMA RequiredInGrows ==
    ASSUME NEW S, NEW reqs \in Seq(S), NEW m, NEW gs, NEW cs
    PROVE  RequiredIn(Append(reqs, m), gs, cs) = RequiredIn(reqs, gs, cs) \cup {NameAt(m, gs, cs)}
  <1> DEFINE l == Len(reqs) + 1
             new == Append(reqs, m)
  <1>1. /\ DOMAIN new = 1 .. l /\ DOMAIN reqs = 1 .. Len(reqs) /\ Len(reqs) \in Nat
        /\ new[l] = m /\ \A i \in DOMAIN reqs : new[i] = reqs[i]
    OBVIOUS
  <1>2. DOMAIN new = DOMAIN reqs \cup {l}
    BY <1>1
  <1> HIDE DEF new, l
  <1>3. {NameAt(new[i], gs, cs) : i \in DOMAIN new}
          = {NameAt(reqs[i], gs, cs) : i \in DOMAIN reqs} \cup {NameAt(m, gs, cs)}
    BY <1>1, <1>2
  <1> QED
    BY <1>3 DEF RequiredIn, new

LEMMA RequiredOfAllStays ==
    ASSUME PolicyInv, PolicyNext, requirementsForAllCAs' = requirementsForAllCAs
    PROVE  RequiredOfAll' = RequiredOfAll
  BY RequirementFacts, RequiredByTables, RequiredInStays

LEMMA RequiredOfAllGrows ==
    ASSUME PolicyInv, PolicyNext, NEW n \in DOMAIN names,
           requirementsForAllCAs' = Append(requirementsForAllCAs, names[n])
    PROVE  RequiredOfAll' = RequiredOfAll \cup {n}
  <1>1. NameAt(names[n], groups', cosigners') = n
    BY NameOfEntry, NamesStay DEF NameAt
  <1>2. requirementsForAllCAs \in Seq(PolicyIndex)
    BY DEF PolicyInv, PolicyTypeOK
  <1>3. RequiredOfAll' = RequiredIn(requirementsForAllCAs, groups', cosigners') \cup {n}
    BY <1>1, <1>2, RequiredByTables, RequiredInGrows
  <1> QED
    BY <1>3, RequirementFacts, RequiredByTables, RequiredInStays

LEMMA RequiredOfStays ==
    ASSUME PolicyInv, PolicyNext, NEW ca \in DOMAIN cas,
           cas'[ca].requirements = cas[ca].requirements
    PROVE  RequiredOf(ca)' = RequiredOf(ca)
  BY RequirementFacts, RequiredByTables, RequiredInStays

LEMMA RequiredOfGrows ==
    ASSUME PolicyInv, PolicyNext, NEW ca \in DOMAIN cas, NEW n \in DOMAIN names,
           cas'[ca].requirements = Append(cas[ca].requirements, names[n])
    PROVE  RequiredOf(ca)' = RequiredOf(ca) \cup {n}
  <1> DEFINE reqs == cas[ca].requirements
  <1>1. NameAt(names[n], groups', cosigners') = n
    BY NameOfEntry, NamesStay DEF NameAt
  <1>2. reqs \in Seq(PolicyIndex)
    <2>1. cas[ca] \in TrustedCA
      BY DEF PolicyInv, PolicyTypeOK
    <2> QED
      BY <2>1 DEF TrustedCA
  <1>3. \A i \in DOMAIN reqs : reqs[i] \in PolicyIndex /\ InTables(reqs[i])
    BY RequirementFacts
  <1>4. /\ RequiredOf(ca) = RequiredIn(reqs, groups, cosigners)
        /\ RequiredOf(ca)' = RequiredIn(Append(reqs, names[n]), groups', cosigners')
    BY RequiredByTables
  <1> HIDE DEF reqs
  <1>5. RequiredIn(Append(reqs, names[n]), groups', cosigners')
          = RequiredIn(reqs, groups', cosigners') \cup {n}
    BY <1>1, <1>2, RequiredInGrows
  <1> QED
    BY <1>3, <1>4, <1>5, RequiredInStays

-----------------------------------------------------------------------------

\* The pairs of RelyingParty.
LEMMA RequiredPairsAre ==
    /\ \A p : p \in RequiredPairs <=>
               \E ca \in DOMAIN cas : \E n \in RequiredOf(ca) : p = <<ca, n>>
    /\ \A p : p \in RequiredPairs' <=>
               \E ca \in DOMAIN cas' : \E n \in RequiredOf(ca)' : p = <<ca, n>>
  BY DEF RequiredPairs

\* They change with what a CA requires, and with nothing else.
LEMMA RequiredPairsStay ==
    ASSUME DOMAIN cas' = DOMAIN cas, \A ca \in DOMAIN cas : RequiredOf(ca)' = RequiredOf(ca)
    PROVE  RequiredPairs' = RequiredPairs
  BY RequiredPairsAre

LEMMA RequiredPairsGrow ==
    ASSUME DOMAIN cas' = DOMAIN cas, NEW ca \in DOMAIN cas, NEW n,
           RequiredOf(ca)' = RequiredOf(ca) \cup {n},
           \A c \in DOMAIN cas \ {ca} : RequiredOf(c)' = RequiredOf(c)
    PROVE  RequiredPairs' = RequiredPairs \cup {<<ca, n>>}
  BY RequiredPairsAre

LEMMA RequiredPairsOfNewCA ==
    ASSUME NEW ca, ca \notin DOMAIN cas, DOMAIN cas' = DOMAIN cas \cup {ca},
           RequiredOf(ca)' = {}, \A c \in DOMAIN cas : RequiredOf(c)' = RequiredOf(c)
    PROVE  RequiredPairs' = RequiredPairs
  BY RequiredPairsAre

-----------------------------------------------------------------------------

\* s lies in one of the ranges.
InRanges(rs, s) == \E i \in DOMAIN rs : rs[i].min <= s /\ s <= rs[i].max

\* The revoked serial numbers, by the ranges of each CA.
LEMMA RevokedSerialsAre ==
    /\ \A p : p \in RevokedSerials <=>
               \E ca \in DOMAIN cas : \E s \in Serial :
                  p = <<ca, s>> /\ InRanges(cas[ca].revokedRanges, s)
    /\ \A p : p \in RevokedSerials' <=>
               \E ca \in DOMAIN cas' : \E s \in Serial :
                  p = <<ca, s>> /\ InRanges(cas'[ca].revokedRanges, s)
  BY DEF RevokedSerials, InRanges

LEMMA RevokedSerialsStay ==
    ASSUME DOMAIN cas' = DOMAIN cas,
           \A ca \in DOMAIN cas : cas'[ca].revokedRanges = cas[ca].revokedRanges
    PROVE  RevokedSerials' = RevokedSerials
  BY RevokedSerialsAre

\* A new CA's serial numbers outside its certificate's bounds are revoked.
LEMMA RevokedSerialsOfNewCA ==
    ASSUME PolicyInv, NEW ca \in CACertificate, ca.id \notin DOMAIN cas,
           DOMAIN cas' = DOMAIN cas \cup {ca.id},
           cas'[ca.id].revokedRanges = OutsideRanges(ca),
           \A c \in DOMAIN cas : cas'[c] = cas[c]
    PROVE  RevokedSerials' = RevokedSerials \cup
             {<<ca.id, s>> : s \in {s \in Serial : s < ca.minSerial \/ s > ca.maxSerial}}
  <1>1. \A s \in Serial : InRanges(cas'[ca.id].revokedRanges, s)
                            <=> s < ca.minSerial \/ s > ca.maxSerial
    BY OutsideRangesMean DEF InRanges
  <1> DEFINE Outside(s) == s < ca.minSerial \/ s > ca.maxSerial
  <1>2. \A s \in Serial : InRanges(cas'[ca.id].revokedRanges, s) <=> Outside(s)
    BY <1>1
  <1> HIDE DEF Outside
  <1>3. \A p : p \in RevokedSerials' <=>
          \/ p \in RevokedSerials
          \/ \E s \in Serial : p = <<ca.id, s>> /\ Outside(s)
    BY <1>2, RevokedSerialsAre
  <1>4. RevokedSerials' = RevokedSerials \cup {<<ca.id, s>> : s \in {s \in Serial : Outside(s)}}
    BY <1>3
  <1> QED
    BY <1>4 DEF Outside

\* A revoked range adds the serial numbers in it.
LEMMA RevokedSerialsGrow ==
    ASSUME PolicyInv, NEW ca \in DOMAIN cas, DOMAIN cas' = DOMAIN cas,
           NEW min \in Serial, NEW max \in Serial,
           cas'[ca].revokedRanges = Append(cas[ca].revokedRanges, [min |-> min, max |-> max]),
           \A c \in DOMAIN cas \ {ca} : cas'[c].revokedRanges = cas[c].revokedRanges
    PROVE  RevokedSerials' = RevokedSerials \cup {<<ca, s>> : s \in min .. max}
  <1> DEFINE rs == cas[ca].revokedRanges
             r == [min |-> min, max |-> max]
             new == Append(rs, r)
             l == Len(rs) + 1
  <1>1. rs \in Seq(RevokedRange)
    <2>1. cas[ca] \in TrustedCA
      BY DEF PolicyInv, PolicyTypeOK
    <2> QED
      BY <2>1 DEF TrustedCA
  <1>2. min \in Nat /\ max \in Nat
    BY SerialIsNat
  <1> HIDE DEF rs, r
  <1>3. /\ DOMAIN new = 1 .. l /\ DOMAIN rs = 1 .. Len(rs) /\ Len(rs) \in Nat
        /\ new[l] = r /\ \A i \in DOMAIN rs : new[i] = rs[i]
    BY <1>1
  <1>4. DOMAIN new = DOMAIN rs \cup {l}
    BY <1>3
  <1> HIDE DEF new, l
  <1>5. \A s : InRanges(new, s) <=> InRanges(rs, s) \/ (r.min <= s /\ s <= r.max)
    BY <1>3, <1>4 DEF InRanges
  <1>6. \A s \in Serial : r.min <= s /\ s <= r.max <=> s \in min .. max
    BY <1>2, SerialIsNat DEF r
  <1>7. min .. max \subseteq Serial
    <2>1. LogCount * IndexCount \in Nat
      BY SerialAssumption
    <2> DEFINE N == LogCount * IndexCount
    <2> HIDE DEF N
    <2>2. min \in 0 .. N - 1 /\ max \in 0 .. N - 1 /\ N \in Nat
      BY <2>1 DEF N, Serial
    <2>3. min .. max \subseteq 0 .. N - 1
      BY <2>2
    <2> QED
      BY <2>3 DEF N, Serial
  <1>8. cas'[ca].revokedRanges = new /\ cas[ca].revokedRanges = rs
    BY DEF new, r, rs
  <1>9. \A p : p \in RevokedSerials' <=>
          p \in RevokedSerials \/ \E s \in min .. max : p = <<ca, s>>
    <2> DEFINE M == min .. max
    <2>1. \A s \in Serial : InRanges(new, s) <=> InRanges(rs, s) \/ s \in M
      BY <1>5, <1>6
    <2>2. M \subseteq Serial
      BY <1>7
    <2> HIDE DEF M
    <2>3. \A p : p \in RevokedSerials' <=> p \in RevokedSerials \/ \E s \in M : p = <<ca, s>>
      BY <1>8, <2>1, <2>2, RevokedSerialsAre
    <2> QED
      BY <2>3 DEF M
  <1> QED
    BY <1>9

-----------------------------------------------------------------------------

\* The lines about trusted subtrees of ca that count.
LinesOf(ca, ts) == {SubtreeLine(ca, ts[i]) : i \in FirstAtPosition(ts)}

\* The trusted lines, by the CA they are about.
LEMMA TrustedLinesAre ==
    /\ \A t : t \in TrustedLines <=> \E ca \in DOMAIN cas : t \in LinesOf(ca, cas[ca].trustedSubtrees)
    /\ \A t : t \in TrustedLines' <=> \E ca \in DOMAIN cas' : t \in LinesOf(ca, cas'[ca].trustedSubtrees)
  BY DEF TrustedLines, LinesOf

LEMMA TrustedLinesStay ==
    ASSUME DOMAIN cas' = DOMAIN cas,
           \A ca \in DOMAIN cas : cas'[ca].trustedSubtrees = cas[ca].trustedSubtrees
    PROVE  TrustedLines' = TrustedLines
  BY TrustedLinesAre

LEMMA TrustedLinesOfNewCA ==
    ASSUME NEW ca, DOMAIN cas' = DOMAIN cas \cup {ca}, ca \notin DOMAIN cas,
           cas'[ca].trustedSubtrees = <<>>, \A c \in DOMAIN cas : cas'[c] = cas[c]
    PROVE  TrustedLines' = TrustedLines
  <1>1. LinesOf(ca, <<>>) = {}
    BY DEF LinesOf, FirstAtPosition
  <1> QED
    BY <1>1, TrustedLinesAre

\* A position that has a line has a first one.
LEMMA FirstExists ==
    ASSUME NEW S, NEW ts \in Seq(S), NEW p
    PROVE  (\E j \in DOMAIN ts : PositionOf(ts[j]) = p)
             <=> \E i \in FirstAtPosition(ts) : PositionOf(ts[i]) = p
  <1>1. DOMAIN ts \subseteq Nat /\ DOMAIN ts = 1 .. Len(ts) /\ Len(ts) \in Nat
    OBVIOUS
  <1>2. ASSUME NEW j \in DOMAIN ts, PositionOf(ts[j]) = p
        PROVE  \E i \in FirstAtPosition(ts) : PositionOf(ts[i]) = p
    <2> DEFINE T == {k \in DOMAIN ts : PositionOf(ts[k]) = p}
    <2>1. T \subseteq Nat /\ T # {}
      BY <1>1, <1>2
    <2>2. PICK i \in T : \A k \in T : i <= k
      BY <2>1, NatLeast
    <2>3. ASSUME NEW k \in 1 .. i - 1
          PROVE  PositionOf(ts[k]) # PositionOf(ts[i])
      <3>1. i \in 1 .. Len(ts) /\ k \in Nat /\ ~(i <= k)
        BY <1>1, <2>2
      <3>2. k \in DOMAIN ts
        BY <1>1, <3>1
      <3> QED
        BY <2>2, <3>1, <3>2
    <2>4. i \in FirstAtPosition(ts)
      BY <2>2, <2>3 DEF FirstAtPosition
    <2> QED
      BY <2>2, <2>4
  <1>3. FirstAtPosition(ts) \subseteq DOMAIN ts
    BY DEF FirstAtPosition
  <1> QED
    BY <1>2, <1>3

\* A line at the end of the list counts if none before it has its position.
LEMMA FirstAtPositionGrows ==
    ASSUME NEW S, NEW ts \in Seq(S), NEW t
    PROVE  FirstAtPosition(Append(ts, t)) =
             IF \E i \in FirstAtPosition(ts) : PositionOf(ts[i]) = PositionOf(t)
             THEN FirstAtPosition(ts) ELSE FirstAtPosition(ts) \cup {Len(ts) + 1}
  <1> DEFINE new == Append(ts, t)
             l == Len(ts) + 1
  <1>1. /\ DOMAIN new = 1 .. l /\ DOMAIN ts = 1 .. Len(ts) /\ Len(ts) \in Nat
        /\ new[l] = t /\ \A i \in DOMAIN ts : new[i] = ts[i]
    OBVIOUS
  <1>2. /\ DOMAIN new = DOMAIN ts \cup {l} /\ l \notin DOMAIN ts /\ 1 .. l - 1 = DOMAIN ts
        /\ \A i \in DOMAIN ts : 1 .. i - 1 \subseteq DOMAIN ts
    BY <1>1
  <1> HIDE DEF new, l
  <1>3. \A i \in DOMAIN ts : i \in FirstAtPosition(new) <=> i \in FirstAtPosition(ts)
    BY <1>1, <1>2 DEF FirstAtPosition
  <1>4. l \in FirstAtPosition(new) <=> ~\E j \in DOMAIN ts : PositionOf(ts[j]) = PositionOf(t)
    BY <1>1, <1>2 DEF FirstAtPosition
  <1>5. FirstAtPosition(new) \subseteq DOMAIN ts \cup {l} /\ FirstAtPosition(ts) \subseteq DOMAIN ts
    BY <1>2 DEF FirstAtPosition
  <1>6. (\E j \in DOMAIN ts : PositionOf(ts[j]) = PositionOf(t))
          <=> \E i \in FirstAtPosition(ts) : PositionOf(ts[i]) = PositionOf(t)
    BY FirstExists
  <1> DEFINE Old == FirstAtPosition(ts)
             Has == \E i \in Old : PositionOf(ts[i]) = PositionOf(t)
  <1>7. FirstAtPosition(new) = IF Has THEN Old ELSE Old \cup {l}
    <2>1. l \in FirstAtPosition(new) <=> ~Has
      BY <1>4, <1>6
    <2>2. /\ \A i \in DOMAIN ts : i \in FirstAtPosition(new) <=> i \in Old
          /\ FirstAtPosition(new) \subseteq DOMAIN ts \cup {l} /\ Old \subseteq DOMAIN ts
      BY <1>3, <1>5
    <2> DEFINE New == FirstAtPosition(new)
    <2> HIDE DEF Old, Has, New
    <2>3. CASE Has
      <3>1. New = Old
        BY <1>2, <2>1, <2>2, <2>3 DEF New
      <3> QED
        BY <2>3, <3>1 DEF New
    <2>4. CASE ~Has
      <3>1. New = Old \cup {l}
        BY <1>2, <2>1, <2>2, <2>4 DEF New
      <3> QED
        BY <2>4, <3>1 DEF New
    <2> QED
      BY <2>3, <2>4
  <1> QED
    BY <1>7 DEF new, l

\* And it is then added to the lines that count.
LEMMA LinesGrow ==
    ASSUME NEW S, NEW ts \in Seq(S), NEW t, NEW ca
    PROVE  LinesOf(ca, Append(ts, t)) =
             IF \E i \in FirstAtPosition(ts) : PositionOf(ts[i]) = PositionOf(t)
             THEN LinesOf(ca, ts) ELSE LinesOf(ca, ts) \cup {SubtreeLine(ca, t)}
  <1> DEFINE new == Append(ts, t)
             l == Len(ts) + 1
             F == FirstAtPosition(ts)
             Has == \E i \in F : PositionOf(ts[i]) = PositionOf(t)
  <1>1. new[l] = t /\ \A i \in DOMAIN ts : new[i] = ts[i]
    OBVIOUS
  <1>2. F \subseteq DOMAIN ts
    BY DEF FirstAtPosition
  <1>3. FirstAtPosition(new) = IF Has THEN F ELSE F \cup {l}
    BY FirstAtPositionGrows
  <1> HIDE DEF new, l, F, Has
  <1>4. CASE Has
    <2>1. {SubtreeLine(ca, new[i]) : i \in F} = {SubtreeLine(ca, ts[i]) : i \in F}
      BY <1>1, <1>2
    <2> QED
      BY <1>3, <1>4, <2>1 DEF LinesOf, new, F, Has
  <1>5. CASE ~Has
    <2>1. {SubtreeLine(ca, new[i]) : i \in F \cup {l}}
            = {SubtreeLine(ca, ts[i]) : i \in F} \cup {SubtreeLine(ca, t)}
      BY <1>1, <1>2
    <2> QED
      BY <1>3, <1>5, <2>1 DEF LinesOf, new, F, Has
  <1> QED
    BY <1>4, <1>5

\* Trusting one more subtree.
LEMMA TrustedLinesGrow ==
    ASSUME PolicyInv, NEW ca \in DOMAIN cas, DOMAIN cas' = DOMAIN cas, NEW t,
           cas'[ca].trustedSubtrees = Append(cas[ca].trustedSubtrees, t),
           \A c \in DOMAIN cas \ {ca} : cas'[c].trustedSubtrees = cas[c].trustedSubtrees
    PROVE  TrustedLines' =
             IF \E u \in TrustedLines : RP!SamePosition(u, SubtreeLine(ca, t))
             THEN TrustedLines ELSE TrustedLines \cup {SubtreeLine(ca, t)}
  <1> DEFINE ts == cas[ca].trustedSubtrees
             line == SubtreeLine(ca, t)
             Has == \E i \in FirstAtPosition(ts) : PositionOf(ts[i]) = PositionOf(t)
  <1>1. ts \in Seq(TrustedSubtree)
    <2>1. cas[ca] \in TrustedCA
      BY DEF PolicyInv, PolicyTypeOK
    <2> QED
      BY <2>1 DEF TrustedCA
  <1>2. Has <=> \E u \in TrustedLines : RP!SamePosition(u, line)
    <2>1. \A c, s : RP!SamePosition(SubtreeLine(c, s), line)
                       <=> c = ca /\ PositionOf(s) = PositionOf(t)
      BY DEF RP!SamePosition, SubtreeLine, PositionOf
    <2>2. \A u : u \in TrustedLines <=>
             \E c \in DOMAIN cas : \E i \in FirstAtPosition(cas[c].trustedSubtrees) :
                u = SubtreeLine(c, cas[c].trustedSubtrees[i])
      BY DEF TrustedLines
    <2>3. ASSUME NEW i \in FirstAtPosition(ts), PositionOf(ts[i]) = PositionOf(t)
          PROVE  \E u \in TrustedLines : RP!SamePosition(u, line)
      <3>1. SubtreeLine(ca, ts[i]) \in TrustedLines
        BY <2>2
      <3> QED
        BY <2>1, <2>3, <3>1
    <2>4. ASSUME NEW u \in TrustedLines, RP!SamePosition(u, line)
          PROVE  Has
      <3>1. PICK c \in DOMAIN cas : \E i \in FirstAtPosition(cas[c].trustedSubtrees) :
              u = SubtreeLine(c, cas[c].trustedSubtrees[i])
        BY <2>2
      <3>2. PICK i \in FirstAtPosition(cas[c].trustedSubtrees) :
              u = SubtreeLine(c, cas[c].trustedSubtrees[i])
        BY <3>1
      <3>3. c = ca /\ PositionOf(cas[c].trustedSubtrees[i]) = PositionOf(t)
        BY <2>1, <2>4, <3>2
      <3> QED
        BY <3>2, <3>3
    <2> QED
      BY <2>3, <2>4
  <1>3. LinesOf(ca, Append(ts, t)) =
          IF Has THEN LinesOf(ca, ts) ELSE LinesOf(ca, ts) \cup {line}
    BY <1>1, LinesGrow, ZenonT(60)
  <1>4. cas'[ca].trustedSubtrees = Append(ts, t)
    OBVIOUS
  <1> DEFINE old == LinesOf(ca, ts)
             new == LinesOf(ca, Append(ts, t))
  <1>5. /\ \A u : u \in TrustedLines <=>
             u \in old \/ \E c \in DOMAIN cas \ {ca} : u \in LinesOf(c, cas[c].trustedSubtrees)
        /\ \A u : u \in TrustedLines' <=>
             u \in new \/ \E c \in DOMAIN cas \ {ca} : u \in LinesOf(c, cas[c].trustedSubtrees)
    BY <1>4, TrustedLinesAre
  <1>6. new = IF Has THEN old ELSE old \cup {line}
    BY <1>3
  <1> HIDE DEF Has, line, old, new
  <1>7. TrustedLines' = IF Has THEN TrustedLines ELSE TrustedLines \cup {line}
    BY <1>5, <1>6
  <1> QED
    BY <1>2, <1>7 DEF line

-----------------------------------------------------------------------------

\* Reading the policy.  What a step does not assign has its meaning kept.

\* Reading the policy judges nothing.
LEMMA JudgementStays ==
    ASSUME UNCHANGED verifyVars
    PROVE  UNCHANGED RP!judgement
  BY DEF verifyVars, RP!judgement, Judged

LEMMA RequirementsStay ==
    ASSUME PolicyInv, PolicyNext, cas' = cas
    PROVE  RequiredPairs' = RequiredPairs
  BY RequiredOfStays, RequiredPairsStay

\* A step that assigns no table changes nothing of the policy's meaning.
LEMMA PolicyStays ==
    ASSUME PolicyInv, PolicyNext, UNCHANGED tables
    PROVE  UNCHANGED RP!policy
  <1>1. /\ cosigners' = cosigners /\ groups' = groups /\ cas' = cas
        /\ requirementsForAllCAs' = requirementsForAllCAs
    BY DEF tables
  <1>2. CosignerIDs' = CosignerIDs
    BY <1>1 DEF CosignerIDs
  <1>3. GroupDefs' = GroupDefs /\ RequiredOfAll' = RequiredOfAll /\ RequiredPairs' = RequiredPairs
    BY <1>1, GroupDefsStay, RequiredOfAllStays, RequirementsStay
  <1>4. RevokedSerials' = RevokedSerials /\ TrustedLines' = TrustedLines
    BY <1>1, RevokedSerialsStay, TrustedLinesStay
  <1> QED
    BY <1>1, <1>2, <1>3, <1>4 DEF RP!policy

\* Each action that reads a line is the declaration of what the line says, or
\* the end.
LEMMA AbortImplements ==
    ASSUME PolicyInv, PolicyNext, UNCHANGED verifyVars,
           phase \in {"caCerts", "policyFile"}, Abort
    PROVE  RP!Abort
  BY PolicyStays, JudgementStays DEF Abort, RP!Abort

LEMMA ProceedImplements ==
    ASSUME PolicyInv, PolicyNext, UNCHANGED verifyVars, CACertsLoaded \/ PolicyFileRead
    PROVE  RP!Proceed
  BY PolicyStays, JudgementStays DEF CACertsLoaded, PolicyFileRead, RP!Proceed

LEMMA AddCAImplements ==
    ASSUME PolicyInv, PolicyNext, UNCHANGED verifyVars, NEW ca \in CACertificates, AddCA(ca)
    PROVE  RP!Abort \/ RP!TrustCA(ca)
  <1>1. CASE Abort
    BY <1>1, AbortImplements DEF AddCA
  <1>2. CASE ~Abort
    <2>1. /\ phase = "caCerts" /\ phase' = phase
          /\ ca.id \notin DOMAIN cas /\ ca.id \notin DOMAIN names
          /\ cosigners' = Append(cosigners, ca.id)
          /\ cas' = Put(cas, ca.id, NewCA(ca, Len(cosigners')))
          /\ groups' = groups /\ requirementsForAllCAs' = requirementsForAllCAs
      BY <1>2 DEF AddCA, RegisterCosigner
    <2>2. ca.id \in ID
      BY PolicyInputAssumption
    <2>3. /\ DOMAIN cas' = DOMAIN cas \cup {ca.id}
          /\ cas'[ca.id] = NewCA(ca, Len(cosigners'))
          /\ \A c \in DOMAIN cas : cas'[c] = cas[c]
      BY <2>1 DEF Put
    <2>4. /\ cas'[ca.id].requirements = <<>> /\ cas'[ca.id].trustedSubtrees = <<>>
          /\ cas'[ca.id].revokedRanges = OutsideRanges(ca)
      BY <2>3 DEF NewCA
    <2>5. RequiredOf(ca.id)' = {}
      <3>1. RequiredOf(ca.id)' = RequiredIn(<<>>, groups', cosigners')
        BY <2>4, RequiredByTables
      <3> QED
        BY <3>1 DEF RequiredIn
    <2>6. RequiredPairs' = RequiredPairs
      BY <2>1, <2>3, <2>5, RequiredOfStays, RequiredPairsOfNewCA
    <2>7. RevokedSerials' = RevokedSerials \cup
             {<<ca.id, s>> : s \in {s \in Serial : s < ca.minSerial \/ s > ca.maxSerial}}
      BY <2>1, <2>3, <2>4, PolicyInputAssumption, RevokedSerialsOfNewCA DEF PolicyInputAssumption, CACertificate
    <2>8. TrustedLines' = TrustedLines
      BY <2>1, <2>3, <2>4, TrustedLinesOfNewCA
    <2>9. CosignerIDs' = CosignerIDs \cup {ca.id}
      BY <2>1, <2>2, CosignerIDsGrow
    <2>10. GroupDefs' = GroupDefs /\ RequiredOfAll' = RequiredOfAll
      BY <2>1, GroupDefsStay, RequiredOfAllStays
    <2>11. ca.id \notin RP!Defined
      BY <2>1, DefinedNames
    <2> QED
      BY <2>1, <2>3, <2>6, <2>7, <2>8, <2>9, <2>10, <2>11, JudgementStays, SameSerials
         DEF RP!TrustCA
  <1> QED
    BY <1>1, <1>2

LEMMA AddCosignerImplements ==
    ASSUME PolicyInv, PolicyNext, UNCHANGED verifyVars,
           NEW id \in ID, NEW wellFormed, AddCosigner(id, wellFormed)
    PROVE  RP!Abort \/ RP!NameCosigner(id)
  <1>1. CASE Abort
    BY <1>1, AbortImplements DEF AddCosigner
  <1>2. CASE ~Abort
    <2>1. /\ phase = "policyFile" /\ phase' = phase /\ id \notin DOMAIN names
          /\ cosigners' = Append(cosigners, id) /\ groups' = groups /\ cas' = cas
          /\ requirementsForAllCAs' = requirementsForAllCAs
      BY <1>2 DEF AddCosigner, RegisterCosigner
    <2>2. /\ GroupDefs' = GroupDefs /\ RequiredOfAll' = RequiredOfAll
          /\ RequiredPairs' = RequiredPairs /\ RevokedSerials' = RevokedSerials
          /\ TrustedLines' = TrustedLines
      BY <2>1, GroupDefsStay, RequiredOfAllStays, RequirementsStay, RevokedSerialsStay,
         TrustedLinesStay
    <2> QED
      BY <2>1, <2>2, CosignerIDsGrow, DefinedNames, JudgementStays DEF RP!NameCosigner
  <1> QED
    BY <1>1, <1>2

LEMMA AddGroupImplements ==
    ASSUME PolicyInv, PolicyNext, UNCHANGED verifyVars, NEW line \in GroupLines, AddGroup(line)
    PROVE  RP!Abort \/ RP!DefineGroup(line)
  <1>1. CASE ~GroupLineOK(line)
    BY <1>1, AbortImplements DEF AddGroup
  <1>2. CASE GroupLineOK(line)
    <2>1. /\ phase = "policyFile" /\ phase' = phase /\ cosigners' = cosigners /\ cas' = cas
          /\ groups' = Append(groups, GroupOf(line))
          /\ requirementsForAllCAs' = requirementsForAllCAs
      BY <1>2 DEF AddGroup
    <2>2. /\ GroupDefs' = GroupDefs \cup {line}
          /\ RequiredOfAll' = RequiredOfAll
          /\ RequiredPairs' = RequiredPairs /\ RevokedSerials' = RevokedSerials
          /\ TrustedLines' = TrustedLines /\ CosignerIDs' = CosignerIDs
      BY <1>2, <2>1, GroupDefsGrow, RequiredOfAllStays, RequirementsStay, RevokedSerialsStay,
         TrustedLinesStay DEF CosignerIDs
    <2>3. line.number \in 1 .. Len(line.members)
      <3>1. line.number \in Int /\ line.members \in Seq(Name)
        BY PolicyInputAssumption
      <3> QED
        BY <1>2, <3>1 DEF GroupLineOK
    <2> QED
      BY <1>2, <2>1, <2>2, <2>3, DefinedNames, JudgementStays DEF RP!DefineGroup, GroupLineOK
  <1> QED
    BY <1>1, <1>2

LEMMA RequireForCAImplements ==
    ASSUME PolicyInv, PolicyNext, UNCHANGED verifyVars,
           NEW ca \in ID, NEW n \in Name, RequireCosignersForCA(ca, n)
    PROVE  RP!Abort \/ RP!Require(ca, n)
  <1>1. CASE n \notin DOMAIN names \/ ca \notin DOMAIN cas
    BY <1>1, AbortImplements DEF RequireCosignersForCA
  <1>2. CASE n \in DOMAIN names /\ ca \in DOMAIN cas
    <2>1. /\ phase = "policyFile" /\ phase' = phase /\ cosigners' = cosigners /\ groups' = groups
          /\ requirementsForAllCAs' = requirementsForAllCAs
          /\ cas' = [cas EXCEPT ![ca].requirements = Append(@, names[n])]
      BY <1>2 DEF RequireCosignersForCA
    <2>2. cas \in [DOMAIN cas -> TrustedCA] /\ cas[ca] \in TrustedCA
      BY <1>2 DEF PolicyInv, PolicyTypeOK
    <2>3. /\ DOMAIN cas' = DOMAIN cas
          /\ cas'[ca].requirements = Append(cas[ca].requirements, names[n])
          /\ cas'[ca].revokedRanges = cas[ca].revokedRanges
          /\ cas'[ca].trustedSubtrees = cas[ca].trustedSubtrees
          /\ \A c \in DOMAIN cas \ {ca} : cas'[c] = cas[c]
      BY <1>2, <2>1, <2>2 DEF TrustedCA
    <2>4. RequiredPairs' = RequiredPairs \cup {<<ca, n>>}
      <3>1. RequiredOf(ca)' = RequiredOf(ca) \cup {n}
        BY <1>2, <2>3, RequiredOfGrows
      <3>2. \A c \in DOMAIN cas \ {ca} : RequiredOf(c)' = RequiredOf(c)
        BY <2>3, RequiredOfStays
      <3> QED
        BY <1>2, <2>3, <3>1, <3>2, RequiredPairsGrow
    <2>5. RevokedSerials' = RevokedSerials /\ TrustedLines' = TrustedLines
      BY <2>3, RevokedSerialsStay, TrustedLinesStay
    <2>6. GroupDefs' = GroupDefs /\ RequiredOfAll' = RequiredOfAll /\ CosignerIDs' = CosignerIDs
      BY <2>1, GroupDefsStay, RequiredOfAllStays DEF CosignerIDs
    <2> QED
      BY <1>2, <2>1, <2>3, <2>4, <2>5, <2>6, DefinedNames, JudgementStays DEF RP!Require
  <1> QED
    BY <1>1, <1>2

LEMMA RequireForAllImplements ==
    ASSUME PolicyInv, PolicyNext, UNCHANGED verifyVars,
           NEW n \in Name, RequireCosignersForAllCAs(n)
    PROVE  RP!Abort \/ RP!RequireOfAll(n)
  <1>1. CASE n \notin DOMAIN names
    BY <1>1, AbortImplements DEF RequireCosignersForAllCAs
  <1>2. CASE n \in DOMAIN names
    <2>1. /\ phase = "policyFile" /\ phase' = phase /\ cosigners' = cosigners /\ groups' = groups
          /\ requirementsForAllCAs' = Append(requirementsForAllCAs, names[n]) /\ cas' = cas
      BY <1>2 DEF RequireCosignersForAllCAs
    <2>2. /\ GroupDefs' = GroupDefs /\ RequiredOfAll' = RequiredOfAll \cup {n}
          /\ RequiredPairs' = RequiredPairs /\ RevokedSerials' = RevokedSerials
          /\ TrustedLines' = TrustedLines /\ CosignerIDs' = CosignerIDs
      BY <1>2, <2>1, GroupDefsStay, RequiredOfAllGrows, RequirementsStay, RevokedSerialsStay,
         TrustedLinesStay DEF CosignerIDs
    <2> QED
      BY <1>2, <2>1, <2>2, DefinedNames, JudgementStays DEF RP!RequireOfAll
  <1> QED
    BY <1>1, <1>2

LEMMA RevokeRangeImplements ==
    ASSUME PolicyInv, PolicyNext, UNCHANGED verifyVars, NEW line \in RevokeLines, RevokeRange(line)
    PROVE  RP!Abort \/ RP!Revoke(line)
  <1>1. CASE ~RevokeLineOK(line)
    BY <1>1, AbortImplements DEF RevokeRange
  <1>2. CASE RevokeLineOK(line)
    <2> DEFINE min == parseSerial(line.min)
               max == parseSerial(line.max)
    <2>1. /\ phase = "policyFile" /\ phase' = phase /\ cosigners' = cosigners /\ groups' = groups
          /\ requirementsForAllCAs' = requirementsForAllCAs
          /\ cas' = [cas EXCEPT ![line.ca].revokedRanges = Append(@, [min |-> min, max |-> max])]
      BY <1>2 DEF RevokeRange
    <2>2. min \in Serial /\ max \in Serial /\ line.ca \in DOMAIN cas
      BY <1>2, ParsedSerialInRange, PolicyInputAssumption DEF RevokeLineOK
    <2> HIDE DEF min, max
    <2>3. cas \in [DOMAIN cas -> TrustedCA] /\ cas[line.ca] \in TrustedCA
      BY <2>2 DEF PolicyInv, PolicyTypeOK
    <2>4. /\ DOMAIN cas' = DOMAIN cas
          /\ cas'[line.ca].revokedRanges
                = Append(cas[line.ca].revokedRanges, [min |-> min, max |-> max])
          /\ cas'[line.ca].requirements = cas[line.ca].requirements
          /\ cas'[line.ca].trustedSubtrees = cas[line.ca].trustedSubtrees
          /\ \A c \in DOMAIN cas \ {line.ca} : cas'[c] = cas[c]
      BY <2>1, <2>2, <2>3 DEF TrustedCA
    <2>5. RevokedSerials' = RevokedSerials \cup {<<line.ca, s>> : s \in min .. max}
      BY <2>2, <2>4, RevokedSerialsGrow
    <2>6. RequiredPairs' = RequiredPairs /\ TrustedLines' = TrustedLines
      BY <2>4, RequiredOfStays, RequiredPairsStay, TrustedLinesStay
    <2>7. GroupDefs' = GroupDefs /\ RequiredOfAll' = RequiredOfAll /\ CosignerIDs' = CosignerIDs
      BY <2>1, GroupDefsStay, RequiredOfAllStays DEF CosignerIDs
    <2> QED
      BY <2>1, <2>2, <2>4, <2>5, <2>6, <2>7, JudgementStays, SameSerials DEF RP!Revoke, min, max
  <1> QED
    BY <1>1, <1>2

LEMMA AddTrustedSubtreeImplements ==
    ASSUME PolicyInv, PolicyNext, UNCHANGED verifyVars, NEW line \in SubtreeLines,
           AddTrustedSubtree(line)
    PROVE  RP!Abort \/ RP!Trust(line)
  <1>1. CASE ~SubtreeLineOK(line)
    BY <1>1, AbortImplements DEF AddTrustedSubtree
  <1>2. CASE SubtreeLineOK(line)
    <2> DEFINE t == [log |-> line.log, start |-> line.start, end |-> line.end, hash |-> line.hash]
    <2>1. /\ phase = "policyFile" /\ phase' = phase /\ cosigners' = cosigners /\ groups' = groups
          /\ requirementsForAllCAs' = requirementsForAllCAs
          /\ cas' = [cas EXCEPT ![line.ca].trustedSubtrees = Append(@, t)]
          /\ line.ca \in DOMAIN cas
      BY <1>2 DEF AddTrustedSubtree, SubtreeLineOK
    <2>2. SubtreeLine(line.ca, t) = line
      <3>1. line \in [ca : ID, log : LogNumber, start : Index, end : Index, hash : Hash]
        BY PolicyInputAssumption
      <3> QED
        BY <3>1 DEF SubtreeLine
    <2> HIDE DEF t
    <2>3. cas \in [DOMAIN cas -> TrustedCA] /\ cas[line.ca] \in TrustedCA
      BY <2>1 DEF PolicyInv, PolicyTypeOK
    <2>4. /\ DOMAIN cas' = DOMAIN cas
          /\ cas'[line.ca].trustedSubtrees = Append(cas[line.ca].trustedSubtrees, t)
          /\ cas'[line.ca].requirements = cas[line.ca].requirements
          /\ cas'[line.ca].revokedRanges = cas[line.ca].revokedRanges
          /\ \A c \in DOMAIN cas \ {line.ca} : cas'[c] = cas[c]
      BY <2>1, <2>3 DEF TrustedCA
    <2>5. TrustedLines' = IF \E u \in TrustedLines : RP!SamePosition(u, line)
                          THEN TrustedLines ELSE TrustedLines \cup {line}
      BY <2>1, <2>2, <2>4, TrustedLinesGrow
    <2>6. RequiredPairs' = RequiredPairs /\ RevokedSerials' = RevokedSerials
      BY <2>4, RequiredOfStays, RequiredPairsStay, RevokedSerialsStay
    <2>7. GroupDefs' = GroupDefs /\ RequiredOfAll' = RequiredOfAll /\ CosignerIDs' = CosignerIDs
      BY <2>1, GroupDefsStay, RequiredOfAllStays DEF CosignerIDs
    <2> QED
      BY <2>1, <2>4, <2>5, <2>6, <2>7, JudgementStays DEF RP!Trust
  <1> QED
    BY <1>1, <1>2

\* Every step that reads the policy is a step of RelyingParty.
LEMMA PolicyStepImplements ==
    ASSUME PolicyInv, PolicyNext, UNCHANGED verifyVars
    PROVE  RP!Next
  <1>1. CASE \E ca \in CACertificates : AddCA(ca)
    BY <1>1, AddCAImplements DEF RP!Next
  <1>2. CASE CACertsLoaded \/ PolicyFileRead
    BY <1>2, ProceedImplements DEF RP!Next
  <1>3. CASE \E id \in ID, wellFormed \in BOOLEAN : AddCosigner(id, wellFormed)
    BY <1>3, AddCosignerImplements DEF RP!Next
  <1>4. CASE \E line \in GroupLines : AddGroup(line)
    BY <1>4, AddGroupImplements DEF RP!Next
  <1>5. CASE \E ca \in ID, n \in Name : RequireCosignersForCA(ca, n)
    BY <1>5, RequireForCAImplements DEF RP!Next
  <1>6. CASE \E n \in Name : RequireCosignersForAllCAs(n)
    BY <1>6, RequireForAllImplements DEF RP!Next
  <1>7. CASE \E line \in RevokeLines : RevokeRange(line)
    BY <1>7, RevokeRangeImplements DEF RP!Next
  <1>8. CASE \E line \in SubtreeLines : AddTrustedSubtree(line)
    BY <1>8, AddTrustedSubtreeImplements DEF RP!Next
  <1> QED
    BY <1>1, <1>2, <1>3, <1>4, <1>5, <1>6, <1>7, <1>8 DEF PolicyNext

-----------------------------------------------------------------------------

\* Judging a certificate.

\* Trusted subtrees found by position are the trusted lines at the position.
LEMMA TrustedHashes ==
    ASSUME PolicyInv, NEW c, c.issuer \in DOMAIN cas
    PROVE  \A h : h \in FindTrustedSubtree(cas[c.issuer], c) <=>
                    \E t \in RP!TrustedAt(c) : t.hash = h
  <1> DEFINE ts == cas[c.issuer].trustedSubtrees
             p == <<LogOf(c.serial), c.start, c.end>>
             hits == Matches(cas[c.issuer], c)
  <1>1. ts \in Seq(TrustedSubtree)
    <2>1. cas[c.issuer] \in TrustedCA
      BY DEF PolicyInv, PolicyTypeOK
    <2> QED
      BY <2>1 DEF TrustedCA
  <1>2. hits = {i \in DOMAIN ts : PositionOf(ts[i]) = p}
    BY DEF Matches, PositionOf
  <1>3. \A t : t \in RP!TrustedAt(c) <=>
          \E i \in FirstAtPosition(ts) :
             PositionOf(ts[i]) = p /\ t = SubtreeLine(c.issuer, ts[i])
    <2>1. \A ca, s : LET u == SubtreeLine(ca, s)
                     IN  /\ u.ca = ca /\ u.hash = s.hash
                         /\ (u.log = LogOf(c.serial) /\ u.start = c.start /\ u.end = c.end)
                              <=> PositionOf(s) = p
      BY DEF SubtreeLine, PositionOf
    <2>2. \A t : t \in TrustedLines <=>
             \E ca \in DOMAIN cas : \E i \in FirstAtPosition(cas[ca].trustedSubtrees) :
                t = SubtreeLine(ca, cas[ca].trustedSubtrees[i])
      BY DEF TrustedLines
    <2> HIDE DEF p
    <2>3. ASSUME NEW t \in RP!TrustedAt(c)
          PROVE  \E i \in FirstAtPosition(ts) :
                    PositionOf(ts[i]) = p /\ t = SubtreeLine(c.issuer, ts[i])
      <3>1. /\ t \in TrustedLines /\ t.ca = c.issuer /\ t.log = LogOf(c.serial)
            /\ t.start = c.start /\ t.end = c.end
        BY SameSerials DEF RP!TrustedAt
      <3>2. PICK ca \in DOMAIN cas : \E i \in FirstAtPosition(cas[ca].trustedSubtrees) :
              t = SubtreeLine(ca, cas[ca].trustedSubtrees[i])
        BY <2>2, <3>1
      <3>3. PICK i \in FirstAtPosition(cas[ca].trustedSubtrees) :
              t = SubtreeLine(ca, cas[ca].trustedSubtrees[i])
        BY <3>2
      <3>4. ca = c.issuer /\ PositionOf(cas[ca].trustedSubtrees[i]) = p
        BY <2>1, <3>1, <3>3
      <3> QED
        BY <3>3, <3>4
    <2>4. ASSUME NEW i \in FirstAtPosition(ts), PositionOf(ts[i]) = p
          PROVE  SubtreeLine(c.issuer, ts[i]) \in RP!TrustedAt(c)
      <3>1. SubtreeLine(c.issuer, ts[i]) \in TrustedLines
        BY <2>2
      <3> QED
        BY <2>1, <2>4, <3>1, SameSerials DEF RP!TrustedAt
    <2> QED
      BY <2>3, <2>4
  <1>4. \A i : (i \in FirstAtPosition(ts) /\ PositionOf(ts[i]) = p)
                  <=> i \in hits /\ \A j \in hits : i <= j
    <2>1. DOMAIN ts = 1 .. Len(ts) /\ Len(ts) \in Nat
      BY <1>1
    <2> HIDE DEF ts, p, hits
    <2>2. ASSUME NEW i \in DOMAIN ts, NEW j \in DOMAIN ts
          PROVE  i <= j <=> ~(j \in 1 .. i - 1)
      BY <2>1
    <2>3. \A i \in DOMAIN ts : 1 .. i - 1 \subseteq DOMAIN ts
      BY <2>1
    <2>4. hits \subseteq DOMAIN ts /\ \A j \in DOMAIN ts : j \in hits <=> PositionOf(ts[j]) = p
      BY <1>2
    <2>5. \A i : i \in FirstAtPosition(ts) <=>
             i \in DOMAIN ts /\ \A j \in 1 .. i - 1 : PositionOf(ts[j]) # PositionOf(ts[i])
      BY DEF FirstAtPosition
    <2> QED
      BY <2>2, <2>3, <2>4, <2>5
  <1>5. \A h : h \in FindTrustedSubtree(cas[c.issuer], c) <=>
          \E i \in hits : (\A j \in hits : i <= j) /\ ts[i].hash = h
    BY DEF FindTrustedSubtree
  <1>6. \A s : SubtreeLine(c.issuer, s).hash = s.hash
    BY DEF SubtreeLine
  <1> HIDE DEF ts, p, hits
  <1>7. \A h : (\E t \in RP!TrustedAt(c) : t.hash = h) <=>
          \E i \in FirstAtPosition(ts) : PositionOf(ts[i]) = p /\ ts[i].hash = h
    BY <1>3, <1>6
  <1> QED
    BY <1>4, <1>5, <1>7

\* A certificate gets past the checks before its signatures by what is revoked.
LEMMA SameEligibility ==
    ASSUME NEW c \in Certificates
    PROVE  RP!Eligible(c) <=> Eligible(c)
  <1>1. c.serial \in Serial
    BY CertificateAssumption DEF Certificate
  <1>2. c.issuer \in DOMAIN cas => (<<c.issuer, c.serial>> \in RevokedSerials <=> Revoked(c))
    BY <1>1 DEF RevokedSerials, Revoked
  <1> QED
    BY <1>2, SameSerials, SameJudgements DEF RP!Eligible, Eligible

\* What RelyingParty decides, by the code's conditions.
LEMMA VerdictBeforeSignatures ==
    ASSUME PolicyInv, NEW c \in Certificates
    PROVE  /\ ~Eligible(c) => RP!Verdict(c) = "rejected"
           /\ Eligible(c) =>
                LET found == FindTrustedSubtree(cas[c.issuer], c)
                IN  /\ found # {} => RP!Verdict(c) = IF c.hash \in found
                                                     THEN "trusted" ELSE "rejected"
                    /\ found = {} => RP!Verdict(c) =
                          IF RP!Requirements(c.issuer) \subseteq RP!Meaning(RP!Signers(c))
                          THEN "cosigned" ELSE "unsatisfied"
  <1>1. RP!Eligible(c) <=> Eligible(c)
    BY SameEligibility
  <1>2. CASE ~Eligible(c)
    <2>1. ~RP!Eligible(c)
      BY <1>1, <1>2
    <2> QED
      BY <1>2, <2>1 DEF RP!Verdict
  <1>3. CASE Eligible(c)
    <2> DEFINE found == FindTrustedSubtree(cas[c.issuer], c)
               at == RP!TrustedAt(c)
    <2>1. RP!Eligible(c)
      BY <1>1, <1>3
    <2>2. c.issuer \in DOMAIN cas
      BY <1>3 DEF Eligible
    <2>3. \A h : h \in found <=> \E t \in at : t.hash = h
      BY <2>2, TrustedHashes
    <2> HIDE DEF found, at
    <2>4. /\ found = {} <=> at = {}
          /\ c.hash \in found <=> \E t \in at : t.hash = c.hash
      BY <2>3
    <2>5. /\ found # {} => RP!Verdict(c) = IF c.hash \in found THEN "trusted" ELSE "rejected"
          /\ found = {} => RP!Verdict(c) =
                IF RP!Requirements(c.issuer) \subseteq RP!Meaning(RP!Signers(c))
                THEN "cosigned" ELSE "unsatisfied"
      BY <2>1, <2>4 DEF RP!Verdict, at
    <2> QED
      BY <1>3, <2>5 DEF found
  <1> QED
    BY <1>2, <1>3

\* What has to be satisfied, by name.
LEMMA SameRequirements ==
    ASSUME PolicyInv, NEW ca \in DOMAIN cas
    PROVE  RP!Requirements(ca) = {ca} \cup RequiredOf(ca) \cup RequiredOfAll
  <1>1. RequiredOf(ca) \subseteq Name
    BY RequirementFacts, IndexedNames DEF RequiredOf
  <1>2. {n \in Name : <<ca, n>> \in RequiredPairs} = RequiredOf(ca)
    BY <1>1, RequiredPairsAre
  <1> QED
    BY <1>2 DEF RP!Requirements

\* The pass over the groups arrives at the meaning of the signers.
LEMMA SameMeaning ==
    ASSUME VerifyInv, Counting, next = Len(groups) + 1
    PROVE  RP!Meaning(RP!Signers(cert)) = SatisfiedNames
  <1>1. PolicyInv
    BY VerifyInvParts
  <1>2. RP!Signers(cert) = Signers(cert)
    BY SameJudgements DEF RP!Signers, Signers
  <1>3. Signers(cert) \in SUBSET CosignerIDs
    BY DEF Signers
  <1>4. /\ SatisfiedNames \in SUBSET Name
        /\ IsMeaning(SatisfiedNames, Signers(cert), GroupDefs)
    BY VerifyInvParts, SatisfiedNamesAreTheMeaning DEF Counting
  <1> DEFINE S == Signers(cert)
             D == GroupDefs
             M == RP!Meaning(S)
  <1>5. M = CHOOSE X \in SUBSET Name : IsMeaning(X, S, D)
    BY SameJudgements DEF RP!Meaning
  <1> HIDE DEF M
  <1>6. IsMeaning(M, S, D)
    BY <1>4, <1>5
  <1>7. M = SatisfiedNames
    BY <1>1, <1>3, <1>4, <1>6, MeaningIsUnique
  <1> QED
    BY <1>2, <1>7 DEF M

\* The policy is only read from now on.
LEMMA PolicyOfVerification ==
    ASSUME UNCHANGED tables
    PROVE  UNCHANGED RP!policy
  BY DEF tables, RP!policy, CosignerIDs, GroupDefs, GroupDefinition, NameForIndex,
         RequiredPairs, RequiredOf, RequiredOfAll, RevokedSerials, TrustedLines,
         FirstAtPosition, PositionOf, SubtreeLine

\* Deciding before the signatures is judging; taking up the signatures is not.
LEMMA VerifyMTCProofImplements ==
    ASSUME VerifyInv, NEW c \in Certificates, VerifyMTCProof(c)
    PROVE  RP!Judge(c) \/ UNCHANGED RP!vars
  <1>1. /\ phase = "ready" /\ phase' = phase /\ cert = NoCertificate /\ cert' = c
        /\ UNCHANGED tables /\ outcomes' = outcomes
    BY DEF VerifyMTCProof, policyVars, tables
  <1>2. PolicyInv /\ verdict = "none"
    BY <1>1, VerifyInvParts DEF VerifierInv, JudgementInv
  <1>3. Judged = NoCertificate
    BY <1>1 DEF Judged
  <1>4. \/ verdict' = "none"
        \/ verdict' # "none" /\ verdict' = RP!Verdict(c)
    BY <1>2, VerdictBeforeSignatures DEF VerifyMTCProof
  <1>5. CASE verdict' = "none"
    <2>1. Judged' = Judged
      BY <1>3, <1>5 DEF Judged
    <2> QED
      BY <1>1, <1>2, <1>5, <2>1, PolicyOfVerification DEF RP!vars, RP!judgement
  <1>6. CASE verdict' # "none" /\ verdict' = RP!Verdict(c)
    <2>1. Judged' = c
      BY <1>1, <1>6 DEF Judged
    <2> QED
      BY <1>1, <1>3, <1>6, <2>1, PolicyOfVerification DEF RP!Judge
  <1> QED
    BY <1>4, <1>5, <1>6

\* Nor is evaluating a group.
LEMMA EvaluateGroupImplements ==
    ASSUME EvaluateGroup
    PROVE  UNCHANGED RP!vars
  <1>1. phase' = phase /\ UNCHANGED <<cert, verdict, outcomes>> /\ UNCHANGED tables
    BY DEF EvaluateGroup, policyVars, tables
  <1> QED
    BY <1>1, PolicyOfVerification DEF RP!vars, RP!judgement, Judged

\* The verdict by signatures is the one that the policy's meaning calls for.
LEMMA CheckRequirementsImplements ==
    ASSUME VerifyInv, CheckRequirements
    PROVE  RP!Judge(cert)
  <1>1. /\ cert # NoCertificate /\ verdict = "none" /\ next > Len(groups)
        /\ phase' = phase /\ cert' = cert /\ outcomes' = outcomes /\ UNCHANGED tables
        /\ verdict' = IF PolicySatisfied THEN "cosigned" ELSE "unsatisfied"
    BY DEF CheckRequirements, policyVars, tables
  <1>2. PolicyInv /\ phase = "ready" /\ cert \in Certificates
    BY <1>1, VerifyInvParts DEF VerifierInv, JudgementInv, VerifyTypeOK
  <1>3. Counting /\ next = Len(groups) + 1
    <2>1. groups \in Seq(PolicyGroup) /\ next \in 1 .. Len(groups) + 1
      BY VerifyInvParts DEF VerifyTypeOK, PolicyTypeOK
    <2> QED
      BY <1>1, <2>1 DEF Counting
  <1>4. Eligible(cert) /\ FindTrustedSubtree(cas[cert.issuer], cert) = {}
    BY <1>1 DEF VerifyInv, VerdictInv
  <1>5. cert.issuer \in DOMAIN cas
    BY <1>4 DEF Eligible
  <1>6. RP!Requirements(cert.issuer) \subseteq RP!Meaning(RP!Signers(cert)) <=> PolicySatisfied
    <2>1. RP!Requirements(cert.issuer) = {cert.issuer} \cup RequiredOf(cert.issuer) \cup RequiredOfAll
      BY <1>2, <1>5, SameRequirements
    <2>2. RP!Meaning(RP!Signers(cert)) = SatisfiedNames
      BY <1>3, SameMeaning
    <2>3. VerifierInv /\ Counting
      BY <1>3, VerifyInvParts
    <2> QED
      BY <2>1, <2>2, <2>3, RequirementsByName
  <1>7. verdict' = RP!Verdict(cert)
    <2>1. RP!Verdict(cert) =
             IF RP!Requirements(cert.issuer) \subseteq RP!Meaning(RP!Signers(cert))
             THEN "cosigned" ELSE "unsatisfied"
      BY <1>2, <1>4, VerdictBeforeSignatures
    <2> QED
      BY <1>1, <1>6, <2>1
  <1>8. Judged = NoCertificate /\ Judged' = cert
    BY <1>1 DEF Judged
  <1> QED
    BY <1>1, <1>2, <1>7, <1>8, PolicyOfVerification DEF RP!Judge

LEMMA ReportImplements ==
    ASSUME ReportResult
    PROVE  RP!Report
  <1>1. /\ verdict # "none" /\ verdict' = "none" /\ phase' = phase /\ UNCHANGED tables
        /\ outcomes' = outcomes \cup {verdict \in {"trusted", "cosigned"}}
    BY DEF ReportResult, policyVars, tables
  <1>2. Judged' = NoCertificate
    BY <1>1 DEF Judged
  <1> QED
    BY <1>1, <1>2, PolicyOfVerification DEF RP!Report

LEMMA ExitImplements ==
    ASSUME Exit
    PROVE  RP!Exit
  <1>1. /\ phase = "ready" /\ cert = NoCertificate /\ UNCHANGED tables /\ UNCHANGED verifyVars
        /\ phase' = "failed" \/ (outcomes = {TRUE} /\ phase' = "passed")
    BY DEF Exit
  <1>2. Judged = NoCertificate
    BY <1>1 DEF Judged
  <1> QED
    BY <1>1, <1>2, PolicyOfVerification, JudgementStays DEF RP!Exit

-----------------------------------------------------------------------------

\* Every step of `verify` is one of RelyingParty, or changes nothing of it.
LEMMA StepImplements ==
    ASSUME VerifyInv, [Next]_vars
    PROVE  [RP!Next]_(RP!vars)
  <1>1. CASE PolicyNext /\ UNCHANGED verifyVars
    BY <1>1, PolicyStepImplements, VerifyInvParts
  <1>2. ASSUME NEW c \in Certificates, VerifyMTCProof(c)
        PROVE  RP!Next \/ UNCHANGED RP!vars
    BY <1>2, VerifyMTCProofImplements DEF RP!Next
  <1>3. CASE EvaluateGroup
    BY <1>3, EvaluateGroupImplements
  <1>4. CASE CheckRequirements
    <2>1. cert \in Certificates
      BY <1>4 DEF VerifyInv, CheckRequirements
    <2> QED
      BY <1>4, <2>1, CheckRequirementsImplements DEF RP!Next
  <1>5. CASE ReportResult \/ Exit
    BY <1>5, ReportImplements, ExitImplements DEF RP!Next
  <1>6. CASE UNCHANGED vars
    <2>1. phase' = phase /\ UNCHANGED tables /\ UNCHANGED verifyVars
      BY <1>6 DEF vars, policyVars, tables
    <2> QED
      BY <2>1, PolicyOfVerification, JudgementStays DEF RP!vars
  <1> QED
    BY <1>1, <1>2, <1>3, <1>4, <1>5, <1>6 DEF Next, VerifyNext

LEMMA InitImplements == VerifyInit => RP!Init
  <1> SUFFICES ASSUME VerifyInit PROVE RP!Init
    OBVIOUS
  <1>1. /\ phase = "caCerts" /\ cas = <<>> /\ cosigners = <<>> /\ groups = <<>>
        /\ requirementsForAllCAs = <<>> /\ cert = NoCertificate /\ verdict = "none"
        /\ outcomes = {}
    BY DEF VerifyInit, Init
  <1>2. DOMAIN cas = {} /\ CosignerIDs = {} /\ GroupDefs = {} /\ RequiredOfAll = {}
    BY <1>1 DEF CosignerIDs, GroupDefs, RequiredOfAll
  <1>3. RequiredPairs = {} /\ RevokedSerials = {} /\ TrustedLines = {}
    BY <1>2 DEF RequiredPairs, RevokedSerials, TrustedLines
  <1> QED
    BY <1>1, <1>2, <1>3 DEF RP!Init, Judged

\* `verify` implements the relying party that judges a certificate in one step
\* by the declarations of its policy: names resolved when lines are read, the
\* groups evaluated one by one and the trusted subtrees searched in order make
\* no difference, for any policy files and certificates
\* (policy.go:173-347, verify_proof.go:166-280).
THEOREM VerifierImplementsRelyingParty == Spec => ImplementsRelyingParty
  <1>1. VerifyInit => RP!Init
    BY InitImplements
  <1>2. VerifyInv /\ [Next]_vars => [RP!Next]_(RP!vars)
    BY StepImplements
  <1> QED
    BY <1>1, <1>2, VerifyInvariant, PTL DEF Spec, ImplementsRelyingParty, RP!Spec
=============================================================================
