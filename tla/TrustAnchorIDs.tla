--------------------------- MODULE TrustAnchorIDs ---------------------------
(*****************************************************************************)
(* Trust anchor IDs and patterns (demo/config.go, LogID in demo/encode.go):  *)
(* an ID is a relative OID, a sequence of arcs, each in base 128 with a      *)
(* continuation bit; a pattern has a range for every arc.  A byte carries a  *)
(* digit in base Base of an arc instead of 7 bits, and an arc is a number    *)
(* below ArcLimit instead of 2^32.  A text is the sequence of its dot-       *)
(* separated parts, each a number or, in a pattern, the bounds of a range.   *)
(*****************************************************************************)
EXTENDS Integers, Sequences

CONSTANTS
    Base,        \* of the digit in a byte; 2^7 in the code
    ArcLimit,    \* of the integer an arc is parsed into; 2^32 in the code
    Infinity     \* the upper bound that a pattern's text leaves out

\* An integer has room for a whole number of digits, and for the arcs that name
\* the landmarks of a CA.
ASSUME WidthAssumption ==
    /\ Base \in Nat \ {0, 1}
    /\ ArcLimit \in Nat /\ ArcLimit > 2 /\ ArcLimit % Base = 0
    /\ Infinity \in Nat /\ Infinity > ArcLimit

Byte == 0 .. 2 * Base - 1
More == Base           \* 0x80: the byte is not the last of its arc
Arc  == 0 .. ArcLimit - 1

Failed == [ok |-> FALSE]

\* Mutant: a leading 0x80 is accepted, and adds nothing to the arc.
parseBase128Padded(in) ==
    LET ret[i \in 0..Len(in)] ==
            IF i = 0 THEN 0 ELSE ((ret[i - 1] * Base) % ArcLimit) + (in[i] % More)
        ends  == {i \in DOMAIN in : in[i] < More}
        n     == CHOOSE i \in ends : \A j \in ends : i <= j
        fits(i) == ((ret[i] * Base) % ArcLimit) \div Base = ret[i]
    IN  IF ends # {} /\ \A i \in 0 .. n - 1 : fits(i)
        THEN [ok |-> TRUE, value |-> ret[n], rest |-> SubSeq(in, n + 1, Len(in))]
        ELSE Failed

\* The first arc of in, and what follows it.  ret[i] is the arc so far after i
\* bytes; before each byte, also the first, it has to survive being shifted
\* left and back.
parseBase128(in) ==
    LET ret[i \in 0..Len(in)] ==
            IF i = 0 THEN 0 ELSE ((ret[i - 1] * Base) % ArcLimit) + (in[i] % More)
        ends  == {i \in DOMAIN in : in[i] < More}
        n     == CHOOSE i \in ends : \A j \in ends : i <= j
        fits(i) == ((ret[i] * Base) % ArcLimit) \div Base = ret[i]
    IN  IF in # <<>> /\ in[1] # More /\ ends # {} /\ \A i \in 0 .. n - 1 : fits(i)
        THEN [ok |-> TRUE, value |-> ret[n], rest |-> SubSeq(in, n + 1, Len(in))]
        ELSE Failed

\* The bytes before the last one: a digit each of n, which is what the last one
\* leaves of the arc, down from the first digit that is not zero.
LeadingBytes[n \in Nat] ==
    IF n = 0 THEN <<>> ELSE Append(LeadingBytes[n \div Base], More + (n % Base))

\* Mutant: zero is not special, and encoded with no byte at all.
appendBase128ZeroMissing(dst, v) ==
    dst \o (IF v = 0 THEN <<>> ELSE Append(LeadingBytes[v \div Base], v % Base))

\* As many bytes as v has digits; zero has one.
appendBase128(dst, v) == dst \o Append(LeadingBytes[v \div Base], v % Base)

-----------------------------------------------------------------------------

\* What the parts of a text are encoded as, one after the other.
AppendAll(append(_, _), parts) ==
    LET t[i \in 0..Len(parts)] == IF i = 0 THEN <<>> ELSE append(t[i - 1], parts[i])
    IN  t[Len(parts)]

Encoded(bytes) == IF bytes = <<>> THEN Failed ELSE [ok |-> TRUE, value |-> bytes]

\* A part that is no 32-bit number fails, and so does the empty text.
TrustAnchorIDFromString(parts) ==
    IF \A i \in DOMAIN parts : parts[i] \in Arc
    THEN Encoded(AppendAll(appendBase128, parts)) ELSE Failed

\* What can be read part by part with parse is printed so, the rest in
\* hexadecimal.  at[k] is what has been printed and what is left after k parts,
\* or as many as there are.
TextOf(parse(_), bytes) ==
    LET next(s) ==
            LET p == parse(s.rest)
            IN  IF ~s.ok \/ s.rest = <<>> THEN s
                ELSE IF p.ok
                THEN [ok |-> TRUE, text |-> Append(s.text, p.value), rest |-> p.rest]
                ELSE Failed
        at[k \in 0..Len(bytes)] ==
            IF k = 0 THEN [ok |-> TRUE, text |-> <<>>, rest |-> bytes] ELSE next(at[k - 1])
    IN  IF bytes # <<>> /\ at[Len(bytes)].ok
        THEN [valid |-> TRUE, text |-> at[Len(bytes)].text]
        ELSE [valid |-> FALSE, text |-> bytes]

\* TrustAnchorID.String
String(id) == TextOf(parseBase128, id)

-----------------------------------------------------------------------------

appendPatternRange(pattern, min, max) == appendBase128(appendBase128(pattern, min), max)

\* Mutant: infinity is the zero byte.
appendPatternRangeWithZero(pattern, min) == Append(appendBase128(pattern, min), 0)

appendPatternRangeWithInfinity(pattern, min) == Append(appendBase128(pattern, min), More)

appendRange(pattern, r) ==
    IF r.max = Infinity THEN appendPatternRangeWithInfinity(pattern, r.min)
                        ELSE appendPatternRange(pattern, r.min, r.max)

\* A plain number n in the text is the range from n to n; the bounds are not
\* compared.
TrustAnchorIDPatternFromString(parts) ==
    IF \A i \in DOMAIN parts : parts[i].min \in Arc /\ parts[i].max \in Arc \cup {Infinity}
    THEN Encoded(AppendAll(appendRange, parts)) ELSE Failed

parseRange(in) ==
    LET min == parseBase128(in)
        max == parseBase128(min.rest)
    IN  IF ~min.ok THEN Failed
        ELSE IF min.rest # <<>> /\ min.rest[1] = More
        THEN [ok |-> TRUE, value |-> [min |-> min.value, max |-> Infinity],
              rest |-> Tail(min.rest)]
        ELSE IF ~max.ok THEN Failed
        ELSE [ok |-> TRUE, value |-> [min |-> min.value, max |-> max.value],
              rest |-> max.rest]

\* TrustAnchorIDPattern.String
PatternString(pattern) == TextOf(parseRange, pattern)

\* Panics when the ID is invalid.
TrustAnchorIDToPattern(id) ==
    AppendAll(LAMBDA pattern, v : appendPatternRange(pattern, v, v), String(id).text)

-----------------------------------------------------------------------------

\* Mutant: the log number is appended as a single byte.
LogIDOfByte(plants04, caID, logNumber) ==
    IF plants04 THEN caID \o <<0, logNumber % (2 * Base)>> ELSE caID

\* The ID of a log: from plants-04 on, a log of a CA is named by its number.
LogID(plants04, caID, logNumber) ==
    IF plants04 THEN appendBase128(appendBase128(caID, 0), logNumber) ELSE caID

\* compareCosignerIDs: whether a comes before b, by length and then by bytes.
Precedes(a, b) ==
    \/ Len(a) < Len(b)
    \/ /\ Len(a) = Len(b)
       /\ \E i \in DOMAIN a : a[i] < b[i] /\ \A j \in 1 .. i - 1 : a[j] = b[j]

\* Mutant: the group is that of the certificate's landmark alone.
TrustAnchorGroupOfOne(caID, logNumber, landmarkNum) ==
    LET landmarkGroups == appendPatternRange(TrustAnchorIDToPattern(caID), 2, 2)
    IN  IF landmarkNum > 0
        THEN appendPatternRange(
                appendPatternRange(landmarkGroups, logNumber, logNumber),
                landmarkNum, landmarkNum)
        ELSE appendPatternRangeWithInfinity(
                appendPatternRangeWithInfinity(landmarkGroups, 0), 0)

\* The groups a certificate is in (CertificatePropertyList): of a certificate
\* of the landmark, of relying parties that know it or a later one of the
\* same log; of any other certificate, of all relying parties of the CA.
TrustAnchorGroup(caID, logNumber, landmarkNum) ==
    LET landmarkGroups == appendPatternRange(TrustAnchorIDToPattern(caID), 2, 2)
    IN  IF landmarkNum > 0
        THEN appendPatternRangeWithInfinity(
                appendPatternRange(landmarkGroups, logNumber, logNumber), landmarkNum)
        ELSE appendPatternRangeWithInfinity(
                appendPatternRangeWithInfinity(landmarkGroups, 0), 0)

\* Mutant: the log is not named.
CertificateTrustAnchorIDWithoutLog(caID, logNumber, landmarkNum) ==
    IF landmarkNum > 0
    THEN appendBase128(appendBase128(caID, 1), landmarkNum) ELSE caID

\* The trust anchor ID of a certificate: of its landmark, or of its CA.
CertificateTrustAnchorID(caID, logNumber, landmarkNum) ==
    IF landmarkNum > 0
    THEN appendBase128(appendBase128(appendBase128(caID, 1), logNumber), landmarkNum)
    ELSE caID
=============================================================================
