--------------------------- MODULE EncodingProofs ---------------------------
(***************************************************************************)
(* For every request: the verifier reconstructs the entry that was logged, *)
(* and a log entry stands for one certificate.                             *)
(***************************************************************************)
EXTENDS Formats, NameProofs

\* What sequences consist of here: numbers, and whatever a key usage has.
Datum == Nat \cup UNION {{KeyUsageBits(k)[j] : j \in 1 .. 3} : k \in 0 .. 511}
Data == Seq(Datum)

LEMMA NumbersAreData == Nat \subseteq Datum /\ Seq(Nat) \subseteq Data
  <1>1. Nat \subseteq Datum
    BY DEF Datum
  <1>2. ASSUME NEW s \in Seq(Nat) PROVE s \in Data
    BY <1>1, SeqMonotonic DEF Data
  <1> QED
    BY <1>1, <1>2

LEMMA DataAre ==
    ASSUME NEW a \in Data
    PROVE  /\ Len(a) \in Nat /\ a \in Seq(Datum) /\ \A i \in 1 .. Len(a) : a[i] \in Datum
           /\ a \o <<>> = a /\ <<>> \o a = a
  <1>1. a \o <<>> = a /\ <<>> \o a = a
    BY ConcatEmptySeq DEF Data
  <1> QED
    BY <1>1 DEF Data

LEMMA DataConcat ==
    ASSUME NEW a \in Data, NEW b \in Data, NEW p, IsConcat(p, a, b)
    PROVE  /\ p \in Data /\ Len(p) = Len(a) + Len(b)
           /\ \A i \in 1 .. Len(a) : p[i] = a[i]
           /\ \A i \in 1 .. Len(b) : p[Len(a) + i] = b[i]
  <1>1. a \in Seq(Datum) /\ b \in Seq(Datum)
    BY DEF Data
  <1> QED
    BY <1>1, ConcatIs DEF Data

LEMMA DataJoin == \A a, b \in Data : a \o b \in Data
  BY DEF Data

LEMMA DataRegroup == \A a, b, c \in Data : (a \o b) \o c = a \o (b \o c)
  BY ConcatAssociative DEF Data

-----------------------------------------------------------------------------

\* s is an element with these contents and what follows it.
IsElement(s, tag, contents, rest) ==
    /\ Len(s) >= 2 /\ s[1] = tag /\ s[2] = Len(contents) /\ s[2] \in 0 .. Len(s) - 2
    /\ SubSeq(s, 3, 2 + s[2]) = contents /\ SubSeq(s, 3 + s[2], Len(s)) = rest

LEMMA ElementIs ==
    ASSUME NEW tag \in Nat, NEW contents \in Data
    PROVE  Element(tag, contents) \in Data /\ Len(Element(tag, contents)) = 2 + Len(contents)
  <1> DEFINE h == <<tag, Len(contents)>>
  <1>1. Len(contents) \in Nat
    BY DEF Data
  <1>2. h \in Data
    BY <1>1, NumbersAreData DEF Data
  <1>3. Len(h) = 2
    OBVIOUS
  <1> HIDE DEF h
  <1>4. IsConcat(Element(tag, contents), h, contents)
    BY DEF Element, h, IsConcat
  <1>5. /\ Element(tag, contents) \in Data
        /\ Len(Element(tag, contents)) = Len(h) + Len(contents)
    BY <1>2, <1>4, DataConcat
  <1> QED
    BY <1>3, <1>5

LEMMA ElementIsRead ==
    ASSUME NEW tag \in Nat, NEW contents \in Data, NEW rest \in Data
    PROVE  /\ Element(tag, contents) \o rest \in Data
           /\ IsElement(Element(tag, contents) \o rest, tag, contents, rest)
  <1> DEFINE n == Len(contents)
             h == <<tag, n>>
             e == h \o contents
             s == e \o rest
             a == SubSeq(s, 3, 2 + n)
             b == SubSeq(s, 3 + n, Len(s))
  <1>1. n \in Nat /\ Len(rest) \in Nat
    BY DEF Data
  <1>2. Len(h) = 2 /\ h[1] = tag /\ h[2] = n
    BY <1>1
  <1>3. h \in Data
    BY <1>1, NumbersAreData DEF Data
  <1> HIDE DEF h
  <1>4. /\ e \in Data /\ Len(e) = 2 + n /\ e[1] = tag /\ e[2] = n
         /\ \A i \in 1 .. n : e[2 + i] = contents[i]
    <2>1. IsConcat(e, h, contents)
      BY DEF IsConcat
    <2> HIDE DEF e
    <2>2. /\ e \in Data /\ Len(e) = 2 + n
          /\ \A i \in 1 .. 2 : e[i] = h[i]
          /\ \A i \in 1 .. n : e[2 + i] = contents[i]
      <3>1. /\ e \in Data /\ Len(e) = Len(h) + Len(contents)
            /\ \A i \in 1 .. Len(h) : e[i] = h[i]
            /\ \A i \in 1 .. Len(contents) : e[Len(h) + i] = contents[i]
        BY <1>3, <2>1, DataConcat
      <3> QED
        BY <1>2, <3>1 DEF n
    <2>3. 1 \in 1 .. 2 /\ 2 \in 1 .. 2
      OBVIOUS
    <2> QED
      BY <1>2, <2>2, <2>3
  <1> HIDE DEF e
  <1>5. /\ s \in Data /\ Len(s) = (2 + n) + Len(rest) /\ s[1] = tag /\ s[2] = n
        /\ \A i \in 1 .. n : s[2 + i] = contents[i]
        /\ \A i \in 1 .. Len(rest) : s[(2 + n) + i] = rest[i]
    <2>1. IsConcat(s, e, rest)
      BY DEF IsConcat
    <2> HIDE DEF s
    <2>2. /\ s \in Data /\ Len(s) = (2 + n) + Len(rest)
          /\ \A i \in 1 .. 2 + n : s[i] = e[i]
          /\ \A i \in 1 .. Len(rest) : s[(2 + n) + i] = rest[i]
      BY <1>4, <2>1, DataConcat
    <2>3. \A i \in 1 .. n : 2 + i \in 1 .. 2 + n
      BY <1>1
    <2>4. 1 \in 1 .. 2 + n /\ 2 \in 1 .. 2 + n
      BY <1>1
    <2> QED
      BY <1>4, <2>2, <2>3, <2>4
  <1> HIDE DEF s
  <1>6. \A i \in 1 .. Len(s) : s[i] \in Datum
    BY <1>5 DEF Data
  <1>7. a \in Data /\ Len(a) = n /\ \A i \in 1 .. n : a[i] = s[3 + i - 1]
    <2>1. \A i \in 3 .. 2 + n : s[i] \in Datum
      BY <1>1, <1>5, <1>6
    <2>2. /\ a \in Data /\ Len(a) = IF 3 <= 2 + n THEN (2 + n) - 3 + 1 ELSE 0
          /\ \A i \in 1 .. (2 + n) - 3 + 1 : a[i] = s[3 + i - 1]
      BY <1>1, <2>1, SubSeqProperties DEF Data
    <2> HIDE DEF a
    <2> QED
      BY <1>1, <2>2
  <1>8. b \in Data /\ Len(b) = Len(rest) /\ \A i \in 1 .. Len(rest) : b[i] = s[(3 + n) + i - 1]
    <2> DEFINE l == Len(s)
    <2>1. \A i \in 3 + n .. l : s[i] \in Datum
      BY <1>1, <1>5, <1>6
    <2>2. l \in Nat /\ l = (2 + n) + Len(rest)
      BY <1>1, <1>5
    <2>3. /\ b \in Data /\ Len(b) = IF 3 + n <= l THEN l - (3 + n) + 1 ELSE 0
          /\ \A i \in 1 .. l - (3 + n) + 1 : b[i] = s[(3 + n) + i - 1]
      BY <1>1, <2>1, <2>2, SubSeqProperties DEF Data
    <2> HIDE DEF b, l
    <2> QED
      BY <1>1, <2>2, <2>3
  <1> HIDE DEF a, b
  <1>9. a = contents
    <2>1. \A i \in 1 .. n : 3 + i - 1 = 2 + i
      BY <1>1
    <2>2. \A i \in 1 .. n : a[i] = contents[i]
      BY <1>5, <1>7, <2>1
    <2> QED
      BY <1>7, <2>2, SeqEqual DEF Data, n
  <1>10. b = rest
    <2>1. \A i \in 1 .. Len(rest) : (3 + n) + i - 1 = (2 + n) + i
      BY <1>1
    <2>2. \A i \in 1 .. Len(rest) : b[i] = rest[i]
      BY <1>5, <1>8, <2>1
    <2> QED
      BY <1>8, <2>2, SeqEqual DEF Data
  <1>11. Len(s) >= 2 /\ n \in 0 .. Len(s) - 2
    BY <1>1, <1>5
  <1>12. IsElement(s, tag, contents, rest)
    BY <1>5, <1>9, <1>10, <1>11 DEF IsElement, a, b, n
  <1>13. Element(tag, contents) \o rest = s
    BY DEF Element, s, e, h, n
  <1> QED
    BY <1>5, <1>12, <1>13

-----------------------------------------------------------------------------

\* A sequence of elements: tails[i] begins with the i-th one, the last tail is
\* what follows them.
IsChain(tags, pieces, tails) ==
    /\ tags \in Seq(Nat) /\ pieces \in Seq(Data) /\ tails \in Seq(Data)
    /\ Len(pieces) = Len(tags) /\ Len(tails) = Len(tags) + 1
    /\ \A i \in 1 .. Len(tags) : tails[i] = Element(tags[i], pieces[i]) \o tails[i + 1]

\* What has been read after the first i elements.
ReadSoFar(pieces, tails, i) == [ok |-> TRUE, parts |-> SubSeq(pieces, 1, i), rest |-> tails[i + 1]]

\* What reading one more element makes of it.
ReadNext(tag, p) ==
    LET r == p.rest
    IN  IF p.ok /\ Len(r) >= 2 /\ r[1] = tag /\ r[2] \in 0 .. Len(r) - 2
        THEN [ok |-> TRUE, parts |-> Append(p.parts, SubSeq(r, 3, 2 + r[2])),
              rest |-> SubSeq(r, 3 + r[2], Len(r))]
        ELSE Failed

LEMMA PartsSoFar ==
    ASSUME NEW pieces \in Seq(Data), NEW i \in 1 .. Len(pieces)
    PROVE  /\ SubSeq(pieces, 1, 0) = <<>> /\ SubSeq(pieces, 1, Len(pieces)) = pieces
           /\ Append(SubSeq(pieces, 1, i - 1), pieces[i]) = SubSeq(pieces, 1, i)
  <1> DEFINE n == Len(pieces)
             a == SubSeq(pieces, 1, i - 1)
             b == SubSeq(pieces, 1, i)
             c == Append(a, pieces[i])
  <1>1. n \in Nat /\ \A j \in 1 .. n : pieces[j] \in Data
    OBVIOUS
  <1>2. SubSeq(pieces, 1, 0) = <<>> /\ SubSeq(pieces, 1, n) = pieces
    OBVIOUS
  <1>3. a \in Seq(Data) /\ Len(a) = i - 1 /\ \A j \in 1 .. i - 1 : a[j] = pieces[j]
    OBVIOUS
  <1>4. b \in Seq(Data) /\ Len(b) = i /\ \A j \in 1 .. i : b[j] = pieces[j]
    OBVIOUS
  <1> HIDE DEF a, b
  <1>5. /\ c \in Seq(Data) /\ Len(c) = i /\ c[i] = pieces[i]
        /\ \A j \in 1 .. i - 1 : c[j] = pieces[j]
    BY <1>1, <1>3
  <1> HIDE DEF c
  <1>6. \A j \in 1 .. i : c[j] = b[j]
    BY <1>4, <1>5
  <1>7. c = b
    BY <1>4, <1>5, <1>6, SeqEqual
  <1> QED
    BY <1>2, <1>7 DEF a, b, c

LEMMA ElementsAreRead ==
    ASSUME NEW tags, NEW pieces, NEW tails, IsChain(tags, pieces, tails)
    PROVE  ReadElements(tags, tails[1])
             = [ok |-> TRUE, parts |-> pieces, rest |-> tails[Len(tags) + 1]]
  <1> DEFINE n == Len(tags)
             init == [ok |-> TRUE, parts |-> <<>>, rest |-> tails[1]]
             al == CHOOSE al : al = [i \in 0 .. n |->
                      IF i = 0 THEN init ELSE ReadNext(tags[i], al[i - 1])]
             f == [i \in 0 .. n |-> ReadSoFar(pieces, tails, i)]
  <1>1. n \in Nat /\ n = Len(pieces) /\ pieces \in Seq(Data)
    BY DEF IsChain
  <1>2. ReadElements(tags, tails[1]) = al[n]
    BY Zenon DEF ReadElements, ReadNext
  <1>3. f[0] = init
    <2>1. SubSeq(pieces, 1, 0) = <<>> /\ 0 \in 0 .. n /\ 0 + 1 = 1
      BY <1>1
    <2> QED
      BY <2>1, Zenon DEF ReadSoFar
  <1>4. ASSUME NEW i \in 1 .. n PROVE f[i] = ReadNext(tags[i], f[i - 1])
    <2> DEFINE r == tails[i]
               c == pieces[i]
    <2>1. tags[i] \in Nat /\ c \in Data /\ tails[i + 1] \in Data
      BY DEF IsChain
    <2>2. r = Element(tags[i], c) \o tails[i + 1]
      BY DEF IsChain
    <2> HIDE DEF r, c
    <2>3. IsElement(r, tags[i], c, tails[i + 1])
      BY <2>1, <2>2, ElementIsRead
    <2>4. i - 1 \in 0 .. n /\ i \in 0 .. n /\ (i - 1) + 1 = i
      BY <1>1
    <2>5. f[i - 1] = [ok |-> TRUE, parts |-> SubSeq(pieces, 1, i - 1), rest |-> r]
      BY <2>4, Zenon DEF ReadSoFar, r
    <2>6. Append(SubSeq(pieces, 1, i - 1), c) = SubSeq(pieces, 1, i)
      BY <1>1, PartsSoFar DEF c
    <2> DEFINE q == SubSeq(pieces, 1, i - 1)
    <2>7. ReadNext(tags[i], [ok |-> TRUE, parts |-> q, rest |-> r])
            = [ok |-> TRUE, parts |-> Append(q, c), rest |-> tails[i + 1]]
      <3> HIDE DEF q
      <3> QED
        BY <2>3 DEF ReadNext, IsElement
    <2>8. f[i] = [ok |-> TRUE, parts |-> SubSeq(pieces, 1, i), rest |-> tails[i + 1]]
      BY <2>4, Zenon DEF ReadSoFar
    <2> QED
      BY <2>5, <2>6, <2>7, <2>8, Zenon
  <1>5. f = [i \in 0 .. n |-> IF i = 0 THEN init ELSE ReadNext(tags[i], f[i - 1])]
    <2> DEFINE B(i) == IF i = 0 THEN init ELSE ReadNext(tags[i], f[i - 1])
    <2>1. \A i \in 0 .. n : i # 0 => i \in 1 .. n
      BY <1>1
    <2>2. \A i \in 0 .. n : f[i] = B(i)
      BY <1>3, <1>4, <2>1, Zenon
    <2>3. \A i \in 0 .. n : ReadSoFar(pieces, tails, i) = B(i)
      BY <2>2
    <2> HIDE DEF B
    <2>4. [i \in 0 .. n |-> ReadSoFar(pieces, tails, i)] = [i \in 0 .. n |-> B(i)]
      BY <2>3
    <2> QED
      BY <2>4, Zenon DEF B
  <1> HIDE DEF f
  <1>6. al = [i \in 0 .. n |-> IF i = 0 THEN init ELSE ReadNext(tags[i], al[i - 1])]
    BY <1>5
  <1> HIDE DEF al, init
  <1>7. al[0] = f[0] /\ \A i \in 1 .. n : al[i - 1] = f[i - 1] => al[i] = f[i]
    <2>1. 0 \in 0 .. n /\ \A i \in 1 .. n : i # 0 /\ i \in 0 .. n
      BY <1>1
    <2> QED
      BY <1>5, <1>6, <2>1, Zenon
  <1>8. al[n] = f[n]
    <2>1. n \in 0 .. n
      BY <1>1
    <2> QED
      BY <1>1, <1>7, <2>1, StepsUnique
  <1>9. f[n] = [ok |-> TRUE, parts |-> pieces, rest |-> tails[n + 1]]
    <2>1. SubSeq(pieces, 1, n) = pieces /\ n \in 0 .. n
      BY <1>1
    <2> QED
      BY <2>1, Zenon DEF f, ReadSoFar
  <1> QED
    BY <1>2, <1>8, <1>9

LEMMA OnlyElementsAreRead ==
    ASSUME NEW tags, NEW pieces, NEW tails, IsChain(tags, pieces, tails),
           tails[Len(tags) + 1] = <<>>
    PROVE  ReadOnly(tags, tails[1]) = [ok |-> TRUE, parts |-> pieces, rest |-> <<>>]
  <1> DEFINE r == ReadElements(tags, tails[1])
  <1>1. r = [ok |-> TRUE, parts |-> pieces, rest |-> <<>>]
    BY ElementsAreRead
  <1>2. r.ok /\ r.rest = <<>>
    BY <1>1
  <1>3. ReadOnly(tags, tails[1]) = r
    BY <1>2, Zenon DEF ReadOnly
  <1> QED
    BY <1>1, <1>3

LEMMA OneIsRead ==
    ASSUME NEW tag \in Nat, NEW c \in Data, NEW rest \in Data
    PROVE  ReadElements(<<tag>>, Element(tag, c) \o rest)
             = [ok |-> TRUE, parts |-> <<c>>, rest |-> rest]
  <1> DEFINE s == Element(tag, c) \o rest
             tails == <<s, rest>>
             pieces == <<c>>
             tags == <<tag>>
  <1>1. s \in Data
    BY ElementIsRead
  <1> HIDE DEF s
  <1>2. /\ tags \in Seq(Nat) /\ pieces \in Seq(Data) /\ tails \in Seq(Data)
        /\ Len(tags) = 1 /\ Len(pieces) = 1 /\ Len(tails) = 2
        /\ tails[1] = s /\ tails[2] = rest /\ pieces[1] = c /\ tags[1] = tag
    BY <1>1
  <1>3. \A i \in 1 .. 1 : i = 1 /\ i + 1 = 2
    OBVIOUS
  <1> HIDE DEF tails, pieces, tags
  <1>4. \A i \in 1 .. 1 : tails[i] = Element(tags[i], pieces[i]) \o tails[i + 1]
    BY <1>2, <1>3, Zenon DEF s
  <1>5. IsChain(tags, pieces, tails)
    BY <1>2, <1>4 DEF IsChain
  <1>6. ReadElements(tags, tails[1]) = [ok |-> TRUE, parts |-> pieces, rest |-> tails[2]]
    <2>1. ReadElements(tags, tails[1])
            = [ok |-> TRUE, parts |-> pieces, rest |-> tails[Len(tags) + 1]]
      BY <1>5, ElementsAreRead
    <2>2. Len(tags) + 1 = 2
      BY <1>2
    <2> QED
      BY <2>1, <2>2, Zenon
  <1> QED
    BY <1>2, <1>6, Zenon DEF pieces, tags, s

LEMMA OneIsAllRead ==
    ASSUME NEW tag \in Nat, NEW c \in Data
    PROVE  ReadOnly(<<tag>>, Element(tag, c)) = [ok |-> TRUE, parts |-> <<c>>, rest |-> <<>>]
  <1> DEFINE e == Element(tag, c)
             r == ReadElements(<<tag>>, e)
  <1>1. e \in Data
    BY ElementIs
  <1>2. <<>> \in Data
    BY DEF Data
  <1>3. ReadElements(<<tag>>, Element(tag, c) \o <<>>)
          = [ok |-> TRUE, parts |-> <<c>>, rest |-> <<>>]
    BY <1>2, OneIsRead
  <1>4. Element(tag, c) \o <<>> = e
    BY <1>1, DataAre
  <1>5. r = [ok |-> TRUE, parts |-> <<c>>, rest |-> <<>>]
    BY <1>3, <1>4, Zenon
  <1>6. r.ok /\ r.rest = <<>>
    BY <1>5
  <1>7. ReadOnly(<<tag>>, e) = r
    BY <1>6, Zenon DEF ReadOnly
  <1> QED
    BY <1>5, <1>7

\* What can be read begins with an element.
LEMMA ReadIsElement ==
    ASSUME NEW tag \in Nat, NEW s \in Data, ReadElements(<<tag>>, s).ok
    PROVE  \E c \in Data, rest \in Data : s = Element(tag, c) \o rest
  <1> DEFINE init == [ok |-> TRUE, parts |-> <<>>, rest |-> s]
             tags == <<tag>>
             al == CHOOSE al : al = [i \in 0 .. Len(tags) |->
                      IF i = 0 THEN init ELSE ReadNext(tags[i], al[i - 1])]
             f == [i \in 0 .. Len(tags) |->
                      IF i = 0 THEN init ELSE ReadNext(tag, init)]
  <1>1. Len(tags) = 1 /\ tags[1] = tag
    OBVIOUS
  <1>2. ReadElements(tags, s) = al[Len(tags)]
    BY Zenon DEF ReadElements, ReadNext
  <1>3. f = [i \in 0 .. Len(tags) |-> IF i = 0 THEN init ELSE ReadNext(tags[i], f[i - 1])]
    <2> DEFINE A(i) == IF i = 0 THEN init ELSE ReadNext(tag, init)
               B(i) == IF i = 0 THEN init ELSE ReadNext(tags[i], f[i - 1])
    <2>1. f[0] = init
      BY <1>1
    <2>2. \A i \in 0 .. Len(tags) : i # 0 => i = 1 /\ i - 1 = 0
      BY <1>1
    <2> HIDE DEF f, init, tags
    <2>3. \A i \in 0 .. Len(tags) : A(i) = B(i)
      BY <1>1, <2>1, <2>2, Zenon
    <2>4. f = [i \in 0 .. Len(tags) |-> A(i)]
      BY Zenon DEF f
    <2> HIDE DEF A, B
    <2>5. f = [i \in 0 .. Len(tags) |-> B(i)]
      BY <2>3, <2>4, Zenon
    <2> QED
      BY <2>5, Zenon DEF B
  <1> HIDE DEF f
  <1>4. al = [i \in 0 .. Len(tags) |-> IF i = 0 THEN init ELSE ReadNext(tags[i], al[i - 1])]
    BY <1>3
  <1> HIDE DEF al
  <1>5. al[1] = ReadNext(tag, init)
    <2>1. al[0] = init
      BY <1>1, <1>4
    <2>2. 1 \in 0 .. Len(tags) /\ 1 - 1 = 0 /\ 1 # 0
      BY <1>1
    <2> HIDE DEF tags
    <2>3. al[1] = ReadNext(tags[1], al[1 - 1])
      BY <1>4, <2>2, Zenon
    <2> QED
      BY <1>1, <2>1, <2>2, <2>3, Zenon
  <1>6. ReadNext(tag, init).ok
    BY <1>1, <1>2, <1>5
  <1>7. Len(s) >= 2 /\ s[1] = tag /\ s[2] \in 0 .. Len(s) - 2
    BY <1>6 DEF ReadNext, Failed
  <1> DEFINE k == s[2]
             l == Len(s)
             c == SubSeq(s, 3, 2 + k)
             rest == SubSeq(s, 3 + k, l)
             e == Element(tag, c)
             p == e \o rest
  <1>8. /\ l \in Nat /\ k \in Nat /\ k + 2 <= l /\ s \in Seq(Datum)
        /\ \A i \in 1 .. l : s[i] \in Datum
    BY <1>7 DEF Data
  <1> HIDE DEF k, l
  <1>9. c \in Data /\ Len(c) = k /\ \A i \in 1 .. k : c[i] = s[3 + i - 1]
    <2>1. \A i \in 3 .. 2 + k : s[i] \in Datum
      BY <1>8
    <2>2. /\ c \in Data /\ Len(c) = IF 3 <= 2 + k THEN (2 + k) - 3 + 1 ELSE 0
          /\ \A i \in 1 .. (2 + k) - 3 + 1 : c[i] = s[3 + i - 1]
      BY <1>8, <2>1, SubSeqProperties DEF Data
    <2> HIDE DEF c
    <2> QED
      BY <1>8, <2>2
  <1>10. rest \in Data /\ Len(rest) = l - (2 + k) /\ \A i \in 1 .. l - (2 + k) : rest[i] = s[(3 + k) + i - 1]
    <2>1. \A i \in 3 + k .. l : s[i] \in Datum
      BY <1>8
    <2>2. /\ rest \in Data /\ Len(rest) = IF 3 + k <= l THEN l - (3 + k) + 1 ELSE 0
          /\ \A i \in 1 .. l - (3 + k) + 1 : rest[i] = s[(3 + k) + i - 1]
      BY <1>8, <2>1, SubSeqProperties DEF Data
    <2> HIDE DEF rest
    <2> QED
      BY <1>8, <2>2
  <1> HIDE DEF c, rest
  <1> DEFINE h == <<tag, k>>
  <1>11. h \in Data /\ Element(tag, c) = h \o c
    <2>1. tag \in Datum /\ k \in Datum
      BY <1>8, NumbersAreData
    <2> QED
      BY <1>9, <2>1 DEF Element, Data
  <1>12. Len(h) = 2 /\ h[1] = tag /\ h[2] = k
    OBVIOUS
  <1> HIDE DEF h, e
  <1>13. /\ e \in Data /\ Len(e) = Len(h) + Len(c)
         /\ \A i \in 1 .. Len(h) : e[i] = h[i]
         /\ \A i \in 1 .. Len(c) : e[Len(h) + i] = c[i]
    <2>1. IsConcat(e, h, c)
      BY <1>11 DEF IsConcat, e
    <2> QED
      BY <1>9, <1>11, <2>1, DataConcat
  <1>14. /\ p \in Data /\ Len(p) = Len(e) + Len(rest)
         /\ \A i \in 1 .. Len(e) : p[i] = e[i]
         /\ \A i \in 1 .. Len(rest) : p[Len(e) + i] = rest[i]
    <2>1. IsConcat(p, e, rest)
      BY DEF IsConcat
    <2> HIDE DEF p
    <2> QED
      BY <1>10, <1>13, <2>1, DataConcat
  <1> HIDE DEF p
  <1>15. Len(e) = 2 + k /\ Len(p) = l
    BY <1>8, <1>9, <1>10, <1>12, <1>13, <1>14
  <1>16. ASSUME NEW i \in 1 .. l PROVE p[i] = s[i]
    <2>1. CASE i <= 2
      <3>1. i = 1 \/ i = 2
        BY <1>8, <2>1
      <3>2. p[i] = e[i] /\ e[i] = h[i]
        BY <1>8, <1>12, <1>13, <1>14, <1>15, <3>1
      <3>3. s[2] = k /\ s[1] = tag
        BY <1>7 DEF k
      <3> QED
        BY <1>12, <3>1, <3>2, <3>3
    <2>2. CASE i > 2 /\ i <= 2 + k
      <3> DEFINE j == i - 2
      <3>1. j \in 1 .. k /\ 2 + j = i /\ 3 + j - 1 = i /\ i \in 1 .. Len(e)
        BY <1>8, <1>15, <2>2
      <3> HIDE DEF j
      <3>2. p[i] = e[i] /\ e[2 + j] = c[j] /\ c[j] = s[3 + j - 1]
        BY <1>9, <1>12, <1>13, <1>14, <3>1
      <3> QED
        BY <3>1, <3>2
    <2>3. CASE i > 2 + k
      <3> DEFINE j == i - (2 + k)
      <3>1. j \in 1 .. l - (2 + k) /\ (2 + k) + j = i /\ (3 + k) + j - 1 = i
        BY <1>8, <2>3
      <3> HIDE DEF j
      <3>2. p[(2 + k) + j] = rest[j] /\ rest[j] = s[(3 + k) + j - 1]
        BY <1>10, <1>14, <1>15, <3>1
      <3> QED
        BY <3>1, <3>2
    <2> QED
      BY <1>8, <2>1, <2>2, <2>3
  <1>17. p = s
    BY <1>8, <1>14, <1>15, <1>16, SeqEqual DEF Data, l
  <1>18. s = Element(tag, c) \o rest
    BY <1>17 DEF p, e
  <1> QED
    BY <1>9, <1>10, <1>18

-----------------------------------------------------------------------------

LEMMA TagsAreNat ==
    /\ BOOLEAN_TAG \in Nat /\ INTEGER \in Nat /\ BIT_STRING \in Nat /\ OCTET_STRING \in Nat
    /\ OID \in Nat /\ UTF8String \in Nat /\ RELATIVE_OID \in Nat /\ SEQUENCE \in Nat
    /\ SET \in Nat /\ CONTEXT_0 \in Nat /\ CONTEXT_3 \in Nat
  BY DEF BOOLEAN_TAG, INTEGER, BIT_STRING, OCTET_STRING, OID, UTF8String, RELATIVE_OID,
         SEQUENCE, SET, CONTEXT_0, CONTEXT_3

LEMMA OptionalIs ==
    ASSUME NEW c \in BOOLEAN, NEW s \in Data
    PROVE  Optional(c, s) \in Data
  BY NumbersAreData DEF Optional, Data

LEMMA SingleIs == \A n \in Datum : <<n>> \in Data
  BY DEF Data

LEMMA IdentifiersAre == \A n \in Nat : ObjectIdentifier(n) \in Data /\ Integer(n) \in Data
  BY ElementIs, SingleIs, NumbersAreData, TagsAreNat DEF ObjectIdentifier, Integer

LEMMA OIDsAreNat ==
    /\ oidKeyUsage \in Nat /\ oidSubjectAltName \in Nat /\ oidBasicConstraints \in Nat
    /\ oidExtKeyUsage \in Nat /\ oidMTCProofExperiment1 \in Nat /\ oidMTCProof \in Nat
    /\ oidRDNATrustAnchorIDExperiment1 \in Nat /\ oidRDNATrustAnchorIDExperiment2 \in Nat
    /\ oidRDNATrustAnchorID \in Nat
  BY DEF oidKeyUsage, oidSubjectAltName, oidBasicConstraints, oidExtKeyUsage,
         oidMTCProofExperiment1, oidMTCProof, oidRDNATrustAnchorIDExperiment1,
         oidRDNATrustAnchorIDExperiment2, oidRDNATrustAnchorID

LEMMA SinglesJoin ==
    ASSUME NEW x, NEW y, NEW z
    PROVE  <<x>> \o (<<y>> \o <<z>>) = <<x, y, z>> /\ <<x>> \o (<<y>> \o <<>>) = <<x, y>>
  <1> DEFINE S == {x, y, z}
             a == <<x>>
             b == <<y>>
             c == <<z>>
             p == b \o c
             q == a \o p
             r == a \o b
             two == <<x, y>>
             three == <<x, y, z>>
  <1>1. a \in Seq(S) /\ b \in Seq(S) /\ c \in Seq(S)
    OBVIOUS
  <1>2. Len(a) = 1 /\ Len(b) = 1 /\ Len(c) = 1 /\ a[1] = x /\ b[1] = y /\ c[1] = z
    OBVIOUS
  <1>3. /\ two \in Seq(S) /\ Len(two) = 2 /\ two[1] = x /\ two[2] = y
        /\ three \in Seq(S) /\ Len(three) = 3 /\ three[1] = x /\ three[2] = y /\ three[3] = z
    OBVIOUS
  <1> HIDE DEF a, b, c, two, three, S
  <1>4. IsConcat(p, b, c) /\ IsConcat(q, a, p) /\ IsConcat(r, a, b)
    BY DEF IsConcat
  <1> HIDE DEF p, q, r
  <1>5. \A i \in 1 .. 1 : i = 1
    OBVIOUS
  <1>6. p \in Seq(S) /\ Len(p) = 2 /\ p[1] = y /\ p[2] = z
    <2>1. /\ p \in Seq(S) /\ Len(p) = Len(b) + Len(c)
          /\ \A i \in 1 .. Len(b) : p[i] = b[i]
          /\ \A i \in 1 .. Len(c) : p[Len(b) + i] = c[i]
      BY <1>1, <1>4, ConcatIs
    <2> QED
      BY <1>2, <2>1
  <1>7. q \in Seq(S) /\ Len(q) = 3 /\ q[1] = x /\ q[2] = y /\ q[3] = z
    <2>2. p \in Seq(S)
      BY <1>6
    <2>1. /\ q \in Seq(S) /\ Len(q) = Len(a) + Len(p)
          /\ \A i \in 1 .. Len(a) : q[i] = a[i]
          /\ \A i \in 1 .. Len(p) : q[Len(a) + i] = p[i]
      BY <1>1, <1>4, <2>2, ConcatIs
    <2> QED
      BY <1>2, <1>6, <2>1
  <1>8. r \in Seq(S) /\ Len(r) = 2 /\ r[1] = x /\ r[2] = y
    <2>1. /\ r \in Seq(S) /\ Len(r) = Len(a) + Len(b)
          /\ \A i \in 1 .. Len(a) : r[i] = a[i]
          /\ \A i \in 1 .. Len(b) : r[Len(a) + i] = b[i]
      BY <1>1, <1>4, ConcatIs
    <2> QED
      BY <1>2, <2>1
  <1>9. q = three
    BY <1>3, <1>7, SeqEqual
  <1>10. r = two
    BY <1>3, <1>8, SeqEqual
  <1>11. b \o <<>> = b
    BY <1>1, ConcatEmptySeq
  <1> QED
    BY <1>9, <1>10, <1>11, Zenon DEF p, q, r, a, b, c, two, three

LEMMA KeyUsageBitsAre ==
    ASSUME NEW k \in 0 .. 511
    PROVE  KeyUsageBits(k) \in Data
  <1> DEFINE bits(lo) == FoldLeft(LAMBDA n, i : 2 * n + ((k \div 2^(lo + i)) % 2),
                                  0, [i \in 1..8 |-> i - 1])
             length == CHOOSE l \in 0..16 : k < 2^l /\ (l > 0 => k >= 2^(l - 1))
             x == (8 - (length % 8)) % 8
             y == bits(0)
             z == bits(8)
             s == KeyUsageBits(k)
  <1>1. s = <<x>> \o (<<y>> \o Optional(z # 0, <<z>>))
    BY Zenon DEF KeyUsageBits
  <1> HIDE DEF x, y, z
  <1>2. s = <<x, y>> \/ s = <<x, y, z>>
    <2>1. CASE z # 0
      <3>1. Optional(z # 0, <<z>>) = <<z>>
        BY <2>1 DEF Optional
      <3>2. <<x>> \o (<<y>> \o <<z>>) = <<x, y, z>>
        BY SinglesJoin
      <3> QED
        BY <1>1, <3>1, <3>2, Zenon
    <2>2. CASE z = 0
      <3>1. Optional(z # 0, <<z>>) = <<>>
        BY <2>2 DEF Optional
      <3>2. <<x>> \o (<<y>> \o <<>>) = <<x, y>>
        BY SinglesJoin
      <3> QED
        BY <1>1, <3>1, <3>2, Zenon
    <2> QED
      BY <2>1, <2>2
  <1>3. \A j \in 1 .. 3 : s[j] \in Datum
    <2> TAKE j \in 1 .. 3
    <2>1. s[j] \in {KeyUsageBits(k)[i] : i \in 1 .. 3}
      BY Zenon
    <2>2. {KeyUsageBits(k)[i] : i \in 1 .. 3}
             \in {{KeyUsageBits(l)[i] : i \in 1 .. 3} : l \in 0 .. 511}
      BY Zenon
    <2> QED
      BY <2>1, <2>2, Zenon DEF Datum
  <1> HIDE DEF s
  <1>4. s \in Seq(Datum)
    <2>1. CASE s = <<x, y>>
      <3>1. x = s[1] /\ y = s[2]
        BY <2>1
      <3>2. x \in Datum /\ y \in Datum
        BY <1>3, <3>1
      <3> QED
        BY <2>1, <3>2
    <2>2. CASE s = <<x, y, z>>
      <3>1. x = s[1] /\ y = s[2] /\ z = s[3]
        BY <2>2
      <3>2. x \in Datum /\ y \in Datum /\ z \in Datum
        BY <1>3, <3>1
      <3> QED
        BY <2>2, <3>2
    <2> QED
      BY <1>2, <2>1, <2>2
  <1> QED
    BY <1>4 DEF Data, s

\* The contents of a name.
NameContents(v, id) ==
    Element(SET, Element(SEQUENCE, ObjectIdentifier(NameOID(v)) \o
        IF v >= Plants06 THEN Element(RELATIVE_OID, id)
                         ELSE Element(UTF8String, String(id).text)))

LEMMA TextIsData ==
    ASSUME NEW id \in Seq(Byte), String(id).valid
    PROVE  String(id).text \in Data /\ id \in Data
  <1>1. id \in Data
    <2>1. Byte \subseteq Nat
      BY ByteIs
    <2>2. id \in Seq(Nat)
      BY <2>1, SeqMonotonic
    <2> QED
      BY <2>2, NumbersAreData
  <1>2. String(id).text \in Seq(Arc)
    BY IDTexts, Zenon
  <1>3. Arc \subseteq Nat
    BY ArcIsNat
  <1>4. String(id).text \in Seq(Nat)
    BY <1>2, <1>3, SeqMonotonic
  <1> QED
    BY <1>1, <1>4, NumbersAreData

LEMMA NameIs ==
    ASSUME NEW v \in DraftVersion, NEW id \in Seq(Byte), String(id).valid
    PROVE  NameContents(v, id) \in Data /\ X509Name(v, id) = Element(SEQUENCE, NameContents(v, id))
  <1> DEFINE o == ObjectIdentifier(NameOID(v))
             a == Element(RELATIVE_OID, id)
             b == Element(UTF8String, String(id).text)
             c == IF v >= Plants06 THEN a ELSE b
  <1>1. NameOID(v) \in Nat
    BY OIDsAreNat, Zenon DEF NameOID
  <1>2. o \in Data
    BY <1>1, IdentifiersAre
  <1>3. a \in Data /\ b \in Data
    BY TextIsData, ElementIs, TagsAreNat
  <1>4. X509Name(v, id) = Element(SEQUENCE, NameContents(v, id))
    BY DEF X509Name, NameContents, NameOf
  <1> HIDE DEF o, a, b
  <1>5. c \in Data
    BY <1>3
  <1> HIDE DEF c
  <1>6. o \o c \in Data
    BY <1>2, <1>5, DataJoin
  <1>7. Element(SET, Element(SEQUENCE, o \o c)) \in Data
    BY <1>6, ElementIs, TagsAreNat
  <1> QED
    BY <1>4, <1>7 DEF NameContents, o, a, b, c

-----------------------------------------------------------------------------

BaseConfig ==
    [validity : Seq(Nat), keyUsage : 0..511, extKeyUsage : Seq(Nat), dnsNames : Seq(Nat),
     isCA : {<<>>, <<TRUE>>, <<FALSE>>}, maxPathLen : Seq(Nat)]

LEMMA ExtensionIs ==
    ASSUME NEW oid \in Nat, NEW value \in Data
    PROVE  Extension(oid, value) \in Data
  <1> DEFINE o == ObjectIdentifier(oid)
             b == Element(BOOLEAN_TAG, <<1>>)
             s == Element(OCTET_STRING, value)
  <1>1. <<1>> \in Data
    BY SingleIs, NumbersAreData
  <1>2. o \in Data /\ b \in Data /\ s \in Data
    BY <1>1, ElementIs, IdentifiersAre, TagsAreNat
  <1> HIDE DEF o, b, s
  <1>3. (o \o b) \o s \in Data
    BY <1>2, DataJoin
  <1>4. Element(SEQUENCE, (o \o b) \o s) \in Data
    BY <1>3, ElementIs, TagsAreNat
  <1> QED
    BY <1>4 DEF Extension, o, b, s

LEMMA ExtensionsAre ==
    ASSUME NEW base \in BaseConfig, NEW more \in Data
    PROVE  \/ Extensions(base, more) = <<>>
           \/ \E exts \in Data : Extensions(base, more) = Element(CONTEXT_3, Element(SEQUENCE, exts))
  <1> DEFINE k == Extension(oidKeyUsage, Element(BIT_STRING, KeyUsageBits(base.keyUsage)))
             e == Extension(oidExtKeyUsage, Element(SEQUENCE, base.extKeyUsage))
             d == Extension(oidSubjectAltName, Element(SEQUENCE, base.dnsNames))
             t == Element(BOOLEAN_TAG, <<1>>)
             m == Element(INTEGER, base.maxPathLen)
             p == Optional(base.isCA = <<TRUE>>, t)
             q == Optional(base.maxPathLen # <<>>, m)
             b == Extension(oidBasicConstraints, Element(SEQUENCE, p \o q))
             ok == Optional(base.keyUsage # 0, k)
             oe == Optional(base.extKeyUsage # <<>>, e)
             od == Optional(base.dnsNames # <<>>, d)
             ob == Optional(base.isCA # <<>> \/ base.maxPathLen # <<>>, b)
             exts == (((ok \o oe) \o od) \o ob) \o more
  <1>1. /\ base.keyUsage \in 0 .. 511 /\ base.extKeyUsage \in Data /\ base.dnsNames \in Data
        /\ base.maxPathLen \in Data
    BY NumbersAreData DEF BaseConfig
  <1>2. k \in Data
    BY <1>1, KeyUsageBitsAre, ExtensionIs, ElementIs, TagsAreNat, OIDsAreNat
  <1>3. e \in Data /\ d \in Data
    BY <1>1, ExtensionIs, ElementIs, TagsAreNat, OIDsAreNat
  <1>4. t \in Data /\ m \in Data
    BY <1>1, ElementIs, TagsAreNat, SingleIs, NumbersAreData
  <1> HIDE DEF k, e, d, t, m
  <1>5. p \in Data /\ q \in Data
    BY <1>4, OptionalIs
  <1> HIDE DEF p, q
  <1>6. b \in Data
    BY <1>5, DataJoin, ExtensionIs, ElementIs, TagsAreNat, OIDsAreNat
  <1> HIDE DEF b
  <1>7. ok \in Data /\ oe \in Data /\ od \in Data /\ ob \in Data
    BY <1>2, <1>3, <1>6, OptionalIs
  <1> HIDE DEF ok, oe, od, ob
  <1>8. exts \in Data
    <2>1. ok \o oe \in Data
      BY <1>7, DataJoin
    <2>2. (ok \o oe) \o od \in Data
      BY <1>7, <2>1, DataJoin
    <2>3. ((ok \o oe) \o od) \o ob \in Data
      BY <1>7, <2>2, DataJoin
    <2> QED
      BY <2>3, DataJoin
  <1>9. Extensions(base, more) = Optional(exts # <<>>, Element(CONTEXT_3, Element(SEQUENCE, exts)))
    BY Zenon DEF Extensions, exts, ok, oe, od, ob, b, p, q, k, e, d, t, m
  <1> HIDE DEF exts
  <1> QED
    BY <1>8, <1>9 DEF Optional

LEMMA PlaceIs ==
    /\ Place \in [Nat -> Nat \ {0}] /\ Place[0] = 1 /\ Place[1] = 2 * Base
    /\ Place[2] = (2 * Base) * (2 * Base)
  <1> DEFINE G == [x \in Nat \X (Nat \ {0}) |-> 2 * Base * x[2]]
  <1>1. Base \in Nat \ {0}
    BY WidthAssumption
  <1>2. \A x \in Nat \ {0} : 2 * Base * x \in Nat \ {0}
    <2> TAKE x \in Nat \ {0}
    <2>1. 2 * Base \in Nat \ {0}
      BY <1>1
    <2> DEFINE b == 2 * Base
    <2> HIDE DEF b
    <2>2. \A c \in Nat \ {0} : c * x \in Nat \ {0}
      OBVIOUS
    <2> QED
      BY <2>1, <2>2
  <1>3. G \in [Nat \X (Nat \ {0}) -> Nat \ {0}] /\ 1 \in Nat \ {0}
    BY <1>2
  <1>4. \A n \in Nat, x \in Nat \ {0} : G[<<n, x>>] = 2 * Base * x
    OBVIOUS
  <1> HIDE DEF G
  <1>5. PICK f : IsStepwise(Nat \ {0}, 1, G, f)
    BY <1>3, StepsExist
  <1>6. /\ f \in [Nat -> Nat \ {0}] /\ f[0] = 1
        /\ \A n \in Nat \ {0} : f[n] = G[<<n, f[n - 1]>>]
    BY <1>5 DEF IsStepwise
  <1>7. ASSUME NEW k \in Nat PROVE f[k] = IF k = 0 THEN 1 ELSE 2 * Base * f[k - 1]
    <2>1. k # 0 => k - 1 \in Nat
      OBVIOUS
    <2>2. k # 0 => f[k - 1] \in Nat \ {0}
      BY <1>6, <2>1
    <2> QED
      BY <1>4, <1>6, <2>2
  <1>8. f = [k \in Nat |-> IF k = 0 THEN 1 ELSE 2 * Base * f[k - 1]]
    BY <1>6, <1>7
  <1>9. Place = [k \in Nat |-> IF k = 0 THEN 1 ELSE 2 * Base * Place[k - 1]]
    BY <1>8 DEF Place
  <1>10. ASSUME NEW k \in Nat PROVE Place[k] \in Nat \ {0}
    <2> DEFINE S == {i \in Nat : Place[i] \in Nat \ {0}}
    <2>1. 0 \in S
      BY <1>9
    <2>2. ASSUME NEW i \in Nat, i \in S PROVE i + 1 \in S
      <3>1. i + 1 \in Nat /\ i + 1 # 0 /\ (i + 1) - 1 = i
        OBVIOUS
      <3>2. Place[i + 1] = 2 * Base * Place[i]
        BY <1>9, <3>1
      <3> QED
        BY <1>2, <2>2, <3>2
    <2> HIDE DEF S
    <2>3. Nat \subseteq S
      BY <2>1, <2>2, NatInductionOnSets
    <2> QED
      BY <2>3 DEF S
  <1>11. Place[0] = 1 /\ Place[1] = 2 * Base * Place[0] /\ Place[2] = 2 * Base * Place[1]
    BY <1>9
  <1>12. Place[1] = 2 * Base /\ Place[2] = (2 * Base) * (2 * Base)
    <2> DEFINE b == 2 * Base
    <2>1. b \in Nat
      BY <1>1
    <2>2. b * 1 = b
      BY <2>1
    <2> HIDE DEF b
    <2>3. Place[1] = b * Place[0] /\ Place[2] = b * Place[1]
      BY <1>11 DEF b
    <2> QED
      BY <1>11, <2>2, <2>3 DEF b
  <1>13. Place \in [Nat -> Nat \ {0}]
    BY <1>9, <1>10
  <1> QED
    BY <1>11, <1>12, <1>13

LEMMA BigEndianIs ==
    ASSUME NEW width \in Nat, NEW n \in Nat
    PROVE  /\ BigEndian(width, n) \in Seq(Nat) /\ BigEndian(width, n) \in Data
           /\ Len(BigEndian(width, n)) = width
  <1>1. 2 * Base \in Nat \ {0}
    BY WidthAssumption
  <1>2. ASSUME NEW i \in 1 .. width PROVE (n \div Place[width - i]) % (2 * Base) \in Nat
    <2>1. width - i \in Nat
      OBVIOUS
    <2> DEFINE p == Place[width - i]
               q == n \div p
               b == 2 * Base
    <2>2. p \in Nat \ {0}
      BY <2>1, PlaceIs
    <2>5. b \in Nat \ {0}
      BY <1>1
    <2> HIDE DEF p, b
    <2>3. q \in Nat
      BY <2>2, DivMod
    <2> HIDE DEF q
    <2>4. q % b \in Nat
      BY <2>3, <2>5, DivMod
    <2> QED
      BY <2>4 DEF q, p, b
  <1>3. BigEndian(width, n) \in Seq(Nat) /\ Len(BigEndian(width, n)) = width
    BY <1>2 DEF BigEndian
  <1> QED
    BY <1>3, NumbersAreData

LEMMA VectorIs ==
    ASSUME NEW width \in Nat, NEW c \in Data
    PROVE  Vector(width, c) \in Data
  <1> DEFINE n == Len(c)
             h == BigEndian(width, n)
  <1>1. n \in Nat
    BY DataAre
  <1> HIDE DEF n
  <1>2. h \in Data
    BY <1>1, BigEndianIs
  <1> HIDE DEF h
  <1>3. h \o c \in Data
    BY <1>2, DataJoin
  <1> QED
    BY <1>3 DEF Vector, h, n

Cosignatures == [cosignerID : Seq(Nat), signature : Seq(Nat)]

LEMMA SignatureAppended ==
    ASSUME NEW s \in Data, NEW c \in Cosignatures
    PROVE  appendMTCSignature(s, c) \in Data
  <1> DEFINE a == Vector(1, c.cosignerID)
             b == Vector(2, c.signature)
  <1>1. c.cosignerID \in Data /\ c.signature \in Data
    BY NumbersAreData DEF Cosignatures
  <1>2. a \in Data /\ b \in Data
    BY <1>1, VectorIs
  <1> HIDE DEF a, b
  <1>3. s \o a \in Data
    BY <1>2, DataJoin
  <1>4. (s \o a) \o b \in Data
    BY <1>2, <1>3, DataJoin
  <1> QED
    BY <1>4 DEF appendMTCSignature, a, b

LEMMA SignaturesAre ==
    ASSUME NEW sigs \in Seq(Cosignatures)
    PROVE  AppendAll(appendMTCSignature, sigs) \in Data
  <1> DEFINE n == Len(sigs)
             al == CHOOSE al : al = [i \in 0 .. n |->
                      IF i = 0 THEN <<>> ELSE appendMTCSignature(al[i - 1], sigs[i])]
             G == [x \in Nat \X Data |->
                      IF x[1] \in 1 .. n THEN appendMTCSignature(x[2], sigs[x[1]]) ELSE x[2]]
  <1>1. AppendAll(appendMTCSignature, sigs) = al[n]
    BY DEF AppendAll
  <1>2. n \in Nat /\ \A i \in 1 .. n : sigs[i] \in Cosignatures
    OBVIOUS
  <1>3. <<>> \in Data
    BY DEF Data
  <1>4. G \in [Nat \X Data -> Data]
    BY <1>2, SignatureAppended
  <1>5. \A i \in 1 .. n, s \in Data : G[<<i, s>>] = appendMTCSignature(s, sigs[i])
    BY <1>2
  <1> HIDE DEF G
  <1>6. PICK g : IsStepwise(Data, <<>>, G, g)
    BY <1>3, <1>4, StepsExist
  <1>7. /\ g \in [Nat -> Data] /\ g[0] = <<>>
        /\ \A i \in Nat \ {0} : g[i] = G[<<i, g[i - 1]>>]
    BY <1>6 DEF IsStepwise
  <1> DEFINE f == [i \in 0 .. n |-> g[i]]
  <1>8. \A i \in 0 .. n : f[i] = IF i = 0 THEN <<>> ELSE appendMTCSignature(f[i - 1], sigs[i])
    <2> TAKE i \in 0 .. n
    <2>1. CASE i = 0
      BY <1>2, <1>7, <2>1
    <2>2. CASE i # 0
      <3>1. i \in 1 .. n /\ i \in Nat \ {0} /\ i - 1 \in 0 .. n /\ i - 1 \in Nat
        BY <1>2, <2>2
      <3>2. g[i - 1] \in Data /\ g[i] = G[<<i, g[i - 1]>>] /\ f[i] = g[i] /\ f[i - 1] = g[i - 1]
        BY <1>7, <3>1
      <3>3. f[i] = appendMTCSignature(f[i - 1], sigs[i])
        BY <1>5, <3>1, <3>2
      <3> QED
        BY <2>2, <3>3
    <2> QED
      BY <2>1, <2>2
  <1>9. f = [i \in 0 .. n |-> IF i = 0 THEN <<>> ELSE appendMTCSignature(f[i - 1], sigs[i])]
    <2> DEFINE B(i) == IF i = 0 THEN <<>> ELSE appendMTCSignature(f[i - 1], sigs[i])
    <2>1. \A i \in 0 .. n : f[i] = B(i)
      BY <1>8, Zenon
    <2>2. \A i \in 0 .. n : g[i] = B(i)
      BY <2>1
    <2> HIDE DEF B
    <2>3. [i \in 0 .. n |-> g[i]] = [i \in 0 .. n |-> B(i)]
      BY <2>2, Zenon
    <2> QED
      BY <2>3, Zenon DEF B
  <1>10. \A i \in 0 .. n : f[i] \in Data
    BY <1>7
  <1> HIDE DEF f
  <1>11. al = [i \in 0 .. n |-> IF i = 0 THEN <<>> ELSE appendMTCSignature(al[i - 1], sigs[i])]
    BY <1>9
  <1> HIDE DEF al
  <1>12. al[0] = f[0] /\ \A i \in 1 .. n : al[i - 1] = f[i - 1] => al[i] = f[i]
    <2>1. 0 \in 0 .. n /\ \A i \in 1 .. n : i # 0 /\ i \in 0 .. n
      BY <1>2
    <2> QED
      BY <1>9, <1>11, <2>1, Zenon
  <1>13. n \in 0 .. n
    BY <1>2
  <1>14. al[n] = f[n]
    BY <1>2, <1>12, <1>13, StepsUnique
  <1> QED
    BY <1>1, <1>10, <1>13, <1>14

LEMMA MTCProofIs ==
    ASSUME NEW v \in DraftVersion,
           NEW pr, pr.entryExts \in Seq(Nat), pr.start \in Nat, pr.end \in Nat,
           pr.inclusionProof \in Seq(Nat), pr.signatures \in Seq(Cosignatures)
    PROVE  MTCProof(v, pr) \in Data
  <1> DEFINE w == IF v >= Plants04 THEN 6 ELSE 8
             a == MTCEntryExtensions(v, pr.entryExts)
             b == BigEndian(w, pr.start)
             c == BigEndian(w, pr.end)
             d == Vector(2, pr.inclusionProof)
             s == AppendAll(appendMTCSignature, pr.signatures)
             e == MTCProofSignatures(v, s)
  <1>2. a \in Data
    <2>1. pr.entryExts \in Data
      BY NumbersAreData
    <2>2. Vector(2, pr.entryExts) \in Data
      BY <2>1, VectorIs
    <2>3. <<>> \in Data
      BY DEF Data
    <2> QED
      BY <2>2, <2>3, Zenon DEF MTCEntryExtensions, Optional
  <1>3. w \in Nat
    OBVIOUS
  <1> HIDE DEF w
  <1>4. b \in Data /\ c \in Data
    BY <1>3, BigEndianIs
  <1>5. d \in Data
    BY NumbersAreData, VectorIs
  <1>6. s \in Data
    BY SignaturesAre
  <1> HIDE DEF s
  <1>7. e \in Data
    BY <1>6, VectorIs DEF MTCProofSignatures
  <1> HIDE DEF a, b, c, d, e
  <1>8. a \o b \in Data
    BY <1>2, <1>4, DataJoin
  <1>9. (a \o b) \o c \in Data
    BY <1>4, <1>8, DataJoin
  <1>10. ((a \o b) \o c) \o d \in Data
    BY <1>5, <1>9, DataJoin
  <1>11. (((a \o b) \o c) \o d) \o e \in Data
    BY <1>7, <1>10, DataJoin
  <1>12. MTCProof(v, pr) = (((a \o b) \o c) \o d) \o e
    BY DEF MTCProof, a, b, c, d, e, s, w
  <1> QED
    BY <1>11, <1>12

-----------------------------------------------------------------------------

\* One after the other, whatever that means.
Then(a, b) == a \o b

LEMMA ThenIs ==
    /\ \A a, b \in Data : Then(a, b) \in Data
    /\ \A a, b, c \in Data : Then(Then(a, b), c) = Then(a, Then(b, c))
  BY DataJoin, DataRegroup, Zenon DEF Then

LEMMA ThenFour ==
    \A a, b, c, d \in Data :
        Then(Then(Then(a, b), c), d) = Then(a, Then(b, Then(c, d)))
  BY ThenIs

\* Eight from the left, and from the right.
FromLeft(s, a, b, c, d, e, f, g, h) ==
    s = Then(Then(Then(Then(Then(Then(Then(a, b), c), d), e), f), g), h)

FromRight(s, a, b, c, d, e, f, g, h) ==
    s = Then(a, Then(b, Then(c, Then(d, Then(e, Then(f, Then(g, h)))))))

LEMMA ThenEight ==
    ASSUME NEW a \in Data, NEW b \in Data, NEW c \in Data, NEW d \in Data, NEW e \in Data,
           NEW f \in Data, NEW g \in Data, NEW h \in Data,
           NEW s, FromLeft(s, a, b, c, d, e, f, g, h)
    PROVE  FromRight(s, a, b, c, d, e, f, g, h)
  <1> DEFINE p == Then(Then(Then(a, b), c), d)
             q == Then(f, Then(g, h))
             r == Then(e, q)
  <1>1. p \in Data /\ q \in Data /\ r \in Data
    BY ThenIs
  <1>2. p = Then(a, Then(b, Then(c, d)))
    BY ThenFour
  <1>3. Then(Then(Then(Then(p, e), f), g), h) = Then(p, r)
    <2> HIDE DEF p
    <2>1. Then(p, e) \in Data
      BY <1>1, ThenIs
    <2>2. Then(Then(Then(Then(p, e), f), g), h) = Then(Then(p, e), q)
      BY <2>1, ThenFour
    <2> QED
      BY <1>1, <2>2, ThenIs
  <1>4. Then(p, r) = Then(a, Then(b, Then(c, Then(d, r))))
    <2> HIDE DEF r
    <2>1. Then(Then(a, b), c) \in Data /\ Then(a, b) \in Data /\ Then(d, r) \in Data
      BY <1>1, ThenIs
    <2>2. Then(p, r) = Then(Then(Then(a, b), c), Then(d, r))
      BY <1>1, <2>1, ThenIs
    <2>3. Then(Then(Then(a, b), c), Then(d, r)) = Then(a, Then(b, Then(c, Then(d, r))))
      BY <2>1, ThenFour
    <2> QED
      BY <2>2, <2>3
  <1> QED
    BY <1>3, <1>4 DEF FromLeft, FromRight

-----------------------------------------------------------------------------

\* The parts of a certificate for r whose key has the contents k.
Identifier(v) == ObjectIdentifier(IF v >= Plants07 THEN oidMTCProof ELSE oidMTCProofExperiment1)

CertTags == <<CONTEXT_0, INTEGER, SEQUENCE, SEQUENCE, SEQUENCE, SEQUENCE, SEQUENCE>>

CertParts(r, k) ==
    <<Integer(2), <<r.serial>>, Identifier(r.version), NameContents(r.version, r.issuer),
      r.entry.base.validity, r.entry.subject, k>>

CertRest(r) == Extensions(r.entry.base, <<>>)

\* What the TBSCertificate consists of.
TBSOf(r) ==
    addX509V3Version \o Integer(r.serial) \o MTCProofSigAlg(r.version)
    \o X509Name(r.version, r.issuer) \o Validity(r.entry.base)
    \o Element(SEQUENCE, r.entry.subject) \o r.entry.publicKey \o CertRest(r)

LEMMA RequestIs ==
    ASSUME NEW r \in Requests
    PROVE  /\ r.version \in DraftVersion /\ r.issuer \in Seq(Byte) /\ String(r.issuer).valid
           /\ r.serial \in Nat /\ r.unused \in Nat /\ r.entry \in EntryConfig
           /\ r.entry.base \in BaseConfig /\ r.entry.base.validity \in Data
           /\ r.entry.subject \in Data /\ r.entry.publicKey \in Data
           /\ r.entry.mtcEntryExtensions \in Seq(Nat) /\ r.entry.mtcEntryExtensions \in Data
           /\ MTCProof(r.version, ProofOf(r)) \in Data
  <1>1. /\ r.version \in DraftVersion /\ r.issuer \in Seq(Byte) /\ String(r.issuer).valid
        /\ r.serial \in Nat /\ r.unused \in Nat /\ r.entry \in EntryConfig
        /\ r.proof.start \in Nat /\ r.proof.end \in Nat
        /\ r.proof.inclusionProof \in Seq(Nat)
        /\ r.proof.signatures \in Seq([cosignerID : Seq(Nat), signature : Seq(Nat)])
    BY FormatAssumption
  <1>2. /\ r.entry.base \in BaseConfig /\ r.entry.subject \in Seq(Nat)
        /\ r.entry.publicKey \in Seq(Nat) /\ r.entry.mtcEntryExtensions \in Seq(Nat)
    BY <1>1 DEF EntryConfig, BaseConfig
  <1>3. r.entry.base.validity \in Seq(Nat)
    BY <1>2 DEF BaseConfig
  <1> DEFINE p == ProofOf(r)
  <1>4. /\ p.entryExts \in Seq(Nat) /\ p.start \in Nat /\ p.end \in Nat
        /\ p.inclusionProof \in Seq(Nat) /\ p.signatures \in Seq(Cosignatures)
    BY <1>1, <1>2 DEF ProofOf, Cosignatures
  <1> HIDE DEF p
  <1>5. MTCProof(r.version, p) \in Data
    BY <1>1, <1>4, MTCProofIs
  <1> QED
    BY <1>1, <1>2, <1>3, <1>5, NumbersAreData DEF p

LEMMA CertificateIsChain ==
    ASSUME NEW r \in Requests, NEW k \in Data, r.entry.publicKey = Element(SEQUENCE, k)
    PROVE  \E tails : /\ IsChain(CertTags, CertParts(r, k), tails)
                      /\ tails[1] = TBSOf(r) /\ tails[8] = CertRest(r)
  <1> DEFINE e1 == addX509V3Version
             e2 == Integer(r.serial)
             e3 == MTCProofSigAlg(r.version)
             e4 == X509Name(r.version, r.issuer)
             e5 == Validity(r.entry.base)
             e6 == Element(SEQUENCE, r.entry.subject)
             e7 == Element(SEQUENCE, k)
             t8 == CertRest(r)
             t7 == Then(e7, t8)
             t6 == Then(e6, t7)
             t5 == Then(e5, t6)
             t4 == Then(e4, t5)
             t3 == Then(e3, t4)
             t2 == Then(e2, t3)
             t1 == Then(e1, t2)
             p == CertParts(r, k)
             tags == CertTags
             tails == <<t1, t2, t3, t4, t5, t6, t7, t8>>
  <1>1. Identifier(r.version) \in Data
    BY OIDsAreNat, IdentifiersAre DEF Identifier
  <1>2. NameContents(r.version, r.issuer) \in Data /\ e4 = Element(SEQUENCE, NameContents(r.version, r.issuer))
    BY RequestIs, NameIs
  <1>3. <<r.serial>> \in Data /\ Integer(2) \in Data
    BY RequestIs, SingleIs, NumbersAreData, IdentifiersAre
  <1>4. t8 \in Data
    <2>1. <<>> \in Data
      BY DEF Data
    <2>2. r.entry.base \in BaseConfig
      BY RequestIs
    <2> QED
      BY <2>1, <2>2, ExtensionsAre, ElementIs, TagsAreNat DEF CertRest
  <1>5. /\ e1 = Element(CONTEXT_0, Integer(2)) /\ e2 = Element(INTEGER, <<r.serial>>)
        /\ e3 = Element(SEQUENCE, Identifier(r.version))
        /\ e5 = Element(SEQUENCE, r.entry.base.validity)
    BY DEF addX509V3Version, Integer, MTCProofSigAlg, Identifier, Validity
  <1>6. r.entry.base.validity \in Data /\ r.entry.subject \in Data
    BY RequestIs
  <1>7. /\ e1 \in Data /\ e2 \in Data /\ e3 \in Data /\ e4 \in Data /\ e5 \in Data
        /\ e6 \in Data /\ e7 \in Data
    BY <1>1, <1>2, <1>3, <1>5, <1>6, ElementIs, TagsAreNat
  <1>8. TBSOf(r) = Then(Then(Then(Then(Then(Then(Then(e1, e2), e3), e4), e5), e6), e7), t8)
    BY Zenon DEF TBSOf, Then
  <1> HIDE DEF e1, e2, e3, e4, e5, e6, e7, t8
  <1>9. TBSOf(r) = t1
    <2>1. FromLeft(TBSOf(r), e1, e2, e3, e4, e5, e6, e7, t8)
      BY <1>8 DEF FromLeft
    <2>2. FromRight(TBSOf(r), e1, e2, e3, e4, e5, e6, e7, t8)
      BY <1>4, <1>7, <2>1, ThenEight
    <2> QED
      BY <2>2 DEF FromRight
  <1>10. /\ t1 \in Data /\ t2 \in Data /\ t3 \in Data /\ t4 \in Data /\ t5 \in Data
         /\ t6 \in Data /\ t7 \in Data
    BY <1>4, <1>7, ThenIs
  <1>11. /\ t1 = e1 \o t2 /\ t2 = e2 \o t3 /\ t3 = e3 \o t4 /\ t4 = e4 \o t5
         /\ t5 = e5 \o t6 /\ t6 = e6 \o t7 /\ t7 = e7 \o t8
    BY Zenon DEF Then
  <1> HIDE DEF t1, t2, t3, t4, t5, t6, t7
  <1>12. /\ tails \in Seq(Data) /\ Len(tails) = 8
         /\ tails[1] = t1 /\ tails[2] = t2 /\ tails[3] = t3 /\ tails[4] = t4
         /\ tails[5] = t5 /\ tails[6] = t6 /\ tails[7] = t7 /\ tails[8] = t8
    BY <1>4, <1>10
  <1> HIDE DEF tails
  <1>13. /\ p \in Seq(Data) /\ Len(p) = 7
         /\ p[1] = Integer(2) /\ p[2] = <<r.serial>> /\ p[3] = Identifier(r.version)
         /\ p[4] = NameContents(r.version, r.issuer) /\ p[5] = r.entry.base.validity
         /\ p[6] = r.entry.subject /\ p[7] = k
    <2> DEFINE x1 == Integer(2)
               x2 == <<r.serial>>
               x3 == Identifier(r.version)
               x4 == NameContents(r.version, r.issuer)
               x5 == r.entry.base.validity
               x6 == r.entry.subject
               s == <<x1, x2, x3, x4, x5, x6, k>>
    <2>1. x1 \in Data /\ x2 \in Data /\ x3 \in Data /\ x4 \in Data /\ x5 \in Data /\ x6 \in Data
      BY <1>1, <1>2, <1>3, <1>6
    <2>2. p = s
      BY DEF CertParts
    <2> HIDE DEF x1, x2, x3, x4, x5, x6, p
    <2>3. /\ s \in Seq(Data) /\ Len(s) = 7 /\ s[1] = x1 /\ s[2] = x2 /\ s[3] = x3 /\ s[4] = x4
          /\ s[5] = x5 /\ s[6] = x6 /\ s[7] = k
      BY <2>1
    <2> QED
      BY <2>2, <2>3 DEF x1, x2, x3, x4, x5, x6
  <1>14. /\ tags \in Seq(Nat) /\ Len(tags) = 7 /\ tags[1] = CONTEXT_0 /\ tags[2] = INTEGER
         /\ tags[3] = SEQUENCE /\ tags[4] = SEQUENCE /\ tags[5] = SEQUENCE
         /\ tags[6] = SEQUENCE /\ tags[7] = SEQUENCE
    BY TagsAreNat DEF CertTags
  <1> HIDE DEF p, tags
  <1>15. ASSUME NEW i \in 1 .. 7
         PROVE  tails[i] = Element(tags[i], p[i]) \o tails[i + 1]
    <2>8. /\ 1 + 1 = 2 /\ 2 + 1 = 3 /\ 3 + 1 = 4 /\ 4 + 1 = 5 /\ 5 + 1 = 6 /\ 6 + 1 = 7 /\ 7 + 1 = 8
          /\ (i = 1 \/ i = 2 \/ i = 3 \/ i = 4 \/ i = 5 \/ i = 6 \/ i = 7)
      OBVIOUS
    <2>1. CASE i = 1
      BY <1>5, <1>11, <1>12, <1>13, <1>14, <2>1, <2>8, Zenon
    <2>2. CASE i = 2
      BY <1>5, <1>11, <1>12, <1>13, <1>14, <2>2, <2>8, Zenon
    <2>3. CASE i = 3
      BY <1>5, <1>11, <1>12, <1>13, <1>14, <2>3, <2>8, Zenon
    <2>4. CASE i = 4
      BY <1>2, <1>11, <1>12, <1>13, <1>14, <2>4, <2>8, Zenon
    <2>5. CASE i = 5
      BY <1>5, <1>11, <1>12, <1>13, <1>14, <2>5, <2>8, Zenon
    <2>6. CASE i = 6
      BY <1>11, <1>12, <1>13, <1>14, <2>6, <2>8, Zenon DEF e6
    <2>7. CASE i = 7
      BY <1>11, <1>12, <1>13, <1>14, <2>7, <2>8, Zenon DEF e7
    <2> QED
      BY <2>1, <2>2, <2>3, <2>4, <2>5, <2>6, <2>7, <2>8, Zenon
  <1>16. IsChain(tags, p, tails)
    <2>1. Len(p) = Len(tags) /\ Len(tails) = Len(tags) + 1
      BY <1>12, <1>13, <1>14
    <2>2. \A i \in 1 .. Len(tags) : tails[i] = Element(tags[i], p[i]) \o tails[i + 1]
      BY <1>14, <1>15, Zenon
    <2> QED
      BY <1>12, <1>13, <1>14, <2>1, <2>2, Zenon DEF IsChain
  <1> QED
    BY <1>9, <1>12, <1>16 DEF p, tags, t8

\* With and without the version, as the readers put the tags together.
TagsAfterVersion == <<INTEGER, SEQUENCE, SEQUENCE, SEQUENCE, SEQUENCE, SEQUENCE>>

LEMMA TagsJoin ==
    /\ <<CONTEXT_0>> \o TagsAfterVersion = CertTags
    /\ <<>> \o TagsAfterVersion = TagsAfterVersion
    /\ TagsAfterVersion \in Seq(Nat) /\ Len(TagsAfterVersion) = 6
    /\ CertTags \in Seq(Nat) /\ Len(CertTags) = 7 /\ CertTags[1] = CONTEXT_0
    /\ \A i \in 1 .. 6 : CertTags[1 + i] = TagsAfterVersion[i]
  <1> DEFINE a == <<CONTEXT_0>>
             t == TagsAfterVersion
             u == CertTags
             p == a \o t
  <1>1. a \in Seq(Nat) /\ Len(a) = 1 /\ a[1] = CONTEXT_0
    BY TagsAreNat
  <1>2. /\ t \in Seq(Nat) /\ Len(t) = 6 /\ t[1] = INTEGER /\ t[2] = SEQUENCE /\ t[3] = SEQUENCE
        /\ t[4] = SEQUENCE /\ t[5] = SEQUENCE /\ t[6] = SEQUENCE
    BY TagsAreNat DEF TagsAfterVersion
  <1>3. /\ u \in Seq(Nat) /\ Len(u) = 7 /\ u[1] = CONTEXT_0 /\ u[2] = INTEGER
        /\ u[3] = SEQUENCE /\ u[4] = SEQUENCE /\ u[5] = SEQUENCE
        /\ u[6] = SEQUENCE /\ u[7] = SEQUENCE
    BY TagsAreNat DEF CertTags
  <1>4. IsConcat(p, a, t)
    BY DEF IsConcat
  <1> HIDE DEF a, t, u, p
  <1>5. \A i \in 1 .. 6 : u[1 + i] = t[i]
    <2> TAKE i \in 1 .. 6
    <2>1. i = 1 \/ i = 2 \/ i = 3 \/ i = 4 \/ i = 5 \/ i = 6
      OBVIOUS
    <2> QED
      BY <1>2, <1>3, <2>1
  <1>6. /\ p \in Seq(Nat) /\ Len(p) = Len(a) + Len(t)
        /\ \A i \in 1 .. Len(a) : p[i] = a[i]
        /\ \A i \in 1 .. Len(t) : p[Len(a) + i] = t[i]
    <2>1. a \in Seq(Nat) /\ t \in Seq(Nat)
      BY <1>1, <1>2
    <2> QED
      BY <1>4, <2>1, ConcatIs
  <1>7. Len(p) = 7 /\ p[1] = CONTEXT_0 /\ \A i \in 1 .. 6 : p[1 + i] = t[i]
    BY <1>1, <1>2, <1>6
  <1>8. \A i \in 1 .. 7 : p[i] = u[i]
    <2> TAKE i \in 1 .. 7
    <2>1. i = 1 \/ (i - 1 \in 1 .. 6 /\ 1 + (i - 1) = i)
      OBVIOUS
    <2> QED
      BY <1>3, <1>5, <1>7, <2>1
  <1>9. p = u
    BY <1>3, <1>6, <1>7, <1>8, SeqEqual
  <1>10. <<>> \o t = t
    BY <1>2, ConcatEmptySeq
  <1> QED
    BY <1>2, <1>3, <1>5, <1>9, <1>10, Zenon DEF p, a, t, u

LEMMA FieldsAreRead ==
    ASSUME NEW r \in Requests, NEW k \in Data, r.entry.publicKey = Element(SEQUENCE, k)
    PROVE  /\ TBSOf(r) \in Data /\ CertRest(r) \in Data
           /\ Len(TBSOf(r)) > 0 /\ TBSOf(r)[1] = CONTEXT_0
           /\ ReadElements(CertTags, TBSOf(r))
                = [ok |-> TRUE, parts |-> CertParts(r, k), rest |-> CertRest(r)]
  <1> DEFINE t == TBSOf(r)
             p == CertParts(r, k)
  <1>1. PICK tails : /\ IsChain(CertTags, p, tails)
                     /\ tails[1] = t /\ tails[8] = CertRest(r)
    BY CertificateIsChain
  <1> HIDE DEF t, p
  <1>2. Len(CertTags) = 7 /\ CertTags[1] = CONTEXT_0
    BY TagsJoin
  <1>3. ReadElements(CertTags, t) = [ok |-> TRUE, parts |-> p, rest |-> CertRest(r)]
    <2>1. ReadElements(CertTags, tails[1])
            = [ok |-> TRUE, parts |-> p, rest |-> tails[Len(CertTags) + 1]]
      BY <1>1, ElementsAreRead
    <2>2. Len(CertTags) + 1 = 8
      BY <1>2
    <2> QED
      BY <1>1, <2>1, <2>2, Zenon
  <1>4. tails[1] \in Data /\ tails[2] \in Data /\ tails[8] \in Data /\ p[1] \in Data
    <2>1. tails \in Seq(Data) /\ p \in Seq(Data)
      BY <1>1 DEF IsChain
    <2>2. Len(tails) = 8 /\ Len(p) = 7
      BY <1>1, <1>2 DEF IsChain
    <2>3. /\ 1 \in 1 .. Len(tails) /\ 2 \in 1 .. Len(tails) /\ 8 \in 1 .. Len(tails)
          /\ 1 \in 1 .. Len(p)
      BY <2>2
    <2>4. \A s \in Seq(Data) : \A i \in 1 .. Len(s) : s[i] \in Data
      OBVIOUS
    <2> QED
      BY <2>1, <2>3, <2>4, Zenon
  <1>5. t = Element(CONTEXT_0, p[1]) \o tails[2]
    <2>1. tails[1] = Element(CertTags[1], p[1]) \o tails[1 + 1]
      BY <1>1, <1>2 DEF IsChain
    <2>2. 1 + 1 = 2
      OBVIOUS
    <2> QED
      BY <1>1, <1>2, <2>1, <2>2, Zenon
  <1>6. IsElement(t, CONTEXT_0, p[1], tails[2])
    <2> DEFINE e == Element(CONTEXT_0, p[1]) \o tails[2]
    <2>1. IsElement(e, CONTEXT_0, p[1], tails[2])
      BY <1>4, ElementIsRead, TagsAreNat
    <2> HIDE DEF e
    <2>2. t = e
      BY <1>5 DEF e
    <2> QED
      BY <2>1, <2>2
  <1>7. Len(t) > 0 /\ t[1] = CONTEXT_0
    <2>1. Len(t) >= 2 /\ t[1] = CONTEXT_0 /\ Len(t) \in Nat
      BY <1>1, <1>4, <1>6, DataAre DEF IsElement
    <2> QED
      BY <2>1
  <1> QED
    BY <1>1, <1>3, <1>4, <1>7 DEF t, p

\* The proof in a certificate.
SignatureOf(r) == <<r.unused>> \o MTCProof(r.version, ProofOf(r))

LEMMA CertificateConsistsOf ==
    ASSUME NEW r \in Requests, NEW k \in Data, r.entry.publicKey = Element(SEQUENCE, k)
    PROVE  \E c \in Data :
               /\ CertificateOf(r) = Element(SEQUENCE, c)
               /\ ReadOnly(<<SEQUENCE, SEQUENCE, BIT_STRING>>, c)
                    = [ok |-> TRUE, parts |-> <<TBSOf(r), Identifier(r.version), SignatureOf(r)>>,
                       rest |-> <<>>]
               /\ SignatureOf(r) \in Data /\ Identifier(r.version) \in Data
  <1> DEFINE t == TBSOf(r)
             g == Identifier(r.version)
             s == SignatureOf(r)
             e1 == Element(SEQUENCE, t)
             e2 == Element(SEQUENCE, g)
             e3 == Element(BIT_STRING, s)
             t2 == e2 \o e3
             t1 == e1 \o t2
             c == (e1 \o e2) \o e3
             tags == <<SEQUENCE, SEQUENCE, BIT_STRING>>
             p == <<t, g, s>>
             tails == <<t1, t2, e3, <<>>>>
  <1>1. t \in Data
    BY FieldsAreRead
  <1>2. g \in Data
    BY OIDsAreNat, IdentifiersAre DEF Identifier
  <1>3. s \in Data
    <2>1. <<r.unused>> \in Data /\ MTCProof(r.version, ProofOf(r)) \in Data
      BY RequestIs, SingleIs, NumbersAreData
    <2> QED
      BY <2>1, DataJoin, Zenon DEF SignatureOf
  <1>4. CertificateOf(r) = Element(SEQUENCE, c)
    <2>1. TBSCertificate(r.version, r.issuer, r.serial, r.entry, NoOverride) = e1
      <3>1. SigAlg(r.version, NoOverride.overrideTBSSignatureAlgorithm) = MTCProofSigAlg(r.version)
        BY DEF SigAlg, NoOverride
      <3> QED
        BY <3>1, Zenon DEF TBSCertificate, TBSOf, CertRest
    <2>2. SigAlg(r.version, NoOverride.overrideSignatureAlgorithm) = e2
      BY DEF SigAlg, NoOverride, MTCProofSigAlg, Identifier
    <2> QED
      BY <2>1, <2>2, Zenon DEF CertificateOf, Certificate, SignatureOf
  <1> HIDE DEF t, g, s
  <1>5. e1 \in Data /\ e2 \in Data /\ e3 \in Data
    BY <1>1, <1>2, <1>3, ElementIs, TagsAreNat
  <1>6. e1 = Element(SEQUENCE, t) /\ e2 = Element(SEQUENCE, g) /\ e3 = Element(BIT_STRING, s)
    OBVIOUS
  <1> HIDE DEF e1, e2, e3
  <1>7. t2 \in Data /\ e3 \o <<>> = e3
    BY <1>5, DataJoin, DataAre
  <1>8. t1 \in Data
    <2> HIDE DEF t2
    <2> QED
      BY <1>5, <1>7, DataJoin
  <1>9. c = t1
    BY <1>5, DataRegroup
  <1>10. c \in Data
    BY <1>8, <1>9
  <1>11. t1 = e1 \o t2 /\ t2 = e2 \o e3
    OBVIOUS
  <1> HIDE DEF c, t1, t2
  <1>12. /\ tails \in Seq(Data) /\ Len(tails) = 4
         /\ tails[1] = t1 /\ tails[2] = t2 /\ tails[3] = e3 /\ tails[4] = <<>>
    <2>1. <<>> \in Data
      BY DEF Data
    <2> DEFINE z == <<>>
    <2> HIDE DEF z
    <2>2. /\ <<t1, t2, e3, z>> \in Seq(Data) /\ Len(<<t1, t2, e3, z>>) = 4
          /\ <<t1, t2, e3, z>>[1] = t1 /\ <<t1, t2, e3, z>>[2] = t2
          /\ <<t1, t2, e3, z>>[3] = e3 /\ <<t1, t2, e3, z>>[4] = z
      BY <1>5, <1>7, <1>8, <2>1 DEF z
    <2> QED
      BY <2>2 DEF z
  <1>13. /\ tags \in Seq(Nat) /\ Len(tags) = 3 /\ tags[1] = SEQUENCE /\ tags[2] = SEQUENCE
         /\ tags[3] = BIT_STRING
    BY TagsAreNat
  <1>14. /\ p \in Seq(Data) /\ Len(p) = 3 /\ p[1] = t /\ p[2] = g /\ p[3] = s
    BY <1>1, <1>2, <1>3
  <1> HIDE DEF tails, tags, p
  <1>15. \A i \in 1 .. 3 : tails[i] = Element(tags[i], p[i]) \o tails[i + 1]
    <2> TAKE i \in 1 .. 3
    <2>1. 1 + 1 = 2 /\ 2 + 1 = 3 /\ 3 + 1 = 4 /\ (i = 1 \/ i = 2 \/ i = 3)
      OBVIOUS
    <2>2. CASE i = 1
      BY <1>6, <1>11, <1>12, <1>13, <1>14, <2>1, <2>2, Zenon
    <2>3. CASE i = 2
      BY <1>6, <1>11, <1>12, <1>13, <1>14, <2>1, <2>3, Zenon
    <2>4. CASE i = 3
      BY <1>6, <1>7, <1>12, <1>13, <1>14, <2>1, <2>4, Zenon
    <2> QED
      BY <2>1, <2>2, <2>3, <2>4, Zenon
  <1>16. IsChain(tags, p, tails)
    <2>1. Len(p) = Len(tags) /\ Len(tails) = Len(tags) + 1
      BY <1>12, <1>13, <1>14
    <2>2. \A i \in 1 .. Len(tags) : tails[i] = Element(tags[i], p[i]) \o tails[i + 1]
      BY <1>13, <1>15, Zenon
    <2> QED
      BY <1>12, <1>13, <1>14, <2>1, <2>2, Zenon DEF IsChain
  <1>17. ReadOnly(tags, t1) = [ok |-> TRUE, parts |-> p, rest |-> <<>>]
    <2>1. tails[Len(tags) + 1] = <<>>
      BY <1>12, <1>13
    <2>2. ReadOnly(tags, tails[1]) = [ok |-> TRUE, parts |-> p, rest |-> <<>>]
      BY <1>16, <2>1, OnlyElementsAreRead
    <2> QED
      BY <1>12, <2>2, Zenon
  <1> QED
    BY <1>2, <1>3, <1>4, <1>9, <1>10, <1>17, Zenon DEF t, g, s, p, tags

\* A certificate as it is parsed.
Parsed(tbs, v, signature, subject, key, issuer, extensions) ==
    [ok |-> TRUE, tbs |-> tbs, sigAlg |-> MTCProofSigAlg(v), signature |-> signature,
     issuer |-> issuer, subject |-> Element(SEQUENCE, subject), spki |-> key,
     extensions |-> extensions]

LEMMA CertificateIsRead ==
    ASSUME NEW r \in Requests, NEW k \in Data, r.entry.publicKey = Element(SEQUENCE, k)
    PROVE  \E i, e : ParseCertificate(CertificateOf(r))
                       = Parsed(TBSOf(r), r.version, SignatureOf(r), r.entry.subject,
                                r.entry.publicKey, i, e)
  <1> DEFINE der == CertificateOf(r)
             whole  == ReadOnly(<<SEQUENCE>>, der)
             outer   == ReadOnly(<<SEQUENCE, SEQUENCE, BIT_STRING>>, whole.parts[1])
             tbs     == outer.parts[1]
             version == Len(tbs) > 0 /\ tbs[1] = CONTEXT_0
             fields  == ReadElements(Optional(version, <<CONTEXT_0>>) \o
                      <<INTEGER, SEQUENCE, SEQUENCE, SEQUENCE, SEQUENCE, SEQUENCE>>, tbs)
             part(i) == fields.parts[IF version THEN i + 1 ELSE i]
             exts    == ReadOnly(<<CONTEXT_3>>, fields.rest)
             good == /\ whole.ok /\ outer.ok /\ fields.ok /\ part(2) = outer.parts[2]
                     /\ fields.rest = <<>> \/ exts.ok
             x == IF exts.ok THEN ReadOnly(<<SEQUENCE>>, exts.parts[1]).parts[1] ELSE <<>>
             c == ParseCertificate(der)
             g == Identifier(r.version)
             s == SignatureOf(r)
             t == TBSOf(r)
             p == CertParts(r, k)
  <1>1. c = IF ~good THEN Failed
            ELSE [ok |-> TRUE, tbs |-> tbs, sigAlg |-> Element(SEQUENCE, outer.parts[2]),
                  signature |-> outer.parts[3], issuer |-> Element(SEQUENCE, part(3)),
                  subject |-> Element(SEQUENCE, part(5)), spki |-> Element(SEQUENCE, part(6)),
                  extensions |-> x]
    BY Zenon DEF ParseCertificate
  <1>2. PICK b \in Data :
               /\ der = Element(SEQUENCE, b)
               /\ ReadOnly(<<SEQUENCE, SEQUENCE, BIT_STRING>>, b)
                    = [ok |-> TRUE, parts |-> <<t, g, s>>, rest |-> <<>>]
               /\ s \in Data /\ g \in Data
    BY CertificateConsistsOf
  <1>3. whole = [ok |-> TRUE, parts |-> <<b>>, rest |-> <<>>]
    <2>1. ReadOnly(<<SEQUENCE>>, Element(SEQUENCE, b)) = [ok |-> TRUE, parts |-> <<b>>, rest |-> <<>>]
      BY OneIsAllRead, TagsAreNat
    <2> QED
      BY <1>2, <2>1, Zenon
  <1> HIDE DEF whole, der
  <1>4. whole.ok /\ whole.parts[1] = b
    BY <1>3
  <1>5. outer = [ok |-> TRUE, parts |-> <<t, g, s>>, rest |-> <<>>]
    BY <1>2, <1>4, Zenon
  <1> HIDE DEF outer, t, g, s
  <1>6. outer.ok /\ outer.parts[1] = t /\ outer.parts[2] = g /\ outer.parts[3] = s
    BY <1>5
  <1>7. /\ t \in Data /\ CertRest(r) \in Data /\ Len(t) > 0 /\ t[1] = CONTEXT_0
        /\ ReadElements(CertTags, t) = [ok |-> TRUE, parts |-> p, rest |-> CertRest(r)]
    BY FieldsAreRead DEF t
  <1>8. tbs = t /\ version
    BY <1>6, <1>7, Zenon
  <1>9. fields = [ok |-> TRUE, parts |-> p, rest |-> CertRest(r)]
    <2>1. Optional(version, <<CONTEXT_0>>) = <<CONTEXT_0>>
      BY <1>8, Zenon DEF Optional
    <2>2. <<CONTEXT_0>> \o <<INTEGER, SEQUENCE, SEQUENCE, SEQUENCE, SEQUENCE, SEQUENCE>> = CertTags
      BY TagsJoin, Zenon DEF TagsAfterVersion
    <2> HIDE DEF tbs, version, p
    <2> QED
      BY <1>7, <1>8, <2>1, <2>2, Zenon
  <1> HIDE DEF fields, tbs, version
  <1>10. /\ p[3] = g /\ p[4] = NameContents(r.version, r.issuer) /\ p[6] = r.entry.subject
         /\ p[7] = k
    BY DEF CertParts, g
  <1> HIDE DEF p
  <1>11. fields.ok /\ fields.parts = p /\ fields.rest = CertRest(r)
    BY <1>9
  <1>12. part(2) = g /\ part(5) = r.entry.subject /\ part(6) = k
    <2>1. 2 + 1 = 3 /\ 5 + 1 = 6 /\ 6 + 1 = 7
      OBVIOUS
    <2> QED
      BY <1>8, <1>10, <1>11, <2>1, Zenon
  <1>13. fields.rest = <<>> \/ exts.ok
    <2>1. CertRest(r) = <<>> \/ \E e \in Data : CertRest(r) = Element(CONTEXT_3, Element(SEQUENCE, e))
      <3>1. <<>> \in Data /\ r.entry.base \in BaseConfig
        BY RequestIs DEF Data
      <3> QED
        BY <3>1, ExtensionsAre DEF CertRest
    <2>2. ASSUME NEW e \in Data, CertRest(r) = Element(CONTEXT_3, Element(SEQUENCE, e)) PROVE exts.ok
      <3> DEFINE y == Element(SEQUENCE, e)
      <3>1. y \in Data
        BY ElementIs, TagsAreNat
      <3> HIDE DEF y
      <3>2. ReadOnly(<<CONTEXT_3>>, Element(CONTEXT_3, y)) = [ok |-> TRUE, parts |-> <<y>>, rest |-> <<>>]
        BY <3>1, OneIsAllRead, TagsAreNat
      <3>3. exts = [ok |-> TRUE, parts |-> <<y>>, rest |-> <<>>]
        BY <1>11, <2>2, <3>2, Zenon DEF y
      <3> QED
        BY <3>3
    <2> QED
      BY <1>11, <2>1, <2>2, Zenon
  <1> DEFINE i3 == Element(SEQUENCE, part(3))
             record == [ok |-> TRUE, tbs |-> tbs, sigAlg |-> Element(SEQUENCE, outer.parts[2]),
                  signature |-> outer.parts[3], issuer |-> i3,
                  subject |-> Element(SEQUENCE, part(5)), spki |-> Element(SEQUENCE, part(6)),
                  extensions |-> x]
  <1>14. good
    BY <1>4, <1>6, <1>11, <1>12, <1>13, Zenon
  <1>15. c = record
    BY <1>1, <1>14, Zenon
  <1> HIDE DEF c, x, good, i3
  <1>16. Element(SEQUENCE, g) = MTCProofSigAlg(r.version)
    BY DEF MTCProofSigAlg, Identifier, g
  <1>17. record = Parsed(t, r.version, s, r.entry.subject, r.entry.publicKey, i3, x)
    BY <1>6, <1>8, <1>12, <1>16, Zenon DEF Parsed
  <1>18. c = Parsed(t, r.version, s, r.entry.subject, r.entry.publicKey, i3, x)
    BY <1>15, <1>17, Zenon
  <1> QED
    BY <1>18, Zenon DEF c, der, t, s

LEMMA ParsedIs ==
    ASSUME NEW t, NEW v, NEW s, NEW u, NEW k, NEW i, NEW e
    PROVE  LET c == Parsed(t, v, s, u, k, i, e)
           IN  c.ok /\ c.tbs = t /\ c.spki = k
  BY DEF Parsed

-----------------------------------------------------------------------------

\* Seven from the left, and from the right.
SevenFromLeft(s, a, b, c, d, e, f, g) ==
    s = Then(Then(Then(Then(Then(Then(a, b), c), d), e), f), g)

SevenFromRight(s, a, b, c, d, e, f, g) ==
    s = Then(a, Then(b, Then(c, Then(d, Then(e, Then(f, g))))))

LEMMA ThenSeven ==
    ASSUME NEW a \in Data, NEW b \in Data, NEW c \in Data, NEW d \in Data, NEW e \in Data,
           NEW f \in Data, NEW g \in Data, NEW s, SevenFromLeft(s, a, b, c, d, e, f, g)
    PROVE  SevenFromRight(s, a, b, c, d, e, f, g) /\ s \in Data
  <1> DEFINE p == Then(Then(Then(a, b), c), d)
             q == Then(e, Then(f, g))
  <1>1. p \in Data /\ q \in Data
    BY ThenIs
  <1>2. Then(Then(Then(p, e), f), g) = Then(p, q)
    <2> HIDE DEF p
    <2> QED
      BY <1>1, ThenFour
  <1>3. Then(p, q) = Then(a, Then(b, Then(c, Then(d, q))))
    <2> HIDE DEF q
    <2>1. Then(Then(a, b), c) \in Data /\ Then(a, b) \in Data /\ Then(d, q) \in Data
      BY <1>1, ThenIs
    <2>2. Then(p, q) = Then(Then(Then(a, b), c), Then(d, q))
      BY <1>1, <2>1, ThenIs
    <2>3. Then(Then(Then(a, b), c), Then(d, q)) = Then(a, Then(b, Then(c, Then(d, q))))
      BY <2>1, ThenFour
    <2> QED
      BY <2>2, <2>3
  <1>4. s = Then(a, Then(b, Then(c, Then(d, Then(e, Then(f, g))))))
    BY <1>2, <1>3 DEF SevenFromLeft
  <1>5. s \in Data
    BY <1>4, ThenIs
  <1> QED
    BY <1>4, <1>5 DEF SevenFromRight

\* What is read of an issued certificate's key.
IsKey(r, k, a) ==
    /\ k \in Data /\ a \in Data /\ r.entry.publicKey = Element(SEQUENCE, k)
    /\ ReadElements(<<SEQUENCE>>, k).ok /\ ReadElements(<<SEQUENCE>>, k).parts[1] = a
    /\ ReadOnly(<<SEQUENCE>>, r.entry.publicKey).parts[1] = k

LEMMA KeyExists ==
    ASSUME NEW r \in Requests, r.version >= Plants04, Issued(r)
    PROVE  \E k, a : IsKey(r, k, a)
  <1> DEFINE key == r.entry.publicKey
             v == r.version
             spki == ReadOnly(<<SEQUENCE>>, key)
             alg == ReadElements(<<SEQUENCE>>, spki.parts[1])
             whole == ReadElements(<<SEQUENCE>>, key)
  <1>1. v >= Plants02 /\ key \in Data
    <2>1. v \in DraftVersion
      BY RequestIs
    <2> QED
      BY <2>1, RequestIs DEF DraftVersion, Plants02, Plants04
  <1>2. spki.ok /\ alg.ok
    <2> DEFINE contents ==
                 addX509V3Version \o X509Name(v, r.issuer) \o Validity(r.entry.base)
                 \o Element(SEQUENCE, r.entry.subject)
                 \o Optional(v >= Plants02, Element(SEQUENCE, alg.parts[1]))
                 \o Element(OCTET_STRING, Sha256(r.entry.publicKey))
                 \o Extensions(r.entry.base, <<>>)
               n == NullEntry(v)
               e == MTCEntryExtensions(v, r.entry.mtcEntryExtensions)
                    \o BigEndian(2, entryTypeTBSCert)
                    \o IF v >= Davidben10 THEN contents ELSE Element(SEQUENCE, contents)
    <2>1. LogEntry(v, r.issuer, r.entry)
             = IF r.entry.null THEN [ok |-> TRUE, value |-> n]
               ELSE IF v >= Plants02 /\ (~spki.ok \/ ~alg.ok) THEN Failed
               ELSE [ok |-> TRUE, value |-> e]
      BY Zenon DEF LogEntry
    <2>2. ~r.entry.null /\ LogEntry(v, r.issuer, r.entry).ok
      BY DEF Issued
    <2>3. ~Failed.ok
      BY DEF Failed
    <2> HIDE DEF e, n, spki, alg
    <2> QED
      BY <1>1, <2>1, <2>2, <2>3, Zenon
  <1>3. whole.ok /\ whole.rest = <<>>
    <2>1. ~Failed.ok
      BY DEF Failed
    <2> HIDE DEF whole
    <2>2. spki = IF whole.ok /\ whole.rest = <<>> THEN whole ELSE Failed
      BY Zenon DEF ReadOnly, whole
    <2> QED
      BY <1>2, <2>1, <2>2, Zenon
  <1>4. PICK k \in Data, rest \in Data : key = Element(SEQUENCE, k) \o rest
    BY <1>1, <1>3, ReadIsElement, TagsAreNat
  <1>5. whole = [ok |-> TRUE, parts |-> <<k>>, rest |-> rest]
    <2>1. ReadElements(<<SEQUENCE>>, Element(SEQUENCE, k) \o rest)
            = [ok |-> TRUE, parts |-> <<k>>, rest |-> rest]
      BY OneIsRead, TagsAreNat
    <2> QED
      BY <1>4, <2>1, Zenon
  <1>6. rest = <<>>
    BY <1>3, <1>5
  <1>7. key = Element(SEQUENCE, k)
    BY <1>4, <1>6, ElementIs, TagsAreNat, DataAre
  <1>8. spki = [ok |-> TRUE, parts |-> <<k>>, rest |-> <<>>]
    <2>1. ReadOnly(<<SEQUENCE>>, Element(SEQUENCE, k))
            = [ok |-> TRUE, parts |-> <<k>>, rest |-> <<>>]
      BY OneIsAllRead, TagsAreNat
    <2> QED
      BY <1>7, <2>1, Zenon
  <1>9. spki.parts[1] = k
    <2> HIDE DEF spki
    <2> QED
      BY <1>8
  <1> DEFINE alg2 == ReadElements(<<SEQUENCE>>, k)
  <1>10. alg2.ok
    BY <1>2, <1>9, Zenon
  <1>11. PICK a \in Data, rest2 \in Data : k = Element(SEQUENCE, a) \o rest2
    BY <1>10, ReadIsElement, TagsAreNat
  <1>12. alg2 = [ok |-> TRUE, parts |-> <<a>>, rest |-> rest2]
    <2>1. ReadElements(<<SEQUENCE>>, Element(SEQUENCE, a) \o rest2)
            = [ok |-> TRUE, parts |-> <<a>>, rest |-> rest2]
      BY OneIsRead, TagsAreNat
    <2> QED
      BY <1>11, <2>1, Zenon
  <1>13. alg2.parts[1] = a
    <2> HIDE DEF alg2
    <2> QED
      BY <1>12
  <1>14. IsKey(r, k, a)
    BY <1>7, <1>9, <1>10, <1>13, Zenon DEF IsKey
  <1> QED
    BY <1>14

\* The log entry for r, whose key has the algorithm a, from the issuer on, ...
NameOn(r, a) ==
    Then(X509Name(r.version, r.issuer), Then(Validity(r.entry.base),
        Then(Element(SEQUENCE, r.entry.subject), Then(Element(SEQUENCE, a),
            Then(Element(OCTET_STRING, r.entry.publicKey), CertRest(r))))))

\* ... and with the version of the certificate.
VersionOn(r, a) == Then(addX509V3Version, NameOn(r, a))

LEMMA EntryIsData ==
    ASSUME NEW r \in Requests, NEW k, NEW a, IsKey(r, k, a)
    PROVE  /\ addX509V3Version \in Data /\ X509Name(r.version, r.issuer) \in Data
           /\ Validity(r.entry.base) \in Data /\ Element(SEQUENCE, r.entry.subject) \in Data
           /\ Element(SEQUENCE, a) \in Data /\ Element(OCTET_STRING, r.entry.publicKey) \in Data
           /\ CertRest(r) \in Data
           /\ NameContents(r.version, r.issuer) \in Data
           /\ X509Name(r.version, r.issuer) = Element(SEQUENCE, NameContents(r.version, r.issuer))
           /\ r.entry.base.validity \in Data /\ r.entry.subject \in Data
           /\ r.entry.publicKey \in Data
  <1>1. /\ r.entry.base.validity \in Data /\ r.entry.subject \in Data
        /\ r.entry.publicKey \in Data
    BY RequestIs
  <1>2. /\ NameContents(r.version, r.issuer) \in Data
        /\ X509Name(r.version, r.issuer) = Element(SEQUENCE, NameContents(r.version, r.issuer))
    BY RequestIs, NameIs
  <1>3. CertRest(r) \in Data
    BY FieldsAreRead DEF IsKey
  <1>4. addX509V3Version \in Data
    BY IdentifiersAre, ElementIs, TagsAreNat DEF addX509V3Version
  <1>5. Validity(r.entry.base) \in Data
    BY <1>1, ElementIs, TagsAreNat DEF Validity
  <1>6. /\ Element(SEQUENCE, r.entry.subject) \in Data
        /\ Element(SEQUENCE, a) \in Data /\ Element(OCTET_STRING, r.entry.publicKey) \in Data
        /\ Element(SEQUENCE, NameContents(r.version, r.issuer)) \in Data
    BY <1>1, <1>2, ElementIs, TagsAreNat DEF IsKey
  <1> QED
    BY <1>1, <1>2, <1>3, <1>4, <1>5, <1>6

LEMMA LogEntryIs ==
    ASSUME NEW r \in Requests, NEW k, NEW a, IsKey(r, k, a), r.version >= Plants04, Issued(r)
    PROVE  LogEntry(r.version, r.issuer, r.entry).value
             = Then(Then(Vector(2, r.entry.mtcEntryExtensions), BigEndian(2, entryTypeTBSCert)),
                    VersionOn(r, a))
  <1> DEFINE key == r.entry.publicKey
             v == r.version
             spki == ReadOnly(<<SEQUENCE>>, key)
             alg == ReadElements(<<SEQUENCE>>, spki.parts[1])
             e1 == addX509V3Version
             e2 == X509Name(v, r.issuer)
             e3 == Validity(r.entry.base)
             e4 == Element(SEQUENCE, r.entry.subject)
             e5 == Element(SEQUENCE, alg.parts[1])
             e6 == Element(OCTET_STRING, key)
             e7 == CertRest(r)
             o5 == Optional(v >= Plants02, e5)
             contents == Then(Then(Then(Then(Then(Then(e1, e2), e3), e4), o5), e6), e7)
             n == NullEntry(v)
             m == MTCEntryExtensions(v, r.entry.mtcEntryExtensions)
             t == BigEndian(2, entryTypeTBSCert)
             e == Then(Then(m, t), IF v >= Davidben10 THEN contents ELSE Element(SEQUENCE, contents))
             l == LogEntry(v, r.issuer, r.entry)
  <1>1. v >= Plants02 /\ v >= Plants04 /\ v >= Davidben10
    <2>1. v \in DraftVersion
      BY RequestIs
    <2> QED
      BY <2>1 DEF DraftVersion, Plants02, Plants04, Davidben10
  <1>2. l = IF r.entry.null THEN [ok |-> TRUE, value |-> n]
            ELSE IF v >= Plants02 /\ (~spki.ok \/ ~alg.ok) THEN Failed
            ELSE [ok |-> TRUE, value |-> e]
    BY Zenon DEF LogEntry, Then, CertRest, Sha256
  <1>3. ~r.entry.null /\ l.ok
    BY DEF Issued
  <1>4. ~Failed.ok
    BY DEF Failed
  <1>5. alg.parts[1] = a
    BY Zenon DEF IsKey
  <1>6. m = Vector(2, r.entry.mtcEntryExtensions)
    BY <1>1, Zenon DEF MTCEntryExtensions, Optional
  <1>7. o5 = Element(SEQUENCE, a)
    BY <1>1, <1>5, Zenon DEF Optional
  <1> HIDE DEF e, n, spki, alg, l
  <1>8. l = [ok |-> TRUE, value |-> e]
    BY <1>2, <1>3, <1>4, Zenon
  <1>9. l.value = e
    BY <1>8
  <1> HIDE DEF o5, m, t
  <1>10. e = Then(Then(m, t), contents)
    BY <1>1, Zenon DEF e
  <1>11. contents = VersionOn(r, a)
    <2> DEFINE a5 == Element(SEQUENCE, a)
    <2>1. /\ e1 \in Data /\ e2 \in Data /\ e3 \in Data /\ e4 \in Data /\ a5 \in Data
          /\ e6 \in Data /\ e7 \in Data
      BY EntryIsData
    <2>2. VersionOn(r, a) = Then(e1, Then(e2, Then(e3, Then(e4, Then(a5, Then(e6, e7))))))
      BY Zenon DEF VersionOn, NameOn
    <2>3. SevenFromLeft(contents, e1, e2, e3, e4, a5, e6, e7)
      BY <1>7, Zenon DEF SevenFromLeft
    <2> HIDE DEF e1, e2, e3, e4, a5, e6, e7, contents
    <2>4. SevenFromRight(contents, e1, e2, e3, e4, a5, e6, e7)
      BY <2>1, <2>3, ThenSeven
    <2> QED
      BY <2>2, <2>4, Zenon DEF SevenFromRight
  <1> HIDE DEF contents
  <1> QED
    BY <1>6, <1>9, <1>10, <1>11, Zenon DEF l, t

LEMMA EntryIs ==
    ASSUME NEW r \in Requests, NEW k, NEW a, IsKey(r, k, a),
           NEW c, c.tbs = TBSOf(r), c.spki = r.entry.publicKey,
           NEW x \in Data
    PROVE  EntryOf(c, x)
             = Then(Then(Vector(2, x), BigEndian(2, entryTypeTBSCert)), VersionOn(r, a))
  <1> DEFINE version == IF c.tbs[1] = CONTEXT_0 THEN <<CONTEXT_0>> ELSE <<>>
             fields  == ReadElements(version \o
                      <<INTEGER, SEQUENCE, SEQUENCE, SEQUENCE, SEQUENCE, SEQUENCE>>, c.tbs)
             part(i) == fields.parts[Len(version) + i]
             alg == ReadElements(<<SEQUENCE>>, part(6))
             p == CertParts(r, k)
             m == Vector(2, x)
             t == BigEndian(2, entryTypeTBSCert)
             b == Then(m, t)
             o1 == Optional(version # <<>>, Element(CONTEXT_0, fields.parts[1]))
             f2 == Element(SEQUENCE, part(3))
             f3 == Element(SEQUENCE, part(4))
             f4 == Element(SEQUENCE, part(5))
             f5 == Element(SEQUENCE, alg.parts[1])
             f6 == Element(OCTET_STRING, c.spki)
             f7 == fields.rest
             e1 == addX509V3Version
             e2 == X509Name(r.version, r.issuer)
             e3 == Validity(r.entry.base)
             e4 == Element(SEQUENCE, r.entry.subject)
             e5 == Element(SEQUENCE, a)
             e6 == Element(OCTET_STRING, r.entry.publicKey)
             e7 == CertRest(r)
             whole == Then(Then(Then(Then(Then(Then(Then(b, e1), e2), e3), e4), e5), e6), e7)
  <1>1. EntryOf(c, x)
          = IF ~alg.ok THEN <<>>
            ELSE Then(Then(Then(Then(Then(Then(Then(b, o1), f2), f3), f4), f5), f6), f7)
    BY Zenon DEF EntryOf, Then, Sha256
  <1>2. /\ c.tbs[1] = CONTEXT_0
        /\ ReadElements(CertTags, c.tbs) = [ok |-> TRUE, parts |-> p, rest |-> CertRest(r)]
    BY FieldsAreRead DEF IsKey
  <1>3. version = <<CONTEXT_0>>
    BY <1>2, Zenon
  <1>4. Len(version) = 1 /\ version # <<>>
    BY <1>3
  <1>5. fields = [ok |-> TRUE, parts |-> p, rest |-> CertRest(r)]
    <2>1. <<CONTEXT_0>> \o <<INTEGER, SEQUENCE, SEQUENCE, SEQUENCE, SEQUENCE, SEQUENCE>> = CertTags
      BY TagsJoin, Zenon DEF TagsAfterVersion
    <2> HIDE DEF version, p
    <2> QED
      BY <1>2, <1>3, <2>1, Zenon
  <1> HIDE DEF version, fields
  <1>6. /\ p[1] = Integer(2) /\ p[4] = NameContents(r.version, r.issuer)
        /\ p[5] = r.entry.base.validity /\ p[6] = r.entry.subject /\ p[7] = k
    BY DEF CertParts
  <1> HIDE DEF p
  <1>7. fields.parts = p /\ fields.rest = CertRest(r)
    BY <1>5
  <1>8. /\ part(3) = NameContents(r.version, r.issuer)
        /\ part(4) = r.entry.base.validity /\ part(5) = r.entry.subject /\ part(6) = k
    <2>1. 1 + 3 = 4 /\ 1 + 4 = 5 /\ 1 + 5 = 6 /\ 1 + 6 = 7
      OBVIOUS
    <2> QED
      BY <1>4, <1>6, <1>7, <2>1, Zenon
  <1>9. alg.ok /\ alg.parts[1] = a
    BY <1>8, Zenon DEF IsKey
  <1>10. o1 = e1
    BY <1>4, <1>6, <1>7, Zenon DEF Optional, addX509V3Version
  <1>11. f2 = e2 /\ f3 = e3 /\ f4 = e4 /\ f5 = e5 /\ f6 = e6 /\ f7 = e7
    <2>1. e2 = Element(SEQUENCE, NameContents(r.version, r.issuer))
      BY EntryIsData
    <2> QED
      BY <1>7, <1>8, <1>9, <2>1, Zenon DEF Validity
  <1>12. /\ e1 \in Data /\ e2 \in Data /\ e3 \in Data /\ e4 \in Data /\ e5 \in Data
         /\ e6 \in Data /\ e7 \in Data
    BY EntryIsData
  <1>13. b \in Data
    <2>1. entryTypeTBSCert \in Nat
      BY DEF entryTypeTBSCert
    <2>2. m \in Data /\ t \in Data
      BY <2>1, VectorIs, BigEndianIs
    <2> QED
      BY <2>2, ThenIs
  <1>14. VersionOn(r, a) = Then(e1, Then(e2, Then(e3, Then(e4, Then(e5, Then(e6, e7))))))
    BY Zenon DEF VersionOn, NameOn
  <1> HIDE DEF alg, part, o1, f2, f3, f4, f5, f6, f7, e1, e2, e3, e4, e5, e6, e7, b
  <1>15. EntryOf(c, x) = whole
    BY <1>1, <1>9, <1>10, <1>11, Zenon
  <1> HIDE DEF whole
  <1>16. FromLeft(whole, b, e1, e2, e3, e4, e5, e6, e7)
    BY Zenon DEF FromLeft, whole
  <1>17. FromRight(whole, b, e1, e2, e3, e4, e5, e6, e7)
    BY <1>12, <1>13, <1>16, ThenEight
  <1> QED
    BY <1>14, <1>15, <1>17, Zenon DEF FromRight, b, m, t

-----------------------------------------------------------------------------

\* What has been written for a request is its certificate, of an entry.
WrittenCertificate ==
    asked \in Requests /\
        (cert # Nothing => Issued(asked) /\ cert = ParseCertificate(CertificateOf(asked)))

LEMMA CertificatesAreWritten == FormatSpec => []WrittenCertificate
  <1>1. FormatInit => WrittenCertificate
    BY DEF FormatInit, WrittenCertificate
  <1>2. WrittenCertificate /\ [FormatNext]_formatVars => WrittenCertificate'
    <2> SUFFICES ASSUME WrittenCertificate, [FormatNext]_formatVars
                 PROVE  WrittenCertificate'
      OBVIOUS
    <2>1. CASE Write
      BY <2>1 DEF Write, WrittenCertificate
    <2>2. ASSUME NEW v \in DraftVersion, ReadAs(v) PROVE WrittenCertificate'
      BY <2>2 DEF ReadAs, WrittenCertificate
    <2>3. CASE UNCHANGED formatVars
      BY <2>3 DEF formatVars, WrittenCertificate
    <2> QED
      BY <2>1, <2>2, <2>3 DEF FormatNext
  <1> QED
    BY <1>1, <1>2, PTL DEF FormatSpec

\* The relying party hashes the entry that the CA logged, for every request
\* and every version from plants-04 on.
THEOREM EntriesAreReconstructed == FormatSpec => []IssuedEntryIsReconstructed
  <1>1. WrittenCertificate => IssuedEntryIsReconstructed
    <2> SUFFICES ASSUME WrittenCertificate, cert # Nothing, asked.version >= Plants04
                 PROVE  /\ cert.ok
                        /\ EntryOf(cert, asked.entry.mtcEntryExtensions)
                             = LogEntry(asked.version, asked.issuer, asked.entry).value
      BY DEF IssuedEntryIsReconstructed
    <2> DEFINE r == asked
               c == ParseCertificate(CertificateOf(r))
               x == r.entry.mtcEntryExtensions
    <2>1. r \in Requests /\ Issued(r) /\ cert = c /\ r.version >= Plants04
      BY DEF WrittenCertificate
    <2> HIDE DEF r
    <2>2. PICK k, a : IsKey(r, k, a)
      BY <2>1, KeyExists
    <2>3. k \in Data /\ r.entry.publicKey = Element(SEQUENCE, k)
      BY <2>2 DEF IsKey
    <2>4. c.ok /\ c.tbs = TBSOf(r) /\ c.spki = r.entry.publicKey
      <3> DEFINE s == SignatureOf(r)
      <3>1. PICK i, e : c = Parsed(TBSOf(r), r.version, s, r.entry.subject, r.entry.publicKey, i, e)
        BY <2>1, <2>3, CertificateIsRead, Zenon
      <3> HIDE DEF c, s
      <3> QED
        BY <3>1, ParsedIs
    <2>5. x \in Data
      BY <2>1, RequestIs
    <2> HIDE DEF c, x
    <2>6. EntryOf(c, x) = Then(Then(Vector(2, x), BigEndian(2, entryTypeTBSCert)), VersionOn(r, a))
      BY <2>1, <2>2, <2>4, <2>5, EntryIs
    <2>7. LogEntry(r.version, r.issuer, r.entry).value
            = Then(Then(Vector(2, x), BigEndian(2, entryTypeTBSCert)), VersionOn(r, a))
      BY <2>1, <2>2, LogEntryIs, Zenon DEF x
    <2> QED
      BY <2>1, <2>4, <2>6, <2>7, Zenon DEF r, x
  <1> QED
    BY <1>1, CertificatesAreWritten, PTL


-----------------------------------------------------------------------------

\* What begins with an element begins with no other.
Begins(whole, tag, contents, rest) == whole = Then(Element(tag, contents), rest)

LEMMA ElementTellsParts ==
    ASSUME NEW s, NEW t, s \in Nat, t \in Nat, NEW a \in Data, NEW b \in Data,
           NEW p \in Data, NEW q \in Data,
           NEW whole, Begins(whole, s, a, p), Begins(whole, t, b, q)
    PROVE  s = t /\ a = b /\ p = q
  <1> DEFINE x == Element(s, a) \o p
             y == Element(t, b) \o q
  <1>1. IsElement(x, s, a, p) /\ IsElement(y, t, b, q)
    BY ElementIsRead
  <1>2. x = y
    BY Zenon DEF Then, Begins
  <1> HIDE DEF x, y
  <1>3. IsElement(x, t, b, q)
    BY <1>1, <1>2
  <1> QED
    BY <1>1, <1>3, Zenon DEF IsElement

\* A number of two bytes is known by them.
LEMMA TwoBytesTell ==
    ASSUME NEW m \in Nat, NEW n \in Nat, m < Place[2], n < Place[2],
           BigEndian(2, m) = BigEndian(2, n)
    PROVE  m = n
  <1> DEFINE b == 2 * Base
  <1>1. b \in Nat \ {0}
    BY WidthAssumption
  <1>2. Place[0] = 1 /\ Place[1] = b /\ Place[2] = b * b
    BY PlaceIs
  <1> HIDE DEF b
  <1>3. ASSUME NEW x \in Nat, x < b * b
        PROVE  /\ BigEndian(2, x)[1] = x \div b /\ BigEndian(2, x)[2] = x % b
               /\ x = b * (x \div b) + (x % b)
    <2>1. /\ x \div b \in Nat /\ x % b \in Nat /\ x % b < b
          /\ x = b * (x \div b) + (x % b)
      BY <1>1, DivMod
    <2> DEFINE d == x \div b
    <2>2. d < b
      <3> DEFINE e == x % b
      <3>1. d \in Nat /\ e \in Nat /\ x = b * d + e
        BY <2>1
      <3> HIDE DEF d, e
      <3>2. SUFFICES ASSUME d >= b PROVE FALSE
        BY <1>1, <3>1
      <3>3. b * d >= b * b
        BY <1>1, <3>1, <3>2
      <3>4. b * d \in Nat /\ b * b \in Nat
        BY <1>1, <3>1
      <3> QED
        BY <1>3, <3>1, <3>3, <3>4
    <2>3. d % b = d
      <3>1. d \in Nat
        BY <2>1
      <3> HIDE DEF d
      <3> QED
        BY <1>1, <2>2, <3>1
    <2>4. x \div 1 = x
      OBVIOUS
    <2>5. /\ BigEndian(2, x)[1] = (x \div Place[1]) % b
          /\ BigEndian(2, x)[2] = (x \div Place[0]) % b
      <3>1. 1 \in 1 .. 2 /\ 2 \in 1 .. 2 /\ 2 - 1 = 1 /\ 2 - 2 = 0
        OBVIOUS
      <3> QED
        BY <3>1, Zenon DEF BigEndian, b
    <2> QED
      BY <1>2, <2>1, <2>3, <2>4, <2>5, Zenon
  <1> DEFINE dm == m \div b
             dn == n \div b
             em == m % b
             en == n % b
  <1>4. m = b * dm + em /\ BigEndian(2, m)[1] = dm /\ BigEndian(2, m)[2] = em
    BY <1>2, <1>3
  <1>5. n = b * dn + en /\ BigEndian(2, n)[1] = dn /\ BigEndian(2, n)[2] = en
    BY <1>2, <1>3
  <1> HIDE DEF dm, dn, em, en
  <1>6. dm = dn /\ em = en
    BY <1>4, <1>5, Zenon
  <1> QED
    BY <1>4, <1>5, <1>6, Zenon

\* And so is a vector with a length of two bytes, whatever follows it.
BeginsWithVector(whole, x, rest) == whole = Then(Vector(2, x), rest)

LEMMA VectorTellsParts ==
    ASSUME NEW x \in Data, NEW y \in Data, Len(x) < Place[2], Len(y) < Place[2],
           NEW p \in Data, NEW q \in Data,
           NEW whole, BeginsWithVector(whole, x, p), BeginsWithVector(whole, y, q)
    PROVE  x = y /\ p = q
  <1> DEFINE g == BigEndian(2, Len(x))
             h == BigEndian(2, Len(y))
             s == x \o p
             t == y \o q
             w == g \o s
  <1>1. Len(x) \in Nat /\ Len(y) \in Nat
    BY DataAre
  <1>2. g \in Data /\ h \in Data /\ Len(g) = Len(h)
    BY <1>1, BigEndianIs
  <1>3. s \in Data /\ t \in Data
    BY DataJoin
  <1>4. Then(Vector(2, x), p) = Then(Then(g, x), p) /\ Then(Vector(2, y), q) = Then(Then(h, y), q)
    BY Zenon DEF Then, Vector
  <1> HIDE DEF g, h
  <1>5. Then(Then(g, x), p) = w /\ Then(Then(h, y), q) = h \o t
    <2>1. Then(Then(g, x), p) = Then(g, Then(x, p)) /\ Then(Then(h, y), q) = Then(h, Then(y, q))
      BY <1>2, ThenIs
    <2> QED
      BY <2>1, Zenon DEF Then
  <1>6. IsConcat(w, g, s) /\ IsConcat(w, h, t)
    BY <1>4, <1>5, Zenon DEF IsConcat, BeginsWithVector
  <1> HIDE DEF w
  <1>7. g \in Seq(Datum) /\ h \in Seq(Datum) /\ s \in Seq(Datum) /\ t \in Seq(Datum)
    BY <1>2, <1>3 DEF Data
  <1>8. g = h /\ s = t
    <2> HIDE DEF s, t
    <2> QED
      BY <1>2, <1>6, <1>7, PartsEqual
  <1>9. Len(x) = Len(y)
    BY <1>1, <1>8, TwoBytesTell DEF g, h
  <1>10. IsConcat(s, x, p) /\ IsConcat(s, y, q)
    BY <1>8, Zenon DEF IsConcat
  <1>11. x \in Seq(Datum) /\ y \in Seq(Datum) /\ p \in Seq(Datum) /\ q \in Seq(Datum)
    BY DEF Data
  <1> HIDE DEF s, t
  <1> QED
    BY <1>9, <1>10, <1>11, PartsEqual

\* What follows the version in an entry: four sequences, a string, extensions.
FollowsVersion(whole, a, b, c, d, e, rest) ==
    whole = Then(Element(SEQUENCE, a), Then(Element(SEQUENCE, b), Then(Element(SEQUENCE, c),
                Then(Element(SEQUENCE, d), Then(Element(OCTET_STRING, e), rest)))))

LEMMA PartsAfterVersion ==
    ASSUME NEW a \in Data, NEW b \in Data, NEW c \in Data, NEW d \in Data, NEW e \in Data,
           NEW v \in Data, NEW w \in Data, NEW x \in Data, NEW y \in Data, NEW z \in Data,
           NEW f \in Data, NEW g \in Data, NEW whole,
           FollowsVersion(whole, a, b, c, d, e, f), FollowsVersion(whole, v, w, x, y, z, g)
    PROVE  a = v /\ b = w /\ c = x /\ d = y /\ e = z /\ f = g
  <1> DEFINE s5 == Then(Element(OCTET_STRING, e), f)
             s4 == Then(Element(SEQUENCE, d), s5)
             s3 == Then(Element(SEQUENCE, c), s4)
             s2 == Then(Element(SEQUENCE, b), s3)
             t5 == Then(Element(OCTET_STRING, z), g)
             t4 == Then(Element(SEQUENCE, y), t5)
             t3 == Then(Element(SEQUENCE, x), t4)
             t2 == Then(Element(SEQUENCE, w), t3)
  <1>1. s5 \in Data /\ s4 \in Data /\ s3 \in Data /\ s2 \in Data
    BY ElementIs, ThenIs, TagsAreNat
  <1>2. t5 \in Data /\ t4 \in Data /\ t3 \in Data /\ t2 \in Data
    BY ElementIs, ThenIs, TagsAreNat
  <1>3. /\ Begins(whole, SEQUENCE, a, s2) /\ Begins(whole, SEQUENCE, v, t2)
        /\ Begins(s2, SEQUENCE, b, s3) /\ Begins(t2, SEQUENCE, w, t3)
        /\ Begins(s3, SEQUENCE, c, s4) /\ Begins(t3, SEQUENCE, x, t4)
        /\ Begins(s4, SEQUENCE, d, s5) /\ Begins(t4, SEQUENCE, y, t5)
        /\ Begins(s5, OCTET_STRING, e, f) /\ Begins(t5, OCTET_STRING, z, g)
    BY Zenon DEF FollowsVersion, Begins
  <1> HIDE DEF s2, s3, s4, s5, t2, t3, t4, t5
  <1>4. a = v /\ s2 = t2
    <2>1. Begins(whole, SEQUENCE, a, s2) /\ Begins(whole, SEQUENCE, v, t2)
      BY <1>3, Zenon
    <2>2. s2 \in Data /\ t2 \in Data
      BY <1>1, <1>2
    <2> QED
      BY <2>1, <2>2, ElementTellsParts, TagsAreNat
  <1>5. b = w /\ s3 = t3
    <2>1. Begins(s2, SEQUENCE, b, s3) /\ Begins(s2, SEQUENCE, w, t3)
      BY <1>3, <1>4, Zenon
    <2>2. s3 \in Data /\ t3 \in Data
      BY <1>1, <1>2
    <2> QED
      BY <2>1, <2>2, ElementTellsParts, TagsAreNat
  <1>6. c = x /\ s4 = t4
    <2>1. Begins(s3, SEQUENCE, c, s4) /\ Begins(s3, SEQUENCE, x, t4)
      BY <1>3, <1>5, Zenon
    <2>2. s4 \in Data /\ t4 \in Data
      BY <1>1, <1>2
    <2> QED
      BY <2>1, <2>2, ElementTellsParts, TagsAreNat
  <1>7. d = y /\ s5 = t5
    <2>1. Begins(s4, SEQUENCE, d, s5) /\ Begins(s4, SEQUENCE, y, t5)
      BY <1>3, <1>6, Zenon
    <2>2. s5 \in Data /\ t5 \in Data
      BY <1>1, <1>2
    <2> QED
      BY <2>1, <2>2, ElementTellsParts, TagsAreNat
  <1>8. e = z /\ f = g
    <2>1. Begins(s5, OCTET_STRING, e, f) /\ Begins(s5, OCTET_STRING, z, g)
      BY <1>3, <1>7, Zenon
    <2> QED
      BY <2>1, ElementTellsParts, TagsAreNat
  <1> QED
    BY <1>4, <1>5, <1>6, <1>7, <1>8

\* Two entries that are equal from the issuer on have the same parts.
LEMMA NameOnTells ==
    ASSUME NEW r \in Requests, NEW k, NEW a, IsKey(r, k, a),
           NEW s \in Requests, NEW l, NEW b, IsKey(s, l, b), NameOn(r, a) = NameOn(s, b)
    PROVE  /\ X509Name(r.version, r.issuer) = X509Name(s.version, s.issuer)
           /\ Validity(r.entry.base) = Validity(s.entry.base)
           /\ r.entry.subject = s.entry.subject /\ r.entry.publicKey = s.entry.publicKey
           /\ CertRest(r) = CertRest(s)
  <1> DEFINE N(t) == NameContents(t.version, t.issuer)
  <1>1. ASSUME NEW t \in Requests, NEW i, NEW j, IsKey(t, i, j)
        PROVE  FollowsVersion(NameOn(t, j), N(t), t.entry.base.validity, t.entry.subject, j,
                              t.entry.publicKey, CertRest(t))
    <2>1. X509Name(t.version, t.issuer) = Element(SEQUENCE, N(t))
      BY <1>1, EntryIsData
    <2> HIDE DEF N
    <2> QED
      BY <2>1, Zenon DEF NameOn, FollowsVersion, Validity
  <1>2. /\ N(r) \in Data /\ r.entry.base.validity \in Data /\ r.entry.subject \in Data
        /\ r.entry.publicKey \in Data /\ CertRest(r) \in Data /\ a \in Data
        /\ X509Name(r.version, r.issuer) = Element(SEQUENCE, N(r))
    BY EntryIsData DEF IsKey
  <1>3. /\ N(s) \in Data /\ s.entry.base.validity \in Data /\ s.entry.subject \in Data
        /\ s.entry.publicKey \in Data /\ CertRest(s) \in Data /\ b \in Data
        /\ X509Name(s.version, s.issuer) = Element(SEQUENCE, N(s))
    BY EntryIsData DEF IsKey
  <1> DEFINE whole == NameOn(r, a)
  <1>4. /\ FollowsVersion(whole, N(r), r.entry.base.validity, r.entry.subject, a,
                          r.entry.publicKey, CertRest(r))
        /\ FollowsVersion(whole, N(s), s.entry.base.validity, s.entry.subject, b,
                          s.entry.publicKey, CertRest(s))
    BY <1>1, Zenon
  <1> HIDE DEF N, whole
  <1>5. /\ N(r) = N(s) /\ r.entry.base.validity = s.entry.base.validity
        /\ r.entry.subject = s.entry.subject /\ r.entry.publicKey = s.entry.publicKey
        /\ CertRest(r) = CertRest(s)
    <2> DEFINE r1 == N(r)
               r2 == r.entry.base.validity
               r3 == r.entry.subject
               r5 == r.entry.publicKey
               r6 == CertRest(r)
               s1 == N(s)
               s2 == s.entry.base.validity
               s3 == s.entry.subject
               s5 == s.entry.publicKey
               s6 == CertRest(s)
    <2>1. /\ r1 \in Data /\ r2 \in Data /\ r3 \in Data /\ a \in Data /\ r5 \in Data /\ r6 \in Data
          /\ FollowsVersion(whole, r1, r2, r3, a, r5, r6)
      BY <1>2, <1>4
    <2>2. /\ s1 \in Data /\ s2 \in Data /\ s3 \in Data /\ b \in Data /\ s5 \in Data /\ s6 \in Data
          /\ FollowsVersion(whole, s1, s2, s3, b, s5, s6)
      BY <1>3, <1>4
    <2> HIDE DEF r1, r2, r3, r5, r6, s1, s2, s3, s5, s6
    <2>3. r1 = s1 /\ r2 = s2 /\ r3 = s3 /\ r5 = s5 /\ r6 = s6
      BY <2>1, <2>2, PartsAfterVersion
    <2> QED
      BY <2>3, Zenon DEF r1, r2, r3, r5, r6, s1, s2, s3, s5, s6
  <1> QED
    BY <1>2, <1>3, <1>5, Zenon DEF Validity

\* The ends of a sequence of three parts.
ThreeParts(s, a, b, c, first, last) ==
    s = Then(a, Then(b, c)) /\ first = Len(a) /\ last = Len(a) + Len(b) + 1

LEMMA EndsAre ==
    ASSUME NEW a \in Data, NEW b \in Data, NEW c \in Data,
           NEW s, NEW first, NEW last, ThreeParts(s, a, b, c, first, last)
    PROVE  SubSeq(s, 1, first) = a /\ SubSeq(s, last, Len(s)) = c
  <1> DEFINE t == b \o c
             i == Len(a)
             j == Len(b)
             l == Len(c)
             n == Len(s)
             x == SubSeq(s, 1, i)
             y == SubSeq(s, i + j + 1, n)
  <1>1. i \in Nat /\ j \in Nat /\ l \in Nat
    BY DataAre
  <1>2. t \in Data /\ IsConcat(t, b, c) /\ IsConcat(s, a, t)
    BY DataJoin, Zenon DEF IsConcat, Then, ThreeParts
  <1> HIDE DEF t
  <1>3. Len(t) = j + l /\ \A m \in 1 .. l : t[j + m] = c[m]
    BY <1>2, DataConcat
  <1>4. /\ s \in Data /\ n = i + (j + l) /\ \A m \in 1 .. i : s[m] = a[m]
        /\ \A m \in 1 .. j + l : s[i + m] = t[m]
    <2>1. /\ s \in Data /\ Len(s) = Len(a) + Len(t) /\ \A m \in 1 .. Len(a) : s[m] = a[m]
          /\ \A m \in 1 .. Len(t) : s[Len(a) + m] = t[m]
      BY <1>2, DataConcat
    <2> QED
      BY <1>3, <2>1, Zenon
  <1>5. \A m \in 1 .. l : s[(i + j + 1) + m - 1] = c[m]
    <2> TAKE m \in 1 .. l
    <2>1. j + m \in 1 .. j + l /\ (i + j + 1) + m - 1 = i + (j + m)
      BY <1>1
    <2> HIDE DEF i, j, l
    <2> QED
      BY <1>3, <1>4, <2>1
  <1>6. \A m \in 1 .. n : s[m] \in Datum
    BY <1>4, DataAre
  <1>7. n \in Nat
    BY <1>1, <1>4
  <1> HIDE DEF i, j, l, n
  <1>8. x \in Data /\ Len(x) = i /\ \A m \in 1 .. i : x[m] = a[m]
    <2>1. \A m \in 1 .. i : s[m] \in Datum
      BY <1>1, <1>4, <1>6
    <2>2. /\ x \in Data /\ Len(x) = IF 1 <= i THEN i - 1 + 1 ELSE 0
          /\ \A m \in 1 .. i - 1 + 1 : x[m] = s[1 + m - 1]
      BY <1>1, <2>1, SubSeqProperties DEF Data
    <2>3. i - 1 + 1 = i /\ (~(1 <= i) => i = 0) /\ \A m \in 1 .. i : 1 + m - 1 = m
      BY <1>1
    <2> HIDE DEF x
    <2> QED
      BY <1>4, <2>2, <2>3
  <1>9. y \in Data /\ Len(y) = l /\ \A m \in 1 .. l : y[m] = c[m]
    <2> DEFINE g == i + j + 1
    <2>1. \A m \in g .. n : s[m] \in Datum
      BY <1>1, <1>4, <1>6
    <2>2. g \in Nat \ {0} /\ n - g + 1 = l /\ (~(g <= n) => l = 0)
      BY <1>1, <1>4
    <2>5. g \in 1 .. n + 1
      BY <1>1, <1>4
    <2>3. \A m \in 1 .. l : s[g + m - 1] = c[m]
      BY <1>5
    <2> HIDE DEF g
    <2>4. /\ SubSeq(s, g, n) \in Data /\ Len(SubSeq(s, g, n)) = IF g <= n THEN n - g + 1 ELSE 0
          /\ \A m \in 1 .. n - g + 1 : SubSeq(s, g, n)[m] = s[g + m - 1]
      BY <1>7, <2>1, <2>2, <2>5, SubSeqProperties DEF Data
    <2> DEFINE h == SubSeq(s, g, n)
    <2> HIDE DEF h
    <2>6. h \in Data /\ Len(h) = l /\ \A m \in 1 .. l : h[m] = c[m]
      BY <2>2, <2>3, <2>4 DEF h
    <2> QED
      BY <2>6 DEF h, g
  <1> HIDE DEF x, y
  <1>10. x = a
    BY <1>8, SeqEqual DEF Data, i
  <1>11. y = c
    BY <1>9, SeqEqual DEF Data, l
  <1>12. SubSeq(s, 1, Len(a)) = a /\ SubSeq(s, Len(a) + Len(b) + 1, Len(s)) = c
    BY <1>10, <1>11, Zenon DEF x, y, i, j, n
  <1> QED
    BY <1>12, Zenon DEF ThreeParts

LEMMA IntegerLength == \A n \in Nat : Integer(n) \in Data /\ Len(Integer(n)) = 3
  <1> TAKE n \in Nat
  <1> DEFINE s == <<n>>
  <1>1. s \in Data /\ Len(s) = 1
    BY SingleIs, NumbersAreData
  <1>2. Integer(n) = Element(INTEGER, s)
    BY DEF Integer
  <1> HIDE DEF s
  <1>3. s \in Data
    BY <1>1
  <1>4. Element(INTEGER, s) \in Data /\ Len(Element(INTEGER, s)) = 2 + Len(s)
    BY <1>3, ElementIs, TagsAreNat
  <1>5. Len(Element(INTEGER, s)) = 3
    BY <1>1, <1>4
  <1> QED
    BY <1>2, <1>4, <1>5, Zenon

\* The TBSCertificate of r from its algorithm on.
AlgorithmOn(r) ==
    Then(MTCProofSigAlg(r.version), Then(X509Name(r.version, r.issuer),
        Then(Validity(r.entry.base), Then(Element(SEQUENCE, r.entry.subject),
            Then(r.entry.publicKey, CertRest(r))))))

LEMMA UnserialedIs ==
    ASSUME NEW r \in Requests, NEW k, NEW a, IsKey(r, k, a)
    PROVE  Unserialed(TBSOf(r)) = Then(addX509V3Version, AlgorithmOn(r))
  <1> DEFINE e1 == addX509V3Version
             e2 == Integer(r.serial)
             e3 == MTCProofSigAlg(r.version)
             e4 == X509Name(r.version, r.issuer)
             e5 == Validity(r.entry.base)
             e6 == Element(SEQUENCE, r.entry.subject)
             e7 == r.entry.publicKey
             e8 == CertRest(r)
             t == TBSOf(r)
             w == AlgorithmOn(r)
  <1>1. /\ e1 \in Data /\ e4 \in Data /\ e5 \in Data /\ e6 \in Data /\ e7 \in Data /\ e8 \in Data
    BY EntryIsData
  <1>2. e3 \in Data
    <2>1. Identifier(r.version) \in Data
      BY OIDsAreNat, IdentifiersAre DEF Identifier
    <2>2. e3 = Element(SEQUENCE, Identifier(r.version))
      BY DEF MTCProofSigAlg, Identifier
    <2> QED
      BY <2>1, <2>2, ElementIs, TagsAreNat
  <1>3. e2 \in Data /\ Len(e2) = 3
    BY RequestIs, IntegerLength
  <1>4. Len(e1) = 5
    <2> DEFINE i == Integer(2)
    <2>1. i \in Data /\ Len(i) = 3
      BY IntegerLength
    <2> HIDE DEF i
    <2>2. Len(Element(CONTEXT_0, i)) = 2 + Len(i)
      BY <2>1, ElementIs, TagsAreNat
    <2>3. Len(Element(CONTEXT_0, i)) = 5
      BY <2>1, <2>2
    <2> QED
      BY <2>3 DEF addX509V3Version, i
  <1>5. t = Then(Then(Then(Then(Then(Then(Then(e1, e2), e3), e4), e5), e6), e7), e8)
    BY Zenon DEF TBSOf, Then
  <1>6. w = Then(e3, Then(e4, Then(e5, Then(e6, Then(e7, e8)))))
    BY Zenon DEF AlgorithmOn
  <1> HIDE DEF e1, e2, e3, e4, e5, e6, e7, e8, t, w
  <1>7. w \in Data
    BY <1>1, <1>2, <1>6, ThenIs
  <1>8. t = Then(e1, Then(e2, w))
    <2>1. FromLeft(t, e1, e2, e3, e4, e5, e6, e7, e8)
      BY <1>5, Zenon DEF FromLeft
    <2>2. FromRight(t, e1, e2, e3, e4, e5, e6, e7, e8)
      BY <1>1, <1>2, <1>3, <2>1, ThenEight
    <2> QED
      BY <1>6, <2>2, Zenon DEF FromRight
  <1>9. SubSeq(t, 1, 5) = e1 /\ SubSeq(t, 9, Len(t)) = w
    <2> DEFINE first == Len(e1)
               last == Len(e1) + Len(e2) + 1
    <2>1. first = 5 /\ last = 9
      BY <1>3, <1>4
    <2>2. e1 \in Data /\ e2 \in Data
      BY <1>1, <1>3
    <2>3. ThreeParts(t, e1, e2, w, first, last)
      BY <1>8, Zenon DEF ThreeParts
    <2> HIDE DEF first, last
    <2>4. SubSeq(t, 1, first) = e1 /\ SubSeq(t, last, Len(t)) = w
      BY <1>7, <2>2, <2>3, EndsAre
    <2> QED
      BY <2>1, <2>4, Zenon
  <1>10. t[1] = CONTEXT_0 /\ t[2] = 3
    <2>1. Integer(2) \in Data /\ Len(Integer(2)) = 3
      BY IntegerLength
    <2> DEFINE i == Integer(2)
               u == Then(e2, w)
               x == Element(CONTEXT_0, i) \o u
    <2>2. i \in Data /\ u \in Data /\ Len(i) = 3
      BY <1>3, <1>7, <2>1, ThenIs
    <2>3. t = x
      BY <1>8, Zenon DEF e1, addX509V3Version, Then
    <2> HIDE DEF i, u
    <2>4. IsElement(x, CONTEXT_0, i, u)
      BY <2>2, ElementIsRead, TagsAreNat
    <2> HIDE DEF x
    <2> QED
      BY <2>2, <2>3, <2>4 DEF IsElement
  <1>11. Unserialed(t) = SubSeq(t, 1, 5) \o SubSeq(t, 9, Len(t))
    <2> DEFINE v == IF t[1] = CONTEXT_0 THEN 2 + t[2] ELSE 0
    <2>1. Unserialed(t) = SubSeq(t, 1, v) \o SubSeq(t, v + 4, Len(t))
      BY Zenon DEF Unserialed
    <2>2. v = 5
      BY <1>10
    <2> HIDE DEF v
    <2>3. v + 4 = 9
      BY <2>2
    <2> QED
      BY <2>1, <2>2, <2>3, Zenon
  <1> QED
    BY <1>9, <1>11, Zenon DEF t, e1, w, Then

\* Without its version, a TBSCertificate begins with the serial number and has
\* the same parts.
LEMMA FieldsWithoutVersion ==
    ASSUME NEW r \in Requests, NEW k, NEW a, IsKey(r, k, a),
           NEW u, u = SubSeq(TBSOf(r), 3 + TBSOf(r)[2], Len(TBSOf(r)))
    PROVE  /\ u[1] = INTEGER
           /\ ReadElements(TagsAfterVersion, u)
                = [ok |-> TRUE, parts |-> [i \in 1 .. 6 |-> CertParts(r, k)[i + 1]],
                   rest |-> CertRest(r)]
  <1> DEFINE t == TBSOf(r)
             p == CertParts(r, k)
             q == [i \in 1 .. 6 |-> p[i + 1]]
  <1>1. PICK tails : /\ IsChain(CertTags, p, tails)
                     /\ tails[1] = t /\ tails[8] = CertRest(r)
    BY CertificateIsChain DEF IsKey
  <1> HIDE DEF t, p
  <1> DEFINE w == [i \in 1 .. 7 |-> tails[i + 1]]
  <1>2. /\ Len(CertTags) = 7 /\ CertTags[1] = CONTEXT_0
        /\ \A i \in 1 .. 6 : CertTags[1 + i] = TagsAfterVersion[i]
        /\ TagsAfterVersion \in Seq(Nat) /\ Len(TagsAfterVersion) = 6
    BY TagsJoin
  <1>3. /\ \A i \in 1 .. 8 : tails[i] \in Data
        /\ \A i \in 1 .. 7 : p[i] \in Data
        /\ \A i \in 1 .. 7 : tails[i] = Element(CertTags[i], p[i]) \o tails[i + 1]
    <2>1. /\ tails \in Seq(Data) /\ p \in Seq(Data) /\ Len(tails) = 7 + 1 /\ Len(p) = 7
          /\ \A i \in 1 .. 7 : tails[i] = Element(CertTags[i], p[i]) \o tails[i + 1]
      BY <1>1, <1>2, Zenon DEF IsChain
    <2>2. \A s \in Seq(Data) : \A i \in 1 .. Len(s) : s[i] \in Data
      OBVIOUS
    <2>3. 7 + 1 = 8
      OBVIOUS
    <2> QED
      BY <2>1, <2>2, <2>3, Zenon
  <1>4. /\ tails[2] \in Data /\ tails[3] \in Data /\ p[1] \in Data /\ p[2] \in Data
        /\ tails[1] = Element(CONTEXT_0, p[1]) \o tails[2]
        /\ tails[2] = Element(INTEGER, p[2]) \o tails[3]
    <2>1. /\ 1 \in 1 .. 7 /\ 2 \in 1 .. 7 /\ 2 \in 1 .. 8 /\ 3 \in 1 .. 8 /\ 1 + 1 = 2 /\ 2 + 1 = 3
      OBVIOUS
    <2>2. CertTags[2] = INTEGER
      BY DEF CertTags
    <2> QED
      BY <1>2, <1>3, <2>1, <2>2, Zenon
  <1>5. u = tails[2]
    <2> DEFINE x == Element(CONTEXT_0, p[1]) \o tails[2]
    <2>1. IsElement(x, CONTEXT_0, p[1], tails[2])
      BY <1>4, ElementIsRead, TagsAreNat
    <2>2. x = t
      BY <1>1, <1>4, Zenon
    <2> HIDE DEF x
    <2>3. SubSeq(t, 3 + t[2], Len(t)) = tails[2]
      BY <2>1, <2>2, Zenon DEF IsElement
    <2> QED
      BY <2>3, Zenon DEF t
  <1>6. u[1] = INTEGER
    <2> DEFINE x == Element(INTEGER, p[2]) \o tails[3]
    <2>1. IsElement(x, INTEGER, p[2], tails[3])
      BY <1>4, ElementIsRead, TagsAreNat
    <2>2. x = u
      BY <1>4, <1>5, Zenon
    <2> HIDE DEF x
    <2> QED
      BY <2>1, <2>2, Zenon DEF IsElement
  <1>7. /\ w \in Seq(Data) /\ Len(w) = 7 /\ \A i \in 1 .. 7 : w[i] = tails[i + 1]
    <2>1. \A i \in 1 .. 7 : tails[i + 1] \in Data
      <3>1. \A i \in 1 .. 7 : i + 1 \in 1 .. 8
        OBVIOUS
      <3> QED
        BY <1>3, <3>1
    <2> QED
      BY <2>1
  <1>8. /\ q \in Seq(Data) /\ Len(q) = 6 /\ \A i \in 1 .. 6 : q[i] = p[i + 1]
    <2>1. \A i \in 1 .. 6 : p[i + 1] \in Data
      <3>1. \A i \in 1 .. 6 : i + 1 \in 1 .. 7
        OBVIOUS
      <3> QED
        BY <1>3, <3>1
    <2> QED
      BY <2>1
  <1> HIDE DEF w, q
  <1>9. \A i \in 1 .. 6 : w[i] = Element(TagsAfterVersion[i], q[i]) \o w[i + 1]
    <2> TAKE i \in 1 .. 6
    <2>1. i \in 1 .. 7 /\ i + 1 \in 1 .. 7 /\ 1 + i = i + 1
      OBVIOUS
    <2>2. tails[i + 1] = Element(CertTags[i + 1], p[i + 1]) \o tails[(i + 1) + 1]
      BY <1>3, <2>1, Zenon
    <2> QED
      BY <1>2, <1>7, <1>8, <2>1, <2>2, Zenon
  <1>10. IsChain(TagsAfterVersion, q, w)
    <2>1. 6 + 1 = 7
      OBVIOUS
    <2> QED
      BY <1>2, <1>7, <1>8, <1>9, <2>1, Zenon DEF IsChain
  <1>11. w[1] = tails[2] /\ w[7] = CertRest(r)
    <2>1. 1 \in 1 .. 7 /\ 7 \in 1 .. 7 /\ 1 + 1 = 2 /\ 7 + 1 = 8
      OBVIOUS
    <2> QED
      BY <1>1, <1>7, <2>1, Zenon
  <1>12. ReadElements(TagsAfterVersion, u) = [ok |-> TRUE, parts |-> q, rest |-> CertRest(r)]
    <2>1. ReadElements(TagsAfterVersion, w[1])
            = [ok |-> TRUE, parts |-> q, rest |-> w[Len(TagsAfterVersion) + 1]]
      BY <1>10, ElementsAreRead
    <2>2. Len(TagsAfterVersion) + 1 = 7
      BY <1>2
    <2> QED
      BY <1>5, <1>11, <2>1, <2>2, Zenon
  <1> QED
    BY <1>6, <1>12, Zenon DEF q, p

LEMMA EntryWithoutVersionIs ==
    ASSUME NEW r \in Requests, NEW k, NEW a, IsKey(r, k, a),
           NEW c, c.tbs = SubSeq(TBSOf(r), 3 + TBSOf(r)[2], Len(TBSOf(r))),
           c.spki = r.entry.publicKey, NEW x \in Data
    PROVE  EntryOf(c, x) = Then(Then(Vector(2, x), BigEndian(2, entryTypeTBSCert)), NameOn(r, a))
  <1> DEFINE version == IF c.tbs[1] = CONTEXT_0 THEN <<CONTEXT_0>> ELSE <<>>
             fields  == ReadElements(version \o
                      <<INTEGER, SEQUENCE, SEQUENCE, SEQUENCE, SEQUENCE, SEQUENCE>>, c.tbs)
             part(i) == fields.parts[Len(version) + i]
             alg == ReadElements(<<SEQUENCE>>, part(6))
             p == CertParts(r, k)
             q == [i \in 1 .. 6 |-> p[i + 1]]
             m == Vector(2, x)
             t == BigEndian(2, entryTypeTBSCert)
             b == Then(m, t)
             o1 == Optional(version # <<>>, Element(CONTEXT_0, fields.parts[1]))
             f2 == Element(SEQUENCE, part(3))
             f3 == Element(SEQUENCE, part(4))
             f4 == Element(SEQUENCE, part(5))
             f5 == Element(SEQUENCE, alg.parts[1])
             f6 == Element(OCTET_STRING, c.spki)
             f7 == fields.rest
             e2 == X509Name(r.version, r.issuer)
             e3 == Validity(r.entry.base)
             e4 == Element(SEQUENCE, r.entry.subject)
             e5 == Element(SEQUENCE, a)
             e6 == Element(OCTET_STRING, r.entry.publicKey)
             e7 == CertRest(r)
             z == <<>>
             whole == Then(Then(Then(Then(Then(Then(b, e2), e3), e4), e5), e6), e7)
  <1>1. EntryOf(c, x)
          = IF ~alg.ok THEN <<>>
            ELSE Then(Then(Then(Then(Then(Then(Then(b, o1), f2), f3), f4), f5), f6), f7)
    BY Zenon DEF EntryOf, Then, Sha256
  <1>2. /\ c.tbs[1] = INTEGER
        /\ ReadElements(TagsAfterVersion, c.tbs)
             = [ok |-> TRUE, parts |-> q, rest |-> CertRest(r)]
    BY FieldsWithoutVersion
  <1>3. version = z
    <2>1. INTEGER # CONTEXT_0
      BY DEF INTEGER, CONTEXT_0
    <2> QED
      BY <1>2, <2>1, Zenon
  <1>4. Len(z) = 0
    OBVIOUS
  <1> HIDE DEF q
  <1>5. fields = [ok |-> TRUE, parts |-> q, rest |-> CertRest(r)]
    <2>1. z \o <<INTEGER, SEQUENCE, SEQUENCE, SEQUENCE, SEQUENCE, SEQUENCE>> = TagsAfterVersion
      BY TagsJoin, Zenon DEF TagsAfterVersion
    <2> HIDE DEF version
    <2> QED
      BY <1>2, <1>3, <2>1, Zenon
  <1>6. Len(version) = 0 /\ ~(version # <<>>)
    BY <1>3, <1>4, Zenon
  <1> HIDE DEF version, fields
  <1>7. /\ p[4] = NameContents(r.version, r.issuer) /\ p[5] = r.entry.base.validity
        /\ p[6] = r.entry.subject /\ p[7] = k
    BY DEF CertParts
  <1> HIDE DEF p
  <1>8. q[3] = p[4] /\ q[4] = p[5] /\ q[5] = p[6] /\ q[6] = p[7]
    BY DEF q
  <1>9. fields.parts = q /\ fields.rest = CertRest(r)
    BY <1>5
  <1>10. /\ part(3) = NameContents(r.version, r.issuer)
         /\ part(4) = r.entry.base.validity /\ part(5) = r.entry.subject /\ part(6) = k
    <2>1. 0 + 3 = 3 /\ 0 + 4 = 4 /\ 0 + 5 = 5 /\ 0 + 6 = 6
      OBVIOUS
    <2> QED
      BY <1>6, <1>7, <1>8, <1>9, <2>1, Zenon
  <1>11. alg.ok /\ alg.parts[1] = a
    BY <1>10, Zenon DEF IsKey
  <1>12. o1 = z
    BY <1>6, Zenon DEF Optional
  <1>13. f2 = e2 /\ f3 = e3 /\ f4 = e4 /\ f5 = e5 /\ f6 = e6 /\ f7 = e7
    <2>1. e2 = Element(SEQUENCE, NameContents(r.version, r.issuer))
      BY EntryIsData
    <2> QED
      BY <1>9, <1>10, <1>11, <2>1, Zenon DEF Validity
  <1>14. /\ e2 \in Data /\ e3 \in Data /\ e4 \in Data /\ e5 \in Data
         /\ e6 \in Data /\ e7 \in Data
    BY EntryIsData
  <1>15. b \in Data
    <2>1. entryTypeTBSCert \in Nat
      BY DEF entryTypeTBSCert
    <2>2. m \in Data /\ t \in Data
      BY <2>1, VectorIs, BigEndianIs
    <2> QED
      BY <2>2, ThenIs
  <1>16. NameOn(r, a) = Then(e2, Then(e3, Then(e4, Then(e5, Then(e6, e7)))))
    BY Zenon DEF NameOn
  <1>17. Then(b, z) = b
    <2> HIDE DEF b
    <2> QED
      BY <1>15, DataAre DEF Then
  <1> HIDE DEF alg, part, o1, f2, f3, f4, f5, f6, f7, e2, e3, e4, e5, e6, e7, b, z
  <1>18. EntryOf(c, x) = whole
    BY <1>1, <1>11, <1>12, <1>13, <1>17, Zenon
  <1> HIDE DEF whole
  <1>19. SevenFromLeft(whole, b, e2, e3, e4, e5, e6, e7)
    BY Zenon DEF SevenFromLeft, whole
  <1>20. SevenFromRight(whole, b, e2, e3, e4, e5, e6, e7)
    BY <1>14, <1>15, <1>19, ThenSeven
  <1> QED
    BY <1>16, <1>18, <1>20, Zenon DEF SevenFromRight, b, m, t

LEMMA WithoutVersionIs ==
    ASSUME NEW t, NEW v, NEW s, NEW u, NEW k, NEW i, NEW e
    PROVE  LET c == WithoutVersion(Parsed(t, v, s, u, k, i, e))
           IN  c.tbs = SubSeq(t, 3 + t[2], Len(t)) /\ c.spki = k
  <1> DEFINE n == SubSeq(t, 3 + t[2], Len(t))
             m == MTCProofSigAlg(v)
             w == Element(SEQUENCE, u)
             p == Parsed(t, v, s, u, k, i, e)
  <1>1. p = [ok |-> TRUE, tbs |-> t, sigAlg |-> m, signature |-> s, issuer |-> i,
             subject |-> w, spki |-> k, extensions |-> e]
    BY DEF Parsed
  <1> HIDE DEF m, w, p
  <1>2. p.tbs = t
    BY <1>1
  <1>3. WithoutVersion(p) = [p EXCEPT !.tbs = n]
    BY <1>2, Zenon DEF WithoutVersion
  <1> HIDE DEF n
  <1>4. [p EXCEPT !.tbs = n].tbs = n /\ [p EXCEPT !.tbs = n].spki = k
    BY <1>1
  <1> QED
    BY <1>3, <1>4, Zenon DEF p, n

-----------------------------------------------------------------------------

\* What the relying party has of a certificate that was issued for r.
LEMMA IssuedIsRead ==
    ASSUME NEW r \in Requests, r.version >= Plants04, Issued(r)
    PROVE  LET c == ParseCertificate(CertificateOf(r))
           IN  \E k, a : /\ IsKey(r, k, a)
                         /\ c.ok /\ c.tbs = TBSOf(r) /\ c.spki = r.entry.publicKey
                         /\ WithoutVersion(c).tbs
                              = SubSeq(TBSOf(r), 3 + TBSOf(r)[2], Len(TBSOf(r)))
                         /\ WithoutVersion(c).spki = r.entry.publicKey
  <1> DEFINE c == ParseCertificate(CertificateOf(r))
             t == TBSOf(r)
             n == SubSeq(t, 3 + t[2], Len(t))
             s == SignatureOf(r)
  <1>1. PICK k, a : IsKey(r, k, a)
    BY KeyExists
  <1>2. k \in Data /\ r.entry.publicKey = Element(SEQUENCE, k)
    BY <1>1 DEF IsKey
  <1>3. PICK i, e : c = Parsed(t, r.version, s, r.entry.subject, r.entry.publicKey, i, e)
    BY <1>2, CertificateIsRead, Zenon
  <1> HIDE DEF c, s, t
  <1>4. c.ok /\ c.tbs = t /\ c.spki = r.entry.publicKey
    BY <1>3, ParsedIs
  <1> DEFINE w == WithoutVersion(Parsed(t, r.version, s, r.entry.subject, r.entry.publicKey, i, e))
  <1>5. w.tbs = n /\ w.spki = r.entry.publicKey
    BY WithoutVersionIs
  <1>6. WithoutVersion(c) = w
    BY <1>3, Zenon
  <1> HIDE DEF n, w
  <1>7. WithoutVersion(c).tbs = n /\ WithoutVersion(c).spki = r.entry.publicKey
    BY <1>5, <1>6, Zenon
  <1> QED
    BY <1>1, <1>4, <1>7, Zenon DEF c, n, t

\* The parts before the version, or the issuer, of an entry.
EntryFrom(x, rest) == Then(Then(Vector(2, x), BigEndian(2, entryTypeTBSCert)), rest)
IsEntryFrom(whole, x, rest) == whole = EntryFrom(x, rest)

LEMMA EntryFromTells ==
    ASSUME NEW x \in Data, NEW y \in Data, Len(x) < Place[2], Len(y) < Place[2],
           NEW p \in Data, NEW q \in Data,
           NEW whole, IsEntryFrom(whole, x, p), IsEntryFrom(whole, y, q)
    PROVE  x = y /\ p = q
  <1> DEFINE t == BigEndian(2, entryTypeTBSCert)
             v == Vector(2, x)
             w == Vector(2, y)
             f == Then(t, p)
             g == Then(t, q)
  <1>1. t \in Data
    <2>1. entryTypeTBSCert \in Nat
      BY DEF entryTypeTBSCert
    <2> QED
      BY <2>1, BigEndianIs
  <1>2. v \in Data /\ w \in Data
    BY VectorIs
  <1>3. Then(Then(v, t), p) = Then(Then(w, t), q)
    BY Zenon DEF EntryFrom, IsEntryFrom
  <1> HIDE DEF t
  <1>4. f \in Data /\ g \in Data
    BY <1>1, ThenIs
  <1>5. Then(v, f) = Then(w, g)
    <2> HIDE DEF v, w
    <2>1. Then(Then(v, t), p) = Then(v, f) /\ Then(Then(w, t), q) = Then(w, g)
      BY <1>1, <1>2, ThenIs
    <2> QED
      BY <1>3, <2>1, Zenon
  <1>6. x = y /\ f = g
    <2> DEFINE u == Then(v, f)
    <2>1. BeginsWithVector(u, x, f) /\ BeginsWithVector(u, y, g)
      BY <1>5, Zenon DEF BeginsWithVector
    <2> HIDE DEF f, g, u
    <2> QED
      BY <1>4, <2>1, VectorTellsParts
  <1>7. IsConcat(f, t, p) /\ IsConcat(f, t, q)
    BY <1>6, Zenon DEF IsConcat, Then
  <1>8. t \in Seq(Datum) /\ p \in Seq(Datum) /\ q \in Seq(Datum)
    BY <1>1 DEF Data
  <1> HIDE DEF f
  <1>9. p = q
    BY <1>7, <1>8, PartsEqual
  <1> QED
    BY <1>6, <1>9

LEMMA EntriesTell ==
    ASSUME NEW r \in Requests, NEW k, NEW a, IsKey(r, k, a),
           NEW s \in Requests, NEW l, NEW b, IsKey(s, l, b), r.version = s.version
    PROVE  /\ NameOn(r, a) \in Data /\ VersionOn(r, a) \in Data
           /\ NameOn(r, a) # VersionOn(s, b)
           /\ VersionOn(r, a) = VersionOn(s, b) => Unserialed(TBSOf(r)) = Unserialed(TBSOf(s))
  <1> DEFINE i == Integer(2)
             n == NameOn(r, a)
             m == NameOn(s, b)
             w == VersionOn(r, a)
             z == VersionOn(s, b)
             c == NameContents(r.version, r.issuer)
             d == Then(Validity(r.entry.base),
                      Then(Element(SEQUENCE, r.entry.subject), Then(Element(SEQUENCE, a),
                          Then(Element(OCTET_STRING, r.entry.publicKey), CertRest(r)))))
  <1>1. ASSUME NEW t \in Requests, NEW g, NEW h, IsKey(t, g, h)
        PROVE  NameOn(t, h) \in Data /\ VersionOn(t, h) \in Data
    <2>1. /\ X509Name(t.version, t.issuer) \in Data /\ Validity(t.entry.base) \in Data
          /\ Element(SEQUENCE, t.entry.subject) \in Data /\ Element(SEQUENCE, h) \in Data
          /\ Element(OCTET_STRING, t.entry.publicKey) \in Data /\ CertRest(t) \in Data
          /\ addX509V3Version \in Data
      BY <1>1, EntryIsData
    <2> QED
      BY <2>1, ThenIs DEF NameOn, VersionOn
  <1>2. n \in Data /\ m \in Data /\ w \in Data /\ z \in Data
    BY <1>1
  <1>3. i \in Data
    BY IntegerLength
  <1>4. c \in Data /\ d \in Data
    <2>1. /\ Validity(r.entry.base) \in Data
          /\ Element(SEQUENCE, r.entry.subject) \in Data /\ Element(SEQUENCE, a) \in Data
          /\ Element(OCTET_STRING, r.entry.publicKey) \in Data /\ CertRest(r) \in Data
          /\ c \in Data
      BY EntryIsData
    <2> QED
      BY <2>1, ThenIs
  <1>5. Begins(w, CONTEXT_0, i, n) /\ Begins(z, CONTEXT_0, i, m)
    BY Zenon DEF Begins, VersionOn, addX509V3Version
  <1>6. Begins(n, SEQUENCE, c, d)
    <2>1. X509Name(r.version, r.issuer) = Element(SEQUENCE, c)
      BY EntryIsData
    <2> HIDE DEF c
    <2> QED
      BY <2>1, Zenon DEF Begins, NameOn
  <1> HIDE DEF i, n, m, w, z, c, d
  <1>7. n # z
    <2> SUFFICES ASSUME n = z PROVE FALSE
      OBVIOUS
    <2>1. Begins(n, CONTEXT_0, i, m)
      BY <1>5, Zenon
    <2>2. SEQUENCE = CONTEXT_0
      BY <1>2, <1>3, <1>4, <1>6, <2>1, ElementTellsParts, TagsAreNat
    <2> QED
      BY <2>2 DEF SEQUENCE, CONTEXT_0
  <1>8. w = z => n = m
    <2> SUFFICES ASSUME w = z PROVE n = m
      OBVIOUS
    <2>1. Begins(w, CONTEXT_0, i, m)
      BY <1>5, Zenon
    <2> QED
      BY <1>2, <1>3, <1>5, <2>1, ElementTellsParts, TagsAreNat
  <1>9. n = m => Unserialed(TBSOf(r)) = Unserialed(TBSOf(s))
    <2> SUFFICES ASSUME n = m PROVE Unserialed(TBSOf(r)) = Unserialed(TBSOf(s))
      OBVIOUS
    <2>1. /\ X509Name(r.version, r.issuer) = X509Name(s.version, s.issuer)
          /\ Validity(r.entry.base) = Validity(s.entry.base)
          /\ r.entry.subject = s.entry.subject /\ r.entry.publicKey = s.entry.publicKey
          /\ CertRest(r) = CertRest(s)
      BY NameOnTells DEF n, m
    <2>2. AlgorithmOn(r) = AlgorithmOn(s)
      BY <2>1, Zenon DEF AlgorithmOn
    <2> QED
      BY <2>2, UnserialedIs
  <1> QED
    BY <1>2, <1>7, <1>8, <1>9, Zenon DEF n, w, z

\* A log entry stands for one certificate.
THEOREM EntriesStandForOneCertificate == FormatSpec => []EntryDeterminesCertificate
  <1> DEFINE C(r) == ParseCertificate(CertificateOf(r))
             IsLatest(r) == r \in Requests /\ r.version = Plants07 /\ Issued(r)
  <1>1. ASSUME NEW r, IsLatest(r)
        PROVE  \E k, a :
                 /\ IsKey(r, k, a) /\ C(r).tbs = TBSOf(r) /\ NameOn(r, a) \in Data
                 /\ VersionOn(r, a) \in Data
                 /\ \A x \in Data :
                       /\ EntryOf(C(r), x) = EntryFrom(x, VersionOn(r, a))
                       /\ EntryOf(WithoutVersion(C(r)), x) = EntryFrom(x, NameOn(r, a))
    <2>1. r \in Requests /\ r.version >= Plants04 /\ Issued(r)
      BY <1>1 DEF Plants07, Plants04
    <2>2. PICK k, a : /\ IsKey(r, k, a)
                      /\ C(r).tbs = TBSOf(r) /\ C(r).spki = r.entry.publicKey
                      /\ WithoutVersion(C(r)).tbs
                           = SubSeq(TBSOf(r), 3 + TBSOf(r)[2], Len(TBSOf(r)))
                      /\ WithoutVersion(C(r)).spki = r.entry.publicKey
      BY <2>1, IssuedIsRead
    <2> DEFINE c == C(r)
               d == WithoutVersion(C(r))
    <2>3. /\ c.tbs = TBSOf(r) /\ c.spki = r.entry.publicKey
          /\ d.tbs = SubSeq(TBSOf(r), 3 + TBSOf(r)[2], Len(TBSOf(r)))
          /\ d.spki = r.entry.publicKey
      BY <2>2
    <2> HIDE DEF c, d
    <2>4. \A x \in Data : EntryOf(c, x) = EntryFrom(x, VersionOn(r, a))
      BY <2>1, <2>2, <2>3, EntryIs DEF EntryFrom
    <2>5. \A x \in Data : EntryOf(d, x) = EntryFrom(x, NameOn(r, a))
      BY <2>1, <2>2, <2>3, EntryWithoutVersionIs DEF EntryFrom
    <2>6. NameOn(r, a) \in Data /\ VersionOn(r, a) \in Data
      BY <2>1, <2>2, EntriesTell
    <2> QED
      BY <2>2, <2>4, <2>5, <2>6, Zenon DEF c, d
  <1> HIDE DEF C
  <1>2. ASSUME NEW r \in Requests
        PROVE  /\ r.entry.mtcEntryExtensions \in Data
               /\ Len(r.entry.mtcEntryExtensions) < Place[2]
    <2>1. r.entry \in EntryConfig /\ r.entry.mtcEntryExtensions \in Data
      BY RequestIs
    <2> QED
      BY <2>1 DEF EntryConfig
  <1>3. ASSUME NEW r, IsLatest(r), NEW s, IsLatest(s), NEW e, NEW x, NEW y,
               e \in {C(r), WithoutVersion(C(r))},
               x \in Data, y \in Data, Len(x) < Place[2], Len(y) < Place[2],
               EntryOf(e, x) = EntryOf(C(s), y)
        PROVE  Unserialed(e.tbs) = Unserialed(C(s).tbs) /\ x = y
    <2>1. PICK k, a :
                 /\ IsKey(r, k, a) /\ C(r).tbs = TBSOf(r) /\ NameOn(r, a) \in Data
                 /\ VersionOn(r, a) \in Data
                 /\ \A z \in Data :
                       /\ EntryOf(C(r), z) = EntryFrom(z, VersionOn(r, a))
                       /\ EntryOf(WithoutVersion(C(r)), z) = EntryFrom(z, NameOn(r, a))
      BY <1>1, <1>3
    <2>2. PICK l, b :
                 /\ IsKey(s, l, b) /\ C(s).tbs = TBSOf(s) /\ NameOn(s, b) \in Data
                 /\ VersionOn(s, b) \in Data
                 /\ \A z \in Data :
                       /\ EntryOf(C(s), z) = EntryFrom(z, VersionOn(s, b))
                       /\ EntryOf(WithoutVersion(C(s)), z) = EntryFrom(z, NameOn(s, b))
      BY <1>1, <1>3
    <2>3. r \in Requests /\ s \in Requests /\ r.version = s.version
      BY <1>3
    <2>4. /\ NameOn(r, a) # VersionOn(s, b)
          /\ VersionOn(r, a) = VersionOn(s, b) => Unserialed(TBSOf(r)) = Unserialed(TBSOf(s))
      BY <2>1, <2>2, <2>3, EntriesTell
    <2> DEFINE whole == EntryOf(C(s), y)
               m == NameOn(r, a)
               v == VersionOn(r, a)
               w == VersionOn(s, b)
    <2>7. m \in Data /\ v \in Data /\ w \in Data
      BY <2>1, <2>2
    <2>8. IsEntryFrom(whole, y, w)
      BY <2>2, <1>3, Zenon DEF IsEntryFrom
    <2>9. x \in Data /\ y \in Data /\ Len(x) < Place[2] /\ Len(y) < Place[2]
      BY <1>3
    <2>5. CASE e = C(r)
      <3>1. IsEntryFrom(whole, x, v)
        BY <1>3, <2>1, <2>5, Zenon DEF IsEntryFrom
      <3>2. x = y /\ VersionOn(r, a) = VersionOn(s, b)
        <4> HIDE DEF v, w, whole
        <4>1. x = y /\ v = w
          BY <2>7, <2>8, <2>9, <3>1, EntryFromTells
        <4> QED
          BY <4>1, Zenon DEF v, w
      <3> QED
        BY <2>1, <2>2, <2>4, <2>5, <3>2, Zenon
    <2>6. CASE e = WithoutVersion(C(r))
      <3>1. IsEntryFrom(whole, x, m)
        BY <1>3, <2>1, <2>6, Zenon DEF IsEntryFrom
      <3>2. NameOn(r, a) = VersionOn(s, b)
        <4> HIDE DEF m, w, whole
        <4>1. m = w
          BY <2>7, <2>8, <2>9, <3>1, EntryFromTells
        <4> QED
          BY <4>1, Zenon DEF m, w
      <3> QED
        BY <2>4, <3>2
    <2> QED
      BY <1>3, <2>5, <2>6
  <1>4. WrittenCertificate => EntryDeterminesCertificate
    <2> DEFINE y == asked.entry.mtcEntryExtensions
    <2> SUFFICES ASSUME WrittenCertificate, cert.ok, asked.version = Plants07,
                        NEW t \in Readings, t[1] = EntryOf(cert, y)
                 PROVE  t[2] = Unserialed(cert.tbs) /\ t[3] = y
      BY DEF EntryDeterminesCertificate
    <2>1. IsLatest(asked) /\ cert = C(asked)
      <3>1. cert # Nothing
        BY DEF Nothing
      <3> QED
        BY <3>1 DEF WrittenCertificate, C
    <2>2. PICK r, q, e :
              /\ r \in Compared /\ q \in Requests /\ r.version = Plants07 /\ Issued(r) /\ e \in {C(r), WithoutVersion(C(r))}
              /\ t = <<EntryOf(e, q.entry.mtcEntryExtensions), Unserialed(e.tbs),
                       q.entry.mtcEntryExtensions>>
      <3> DEFINE Latest == {r \in Compared : r.version = Plants07 /\ Issued(r)}
                 Certs  == {ParseCertificate(CertificateOf(r)) : r \in Latest}
                 Exts   == {r.entry.mtcEntryExtensions : r \in Requests}
      <3>1. t \in {<<EntryOf(c, x), Unserialed(c.tbs), x>> :
                        c \in Certs \cup {WithoutVersion(c) : c \in Certs}, x \in Exts}
        BY SMT DEF Readings
      <3> HIDE DEF Certs, Exts
      <3>2. PICK e \in Certs \cup {WithoutVersion(c) : c \in Certs}, z \in Exts :
                t = <<EntryOf(e, z), Unserialed(e.tbs), z>>
        BY <3>1
      <3>3. PICK q \in Requests : z = q.entry.mtcEntryExtensions
        BY DEF Exts
      <3>4. PICK c \in Certs : e \in {c, WithoutVersion(c)}
        OBVIOUS
      <3>5. PICK r \in Latest : c = C(r)
        BY DEF Certs, C
      <3>6. /\ r \in Compared /\ r.version = Plants07 /\ Issued(r)
            /\ e \in {C(r), WithoutVersion(C(r))}
        BY <3>4, <3>5, Zenon
      <3> QED
        BY <3>2, <3>3, <3>6, Zenon
    <2>3. IsLatest(r)
      BY <2>2, FormatAssumption
    <2> DEFINE x == q.entry.mtcEntryExtensions
    <2>4. x \in Data /\ Len(x) < Place[2] /\ y \in Data /\ Len(y) < Place[2]
      <3>1. asked \in Requests /\ q \in Requests
        BY <2>1, <2>2
      <3> QED
        BY <1>2, <3>1
    <2>5. t[1] = EntryOf(e, x) /\ t[2] = Unserialed(e.tbs) /\ t[3] = x
      BY <2>2
    <2> HIDE DEF x, y, IsLatest
    <2>6. EntryOf(e, x) = EntryOf(C(asked), y)
      BY <2>1, <2>5, Zenon
    <2>7. Unserialed(e.tbs) = Unserialed(C(asked).tbs) /\ x = y
      <3>1. IsLatest(asked) /\ e \in {C(r), WithoutVersion(C(r))}
        BY <2>1, <2>2, Zenon
      <3> QED
        BY <1>3, <2>3, <2>4, <2>6, <3>1
    <2> QED
      BY <2>1, <2>5, <2>7, Zenon
  <1> QED
    BY <1>4, CertificatesAreWritten, PTL
=============================================================================
