--------------------------- MODULE GenerateProofs ---------------------------
(*****************************************************************************)
(* A certificate that waits for a checkpoint knows the right interval, gets  *)
(* a subtree of that interval with its entry in it, and, if it is a landmark *)
(* certificate, one of the subtrees printed for the landmark whose number it *)
(* was given, for every configuration and log size.                          *)
(*****************************************************************************)
EXTENDS Generate, SubtreeProofs

Shape ==
    /\ stage \in {"start", "entries", "schedule", "checkpoints", "construct",
                  "done", "failed"}
    /\ entries \in Seq(EntryConfig) /\ Len(entries) <= MaxEntries
    /\ stage \in {"schedule", "checkpoints"} => entries # <<>>
    /\ stage = "start" => entries = <<>>
    /\ at \in Nat \ {0}
    /\ certInfos \in Seq(CertificateInfo)
    /\ awaitingCheckpoint \in [SeqName -> Seq(Wait)]
    /\ checkpointSeqs \in [SeqName -> Nat]
    /\ landmarks \in Seq(Nat) /\ landmarks # <<>>

\* No checkpoint is beyond the log, and when certificates are scheduled for an
\* entry, its checkpoints are yet to come.
CheckpointsInLog ==
    \A s \in SeqName :
        /\ checkpointSeqs[s] <= Len(entries)
        /\ stage = "schedule" => checkpointSeqs[s] < Len(entries)

\* What WaitsAreCurrent says of one certificate that waits for a checkpoint of s.
IsCurrent(w, s, infos, last, size) ==
    /\ w.idx \in DOMAIN infos
    /\ infos[w.idx].config.checkpoint = s
    /\ w.prev = last
    /\ w.prev <= infos[w.idx].index
    /\ infos[w.idx].index < size

\* The landmark certificate k waits, or its subtree is of its landmark.
IsWaiting(waits, k) == \E i \in DOMAIN waits : waits[i].idx = k

IsOfLandmark(info, marks) ==
    /\ info.landmarkNum \in 1 .. Len(marks) - 1
    /\ LET c == SubtreesForInterval(marks[info.landmarkNum], marks[info.landmarkNum + 1])
       IN  \/ info.start = c.start1 /\ info.end = c.end1
           \/ info.start = c.start2 /\ info.end = c.end2

LandmarkCertificate(info, k, waits, marks) ==
    info.landmarkNum > 0 =>
        /\ info.config.checkpoint = "landmark"
        /\ IF IsWaiting(waits, k) THEN info.landmarkNum = Len(marks)
                                  ELSE IsOfLandmark(info, marks)

LandmarkInv ==
    /\ landmarks[Len(landmarks)] = checkpointSeqs["landmark"]
    /\ \A k \in DOMAIN certInfos :
          LandmarkCertificate(certInfos[k], k, awaitingCheckpoint["landmark"], landmarks)
    /\ stage \in {"construct", "done"} => \A s \in SeqName : awaitingCheckpoint[s] = <<>>

Printed(landmark, start, end) ==
    [landmark |-> landmark, start |-> start, end |-> end] \in summary

SummaryInv ==
    stage = "done" =>
        \A i \in 1 .. Len(landmarks) - 1 :
            LET c == SubtreesForInterval(landmarks[i], landmarks[i + 1])
            IN  Printed(i, c.start1, c.end1) /\ Printed(i, c.start2, c.end2)

Inv == Shape /\ CheckpointsInLog /\ WaitsAreCurrent /\ LandmarkInv /\ SummaryInv

-----------------------------------------------------------------------------

LEMMA InvInit == Init => Inv
  <1> SUFFICES ASSUME Init PROVE Inv
    OBVIOUS
  <1>1. Shape
    <2>1. MaxEntries \in Nat
      BY ConfigAssumption, WordFacts
    <2> QED
      BY <2>1 DEF Init, Shape
  <1>2. CheckpointsInLog /\ WaitsAreCurrent
    BY DEF Init, CheckpointsInLog, WaitsAreCurrent
  <1>3. LandmarkInv
    BY ConfigAssumption DEF Init, LandmarkInv
  <1>4. SummaryInv
    BY DEF Init, SummaryInv
  <1> QED
    BY <1>1, <1>2, <1>3, <1>4 DEF Inv

\* Waiting is not disturbed by a log that grows.
LEMMA WaitsSurviveGrowth ==
    ASSUME Inv, UNCHANGED <<certInfos, awaitingCheckpoint, checkpointSeqs>>,
           Len(entries') \in Nat, Len(entries) <= Len(entries')
    PROVE  WaitsAreCurrent'
  <1> SUFFICES ASSUME NEW s \in SeqName, NEW i \in DOMAIN awaitingCheckpoint[s]
               PROVE  IsCurrent(awaitingCheckpoint[s][i], s, certInfos, checkpointSeqs[s],
                                Len(entries'))
    BY DEF WaitsAreCurrent, IsCurrent
  <1> DEFINE w == awaitingCheckpoint[s][i]
  <1>1. IsCurrent(w, s, certInfos, checkpointSeqs[s], Len(entries))
    BY DEF Inv, WaitsAreCurrent, IsCurrent
  <1>2. certInfos[w.idx] \in CertificateInfo
    BY <1>1 DEF Inv, Shape, IsCurrent
  <1>3. certInfos[w.idx].index \in Nat
    BY <1>2 DEF CertificateInfo
  <1>4. Len(entries) \in Nat
    BY DEF Inv, Shape
  <1> QED
    BY <1>1, <1>3, <1>4 DEF IsCurrent

\* The steps that change neither the checkpoints nor the certificates.
Quiet ==
    /\ UNCHANGED <<certInfos, awaitingCheckpoint, checkpointSeqs, landmarks>>
    /\ stage' \notin {"schedule", "construct", "done"}

LEMMA QuietStep ==
    ASSUME Inv, Quiet, Shape', Len(entries) <= Len(entries') PROVE Inv'
  <1>1. Len(entries) \in Nat /\ Len(entries') \in Nat
    BY DEF Inv, Shape
  <1>2. CheckpointsInLog'
    BY <1>1 DEF Inv, Shape, CheckpointsInLog, Quiet
  <1>3. WaitsAreCurrent'
    BY <1>1, WaitsSurviveGrowth DEF Quiet
  <1>4. LandmarkInv'
    BY DEF Inv, LandmarkInv, Quiet
  <1>5. SummaryInv'
    BY DEF SummaryInv, Quiet
  <1> QED
    BY <1>2, <1>3, <1>4, <1>5 DEF Inv

LEMMA StartStep ==
    ASSUME Inv, NEW plants04 \in BOOLEAN, NEW logNumber \in LogNumbers,
           StartLog(plants04, logNumber)
    PROVE  Inv'
  <1>1. CASE Fail
    BY <1>1, QuietStep DEF Fail, Quiet, Inv, Shape
  <1>2. CASE ~Fail
    <2>1. /\ stage = "start" /\ stage' = "entries"
          /\ entries' = (IF plants04 THEN <<>> ELSE <<NullEntry>>)
          /\ UNCHANGED <<at, certInfos, awaitingCheckpoint, checkpointSeqs, landmarks>>
      BY <1>2 DEF StartLog
    <2>2. NullEntry \in EntryConfig
      BY DEF NullEntry, EntryConfig
    <2>3. entries' \in Seq(EntryConfig) /\ Len(entries') \in Nat /\ Len(entries') <= MaxEntries
      <3>1. MaxEntries \in Nat \ {0}
        BY ConfigAssumption, WordFacts
      <3> QED
        BY <2>1, <2>2, <3>1
    <2>4. Len(entries) = 0
      BY <2>1 DEF Inv, Shape
    <2>5. Shape' /\ Quiet
      BY <2>1, <2>3 DEF Inv, Shape, Quiet
    <2> QED
      BY <2>3, <2>4, <2>5, QuietStep
  <1> QED
    BY <1>1, <1>2

LEMMA FailStep == Inv /\ Fail => Inv'
  <1> SUFFICES ASSUME Inv, Fail PROVE Inv'
    OBVIOUS
  <1>1. Shape' /\ Quiet /\ Len(entries) <= Len(entries')
    BY DEF Fail, Quiet, Inv, Shape
  <1> QED
    BY <1>1, QuietStep

LEMMA AppendEntryStep ==
    ASSUME Inv, NEW e \in EntryConfigs, AppendEntry(e) PROVE Inv'
  <1>1. CASE Fail
    BY <1>1, FailStep
  <1>2. CASE ~Fail
    <2>1. /\ stage = "entries" /\ Len(entries) < MaxEntries
          /\ stage' = "schedule" /\ at' = 1
          /\ entries' = Append(entries, e)
          /\ UNCHANGED <<certInfos, awaitingCheckpoint, checkpointSeqs, landmarks>>
      BY <1>2 DEF AppendEntry
    <2>2. e \in EntryConfig
      BY ConfigAssumption
    <2>3. /\ entries' \in Seq(EntryConfig) /\ Len(entries') = Len(entries) + 1
          /\ entries' # <<>> /\ Len(entries) \in Nat /\ Len(entries') <= MaxEntries
      <3>1. entries \in Seq(EntryConfig)
        BY DEF Inv, Shape
      <3>2. Append(entries, e) \in Seq(EntryConfig) /\ Len(Append(entries, e)) = Len(entries) + 1
        BY <2>2, <3>1
      <3>3. Len(entries) \in Nat /\ MaxEntries \in Nat
        BY <3>1, ConfigAssumption, WordFacts
      <3> QED
        BY <2>1, <3>2, <3>3
    <2>4. Shape'
      BY <2>1, <2>3 DEF Inv, Shape
    <2>5. CheckpointsInLog'
      BY <2>1, <2>3 DEF Inv, Shape, CheckpointsInLog
    <2>6. WaitsAreCurrent'
      BY <2>1, <2>3, WaitsSurviveGrowth DEF Inv
    <2>7. LandmarkInv' /\ SummaryInv'
      BY <2>1 DEF Inv, LandmarkInv, SummaryInv
    <2> QED
      BY <2>4, <2>5, <2>6, <2>7 DEF Inv
  <1> QED
    BY <1>1, <1>2

-----------------------------------------------------------------------------

\* A certificate is scheduled: it has the next landmark's number, or waits for
\* another sequence, or waits for nothing.
LEMMA ScheduleStep == Inv /\ ScheduleCertificate => Inv'
  <1> SUFFICES ASSUME Inv, ScheduleCertificate PROVE Inv'
    OBVIOUS
  <1>1. CASE Fail
    BY <1>1, FailStep
  <1>2. CASE ~Fail
    <2> DEFINE c == entry.certificates[at]
               info == CertificateInfoOf(c)
               n == Len(certInfos)
    <2>1. /\ stage = "schedule" /\ at <= Len(entry.certificates)
          /\ CertificateConfigOK(c)
          /\ certInfos' = Append(certInfos, info)
          /\ awaitingCheckpoint' =
                [s \in SeqName |->
                   IF s = c.checkpoint
                   THEN Append(awaitingCheckpoint[s],
                               [idx |-> Len(certInfos'), prev |-> checkpointSeqs[s]])
                   ELSE awaitingCheckpoint[s]]
          /\ at' = at + 1
          /\ UNCHANGED <<stage, entries, checkpointSeqs, landmarks>>
      BY <1>2 DEF ScheduleCertificate
    <2>2. /\ entries \in Seq(EntryConfig) /\ Len(entries) \in Nat \ {0}
          /\ at \in Nat \ {0} /\ certInfos \in Seq(CertificateInfo) /\ n \in Nat
          /\ awaitingCheckpoint \in [SeqName -> Seq(Wait)]
          /\ checkpointSeqs \in [SeqName -> Nat]
          /\ landmarks \in Seq(Nat) /\ Len(landmarks) \in Nat \ {0}
      BY <2>1 DEF Inv, Shape
    <2>3. c \in CertificateConfig
      <3>1. entry \in EntryConfig
        BY <2>2 DEF entry
      <3>2. entry.certificates \in Seq(CertificateConfig)
        BY <3>1 DEF EntryConfig
      <3> QED
        BY <2>1, <2>2, <3>2
    <2>4. /\ info.config = c /\ info.index = Len(entries) - 1
          /\ info.landmarkNum = IF c.checkpoint = "landmark" THEN Len(landmarks) ELSE 0
      BY DEF CertificateInfoOf
    <2>5. info \in CertificateInfo
      BY <2>2, <2>3 DEF CertificateInfoOf, CertificateInfo, CertificateConfig
    <2> HIDE DEF c, info
    <2>6. /\ certInfos' \in Seq(CertificateInfo) /\ Len(certInfos') = n + 1
          /\ DOMAIN certInfos' = 1 .. n + 1 /\ DOMAIN certInfos = 1 .. n
          /\ certInfos'[n + 1] = info
          /\ \A k \in 1..n : certInfos'[k] = certInfos[k]
      BY <2>1, <2>2, <2>5
    <2>7. ASSUME NEW s \in SeqName, s = c.checkpoint
          PROVE  /\ awaitingCheckpoint'[s] =
                      Append(awaitingCheckpoint[s], [idx |-> n + 1, prev |-> checkpointSeqs[s]])
                 /\ awaitingCheckpoint'[s] \in Seq(Wait)
                 /\ DOMAIN awaitingCheckpoint'[s] = 1 .. Len(awaitingCheckpoint[s]) + 1
                 /\ DOMAIN awaitingCheckpoint[s] = 1 .. Len(awaitingCheckpoint[s])
                 /\ Len(awaitingCheckpoint[s]) \in Nat
                 /\ awaitingCheckpoint'[s][Len(awaitingCheckpoint[s]) + 1]
                      = [idx |-> n + 1, prev |-> checkpointSeqs[s]]
                 /\ \A i \in DOMAIN awaitingCheckpoint[s] :
                      awaitingCheckpoint'[s][i] = awaitingCheckpoint[s][i]
      <3>1. [idx |-> n + 1, prev |-> checkpointSeqs[s]] \in Wait
        BY <2>2 DEF Wait
      <3>2. awaitingCheckpoint[s] \in Seq(Wait)
        BY <2>2
      <3>3. awaitingCheckpoint'[s] =
              Append(awaitingCheckpoint[s], [idx |-> n + 1, prev |-> checkpointSeqs[s]])
        BY <2>1, <2>6, <2>7
      <3> QED
        BY <3>1, <3>2, <3>3
    <2>8. ASSUME NEW s \in SeqName, s # c.checkpoint
          PROVE  awaitingCheckpoint'[s] = awaitingCheckpoint[s]
      BY <2>1, <2>8
    <2>9. awaitingCheckpoint' \in [SeqName -> Seq(Wait)]
      BY <2>1, <2>2, <2>7, <2>8
    <2>10. Shape'
      BY <2>1, <2>2, <2>6, <2>9 DEF Inv, Shape
    <2>11. CheckpointsInLog'
      BY <2>1 DEF Inv, CheckpointsInLog
    <2>12. WaitsAreCurrent'
      <3> SUFFICES ASSUME NEW s \in SeqName, NEW i \in DOMAIN awaitingCheckpoint'[s]
                   PROVE  IsCurrent(awaitingCheckpoint'[s][i], s, certInfos',
                                    checkpointSeqs[s], Len(entries))
        BY <2>1 DEF WaitsAreCurrent, IsCurrent
      <3>1. ASSUME i \in DOMAIN awaitingCheckpoint[s],
                   awaitingCheckpoint'[s][i] = awaitingCheckpoint[s][i]
            PROVE  IsCurrent(awaitingCheckpoint'[s][i], s, certInfos', checkpointSeqs[s],
                             Len(entries))
        <4>1. IsCurrent(awaitingCheckpoint[s][i], s, certInfos, checkpointSeqs[s], Len(entries))
          BY <3>1 DEF Inv, WaitsAreCurrent, IsCurrent
        <4> QED
          BY <2>2, <2>6, <3>1, <4>1 DEF IsCurrent
      <3>2. ASSUME s = c.checkpoint,
                   awaitingCheckpoint'[s][i] = [idx |-> n + 1, prev |-> checkpointSeqs[s]]
            PROVE  IsCurrent(awaitingCheckpoint'[s][i], s, certInfos', checkpointSeqs[s],
                             Len(entries))
        <4>1. checkpointSeqs[s] < Len(entries) /\ checkpointSeqs[s] \in Nat
          BY <2>1, <2>2 DEF Inv, CheckpointsInLog
        <4> QED
          BY <2>2, <2>4, <2>6, <3>2, <4>1 DEF IsCurrent
      <3>3. CASE s = c.checkpoint
        BY <2>7, <3>1, <3>2, <3>3
      <3>4. CASE s # c.checkpoint
        BY <2>8, <3>1, <3>4
      <3> QED
        BY <3>3, <3>4
    <2>13. LandmarkInv'
      <3> DEFINE old == awaitingCheckpoint["landmark"]
                 new == awaitingCheckpoint'["landmark"]
      <3>1. "landmark" \in SeqName
        BY ConfigAssumption
      <3>2. ASSUME c.checkpoint = "landmark"
            PROVE  /\ DOMAIN new = 1 .. Len(old) + 1
                   /\ DOMAIN old = 1 .. Len(old)
                   /\ Len(old) \in Nat
                   /\ new[Len(old) + 1] = [idx |-> n + 1, prev |-> checkpointSeqs["landmark"]]
                   /\ \A i \in DOMAIN old : new[i] = old[i]
        BY <2>7, <3>1, <3>2, Zenon
      <3>3. ASSUME c.checkpoint # "landmark" PROVE new = old
        BY <2>8, <3>1, <3>3
      <3> HIDE DEF old, new
      <3>4. ASSUME NEW k \in 1..n PROVE IsWaiting(new, k) <=> IsWaiting(old, k)
        <4>1. CASE c.checkpoint = "landmark"
          <5>1. n + 1 # k
            BY <2>2
          <5>2. new[Len(old) + 1].idx = n + 1
            BY <3>2, <4>1
          <5> QED
            BY <3>2, <4>1, <5>1, <5>2 DEF IsWaiting
        <4>2. CASE c.checkpoint # "landmark"
          BY <3>3, <4>2
        <4> QED
          BY <4>1, <4>2
      <3>5. ASSUME NEW k \in 1..n PROVE LandmarkCertificate(certInfos'[k], k, new, landmarks)
        <4>1. LandmarkCertificate(certInfos[k], k, old, landmarks)
          BY <2>6 DEF Inv, LandmarkInv, old
        <4> QED
          BY <2>6, <3>4, <4>1 DEF LandmarkCertificate
      <3>6. LandmarkCertificate(certInfos'[n + 1], n + 1, new, landmarks)
        <4>1. CASE c.checkpoint = "landmark"
          <5>1. new[Len(old) + 1].idx = n + 1
            BY <3>2, <4>1
          <5>2. IsWaiting(new, n + 1)
            BY <3>2, <4>1, <5>1 DEF IsWaiting
          <5> QED
            BY <2>4, <2>6, <4>1, <5>2 DEF LandmarkCertificate
        <4>2. CASE c.checkpoint # "landmark"
          BY <2>4, <2>6, <4>2 DEF LandmarkCertificate
        <4> QED
          BY <4>1, <4>2
      <3>7. \A k \in DOMAIN certInfos' : LandmarkCertificate(certInfos'[k], k, new, landmarks)
        BY <2>2, <2>6, <3>5, <3>6
      <3>8. landmarks' = landmarks /\ checkpointSeqs' = checkpointSeqs /\ stage' = "schedule"
        BY <2>1
      <3>9. landmarks[Len(landmarks)] = checkpointSeqs["landmark"]
        BY DEF Inv, LandmarkInv
      <3> QED
        BY <3>7, <3>8, <3>9 DEF LandmarkInv, new, LandmarkCertificate, IsWaiting, IsOfLandmark
    <2>14. SummaryInv'
      BY <2>1 DEF SummaryInv
    <2> QED
      BY <2>10, <2>11, <2>12, <2>13, <2>14 DEF Inv
  <1> QED
    BY <1>1, <1>2
-----------------------------------------------------------------------------

\* Two subtrees cover the log from a size it had on.
LEMMA LogIsCovered ==
    ASSUME Inv, NEW p \in Nat, p <= Len(entries)
    PROVE  LET c == SubtreesForInterval(p, Len(entries))
           IN  /\ c \in [start1 : Word, end1 : Word, start2 : Word, end2 : Word]
               /\ IsTightCover(c, p, Len(entries))
               /\ IsValidSubtree(c.start1, c.end1) /\ IsValidSubtree(c.start2, c.end2)
  <1> DEFINE c == SubtreesForInterval(p, Len(entries))
  <1>1. Len(entries) \in Nat /\ Len(entries) <= MaxEntries
    BY DEF Inv, Shape
  <1>2. MaxEntries \in Nat /\ MaxEntries < Pow2[W] /\ Pow2[W] \in Nat
    BY ConfigAssumption, WordFacts
  <1>3. Len(entries) \in Word /\ p \in Word
    BY <1>1, <1>2, WordFacts
  <1>4. /\ c \in [start1 : Word, end1 : Word, start2 : Word, end2 : Word]
        /\ IsTightCover(c, p, Len(entries))
    BY <1>3, TightCover
  <1> HIDE DEF c
  <1>5. /\ c.start1 \in Word /\ c.end1 \in Word /\ c.start2 \in Word /\ c.end2 \in Word
        /\ IsSubtree(c.start1, c.end1) /\ IsSubtree(c.start2, c.end2)
    BY <1>4 DEF IsTightCover
  <1>6. IsValidSubtree(c.start1, c.end1) /\ IsValidSubtree(c.start2, c.end2)
    BY <1>5, ValidSubtreeIs
  <1> QED
    BY <1>4, <1>6 DEF c

\* Filling a certificate in changes nothing but its subtree, which then has its
\* entry.
LEMMA FilledInInfo ==
    ASSUME Inv, NEW info \in CertificateInfo, NEW p \in Nat, p <= Len(entries)
    PROVE  /\ FilledIn(info, p) \in CertificateInfo
           /\ FilledIn(info, p).config = info.config
           /\ FilledIn(info, p).index = info.index
           /\ FilledIn(info, p).landmarkNum = info.landmarkNum
           /\ LET c == SubtreesForInterval(p, Len(entries))
              IN  \/ FilledIn(info, p).start = c.start1 /\ FilledIn(info, p).end = c.end1
                  \/ FilledIn(info, p).start = c.start2 /\ FilledIn(info, p).end = c.end2
           /\ IsValidSubtree(FilledIn(info, p).start, FilledIn(info, p).end)
           /\ p <= info.index /\ info.index < Len(entries) =>
                 FilledIn(info, p).start <= info.index /\ info.index < FilledIn(info, p).end
  <1> DEFINE c == SubtreesForInterval(p, Len(entries))
             t == SubtreeInInterval(p, Len(entries), info.index)
  <1>1. t = IF info.index < c.end1 THEN [start |-> c.start1, end |-> c.end1]
                                   ELSE [start |-> c.start2, end |-> c.end2]
    BY DEF SubtreeInInterval
  <1>2. Len(entries) \in Nat /\ info.index \in Nat
    BY DEF Inv, Shape, CertificateInfo
  <1>3. /\ c \in [start1 : Word, end1 : Word, start2 : Word, end2 : Word]
        /\ IsTightCover(c, p, Len(entries))
        /\ IsValidSubtree(c.start1, c.end1) /\ IsValidSubtree(c.start2, c.end2)
    BY LogIsCovered
  <1>4. /\ FilledIn(info, p).config = info.config
        /\ FilledIn(info, p).index = info.index
        /\ FilledIn(info, p).landmarkNum = info.landmarkNum
        /\ FilledIn(info, p).start = t.start /\ FilledIn(info, p).end = t.end
        /\ FilledIn(info, p) = [config |-> info.config, index |-> info.index,
               start |-> t.start, end |-> t.end, landmarkNum |-> info.landmarkNum]
    BY DEF FilledIn
  <1> HIDE DEF c, t
  <1>5. \/ info.index < c.end1 /\ t.start = c.start1 /\ t.end = c.end1
        \/ ~(info.index < c.end1) /\ t.start = c.start2 /\ t.end = c.end2
    BY <1>1
  <1>6. t.start \in Nat /\ t.end \in Nat
    BY <1>3, <1>5, WordFacts
  <1>7. FilledIn(info, p) \in CertificateInfo
    BY <1>4, <1>6 DEF CertificateInfo
  <1>8. \/ FilledIn(info, p).start = c.start1 /\ FilledIn(info, p).end = c.end1
        \/ FilledIn(info, p).start = c.start2 /\ FilledIn(info, p).end = c.end2
    BY <1>4, <1>5
  <1>9. IsValidSubtree(FilledIn(info, p).start, FilledIn(info, p).end)
    BY <1>3, <1>4, <1>5
  <1>10. ASSUME p <= info.index, info.index < Len(entries)
         PROVE  t.start <= info.index /\ info.index < t.end
    <2>1. /\ c.start1 \in Nat /\ c.end1 \in Nat /\ c.start2 \in Nat /\ c.end2 \in Nat
          /\ c.start1 <= p /\ c.end1 = c.start2 /\ c.end2 = Len(entries)
      BY <1>3, WordFacts DEF IsTightCover
    <2> QED
      BY <1>2, <1>5, <1>10, <2>1
  <1> QED
    BY <1>4, <1>7, <1>8, <1>9, <1>10 DEF c

\* The certificates that waited for a checkpoint of the entry's list are filled
\* in from their sequence's last one.
LEMMA CheckpointFills ==
    ASSUME Inv, UpdateCheckpoint
    PROVE  LET seq == entry.checkpoints[at]
               waits == awaitingCheckpoint[seq]
           IN  /\ seq \in SeqName
               /\ checkpointSeqs[seq] \in Nat /\ checkpointSeqs[seq] <= Len(entries)
               /\ DOMAIN certInfos' = DOMAIN certInfos
               /\ \A k \in DOMAIN certInfos :
                     /\ IsWaiting(waits, k) =>
                          /\ certInfos'[k] = FilledIn(certInfos[k], checkpointSeqs[seq])
                          /\ certInfos[k].config.checkpoint = seq
                          /\ checkpointSeqs[seq] <= certInfos[k].index
                          /\ certInfos[k].index < Len(entries)
                     /\ ~IsWaiting(waits, k) => certInfos'[k] = certInfos[k]
  <1> DEFINE seq == entry.checkpoints[at]
             waits == awaitingCheckpoint[seq]
             prevOf(k) == waits[CHOOSE i \in DOMAIN waits : waits[i].idx = k].prev
  <1>1. /\ stage = "checkpoints" /\ at <= Len(entry.checkpoints)
        /\ certInfos' = [k \in DOMAIN certInfos |->
              IF \E i \in DOMAIN waits : waits[i].idx = k
              THEN FilledIn(certInfos[k], prevOf(k)) ELSE certInfos[k]]
    BY DEF UpdateCheckpoint
  <1>2. /\ entries \in Seq(EntryConfig) /\ Len(entries) \in Nat \ {0} /\ at \in Nat \ {0}
        /\ checkpointSeqs \in [SeqName -> Nat]
    BY <1>1 DEF Inv, Shape
  <1>3. seq \in SeqName
    <2>1. entry \in EntryConfig
      BY <1>2 DEF entry
    <2>2. entry.checkpoints \in Seq(SeqName)
      BY <2>1 DEF EntryConfig
    <2> QED
      BY <1>1, <1>2, <2>2
  <1> HIDE DEF seq, prevOf
  <1>4. checkpointSeqs[seq] \in Nat /\ checkpointSeqs[seq] <= Len(entries)
    BY <1>2, <1>3 DEF Inv, CheckpointsInLog
  <1>5. ASSUME NEW k \in DOMAIN certInfos, IsWaiting(waits, k)
        PROVE  /\ certInfos'[k] = FilledIn(certInfos[k], checkpointSeqs[seq])
               /\ certInfos[k].config.checkpoint = seq
               /\ checkpointSeqs[seq] <= certInfos[k].index
               /\ certInfos[k].index < Len(entries)
    <2> DEFINE i == CHOOSE i \in DOMAIN waits : waits[i].idx = k
    <2>1. i \in DOMAIN waits /\ waits[i].idx = k
      BY <1>5 DEF IsWaiting
    <2>2. prevOf(k) = waits[i].prev
      BY DEF prevOf
    <2>3. certInfos'[k] = FilledIn(certInfos[k], prevOf(k))
      BY <1>1, <1>5 DEF IsWaiting
    <2> HIDE DEF i
    <2>4. IsCurrent(waits[i], seq, certInfos, checkpointSeqs[seq], Len(entries))
      BY <1>3, <2>1 DEF Inv, WaitsAreCurrent, IsCurrent
    <2> QED
      BY <2>1, <2>2, <2>3, <2>4 DEF IsCurrent
  <1>6. ASSUME NEW k \in DOMAIN certInfos, ~IsWaiting(waits, k)
        PROVE  certInfos'[k] = certInfos[k]
    BY <1>1, <1>6 DEF IsWaiting
  <1>7. DOMAIN certInfos' = DOMAIN certInfos
    BY <1>1
  <1> QED
    BY <1>3, <1>4, <1>5, <1>6, <1>7 DEF seq

\* A checkpoint: its sequence's certificates are filled in and wait no more, the
\* other sequences are as they were.
LEMMA CheckpointStep == Inv /\ UpdateCheckpoint => Inv'
  <1> SUFFICES ASSUME Inv, UpdateCheckpoint PROVE Inv'
    OBVIOUS
  <1> DEFINE seq == entry.checkpoints[at]
             waits == awaitingCheckpoint[seq]
             size == Len(entries)
  <1>1. /\ stage = "checkpoints" /\ at <= Len(entry.checkpoints)
        /\ checkpointSeqs' = [checkpointSeqs EXCEPT ![seq] = size]
        /\ landmarks' = IF seq = "landmark" THEN Append(landmarks, size) ELSE landmarks
        /\ awaitingCheckpoint' = [awaitingCheckpoint EXCEPT ![seq] = <<>>]
        /\ at' = at + 1
        /\ UNCHANGED <<stage, entries, summary>>
    BY DEF UpdateCheckpoint, WaitsAfter
  <1>2. /\ entries \in Seq(EntryConfig) /\ size \in Nat \ {0}
        /\ at \in Nat \ {0} /\ certInfos \in Seq(CertificateInfo)
        /\ awaitingCheckpoint \in [SeqName -> Seq(Wait)]
        /\ checkpointSeqs \in [SeqName -> Nat]
        /\ landmarks \in Seq(Nat) /\ Len(landmarks) \in Nat \ {0}
    BY <1>1 DEF Inv, Shape
  <1>3. seq \in SeqName
    BY CheckpointFills
  <1>4. ASSUME NEW s \in SeqName, NEW i \in DOMAIN awaitingCheckpoint[s]
        PROVE  IsCurrent(awaitingCheckpoint[s][i], s, certInfos, checkpointSeqs[s], size)
    BY DEF Inv, WaitsAreCurrent, IsCurrent
  <1>5. ASSUME NEW k \in DOMAIN certInfos, IsWaiting(waits, k)
        PROVE  certInfos[k].config.checkpoint = seq
    BY <1>5, CheckpointFills
  <1>6. checkpointSeqs[seq] \in Nat /\ checkpointSeqs[seq] <= size
    BY CheckpointFills
  <1>7. DOMAIN certInfos' = DOMAIN certInfos /\ DOMAIN certInfos = 1 .. Len(certInfos)
        /\ Len(certInfos) \in Nat
    BY <1>2, CheckpointFills
  <1>8. ASSUME NEW k \in DOMAIN certInfos, IsWaiting(waits, k)
        PROVE  certInfos'[k] = FilledIn(certInfos[k], checkpointSeqs[seq])
    BY <1>8, CheckpointFills
  <1>9. ASSUME NEW k \in DOMAIN certInfos, ~IsWaiting(waits, k)
        PROVE  certInfos'[k] = certInfos[k]
    BY <1>9, CheckpointFills
  <1> HIDE DEF seq
  <1>10. ASSUME NEW k \in DOMAIN certInfos
         PROVE  /\ certInfos'[k] \in CertificateInfo
                /\ certInfos'[k].config = certInfos[k].config
                /\ certInfos'[k].index = certInfos[k].index
                /\ certInfos'[k].landmarkNum = certInfos[k].landmarkNum
    <2>1. certInfos[k] \in CertificateInfo
      BY <1>2
    <2>2. CASE IsWaiting(waits, k)
      BY <1>6, <1>8, <2>1, <2>2, FilledInInfo
    <2>3. CASE ~IsWaiting(waits, k)
      BY <1>9, <2>1, <2>3
    <2> QED
      BY <2>2, <2>3
  <1>11. Shape'
    <2>1. certInfos' \in Seq(CertificateInfo)
      <3>1. certInfos' \in [1 .. Len(certInfos) -> CertificateInfo]
        <4>1. certInfos' = [k \in DOMAIN certInfos |-> certInfos'[k]]
          BY <1>7 DEF UpdateCheckpoint
        <4> QED
          BY <1>7, <1>10, <4>1
      <3> QED
        BY <1>7, <3>1
    <2>2. awaitingCheckpoint' \in [SeqName -> Seq(Wait)]
      <3>1. <<>> \in Seq(Wait)
        OBVIOUS
      <3> DEFINE none == <<>>
      <3> HIDE DEF none
      <3>2. awaitingCheckpoint' = [awaitingCheckpoint EXCEPT ![seq] = none]
        BY <1>1 DEF none
      <3>3. none \in Seq(Wait)
        BY <3>1 DEF none
      <3> QED
        BY <1>2, <3>2, <3>3
    <2>3. checkpointSeqs' \in [SeqName -> Nat]
      BY <1>1, <1>2
    <2>4. landmarks' \in Seq(Nat) /\ landmarks' # <<>>
      BY <1>1, <1>2, SMTT(30)
    <2> QED
      BY <1>1, <1>2, <2>1, <2>2, <2>3, <2>4, SMTT(30) DEF Inv, Shape
  <1>12. CheckpointsInLog'
    BY <1>1, <1>2, <1>3 DEF Inv, CheckpointsInLog
  <1>13. WaitsAreCurrent'
    <2> SUFFICES ASSUME NEW s \in SeqName, NEW i \in DOMAIN awaitingCheckpoint'[s]
                 PROVE  IsCurrent(awaitingCheckpoint'[s][i], s, certInfos',
                                  checkpointSeqs'[s], Len(entries'))
      BY DEF WaitsAreCurrent, IsCurrent
    <2>1. s # seq
      <3>1. awaitingCheckpoint'[seq] = <<>>
        BY <1>1, <1>2, <1>3
      <3>2. DOMAIN awaitingCheckpoint'[seq] = {}
        BY <3>1
      <3> QED
        BY <3>2
    <2>2. /\ awaitingCheckpoint'[s] = awaitingCheckpoint[s]
          /\ checkpointSeqs'[s] = checkpointSeqs[s]
      BY <1>1, <1>2, <2>1
    <2>3. IsCurrent(awaitingCheckpoint[s][i], s, certInfos, checkpointSeqs[s], size)
      BY <1>4, <2>2
    <2>4. entries' = entries
      BY <1>1
    <2> QED
      BY <1>7, <1>10, <2>2, <2>3, <2>4 DEF IsCurrent
  <1>14. LandmarkInv'
    <2>1. "landmark" \in SeqName
      BY ConfigAssumption
    <2> DEFINE marks == landmarks'
               still == awaitingCheckpoint'["landmark"]
    <2>2. /\ landmarks[Len(landmarks)] = checkpointSeqs["landmark"]
          /\ \A k \in DOMAIN certInfos :
                LandmarkCertificate(certInfos[k], k, awaitingCheckpoint["landmark"], landmarks)
      BY DEF Inv, LandmarkInv
    <2>3. CASE seq = "landmark"
      <3>1. /\ marks = Append(landmarks, size) /\ checkpointSeqs'["landmark"] = size
            /\ waits = awaitingCheckpoint["landmark"]
        BY <1>1, <1>2, <2>1, <2>3
      <3>2. DOMAIN still = {}
        <4>1. still = <<>>
          BY <1>1, <1>2, <2>1, <2>3
        <4> QED
          BY <4>1
      <3>3. /\ Len(marks) = Len(landmarks) + 1 /\ marks[Len(marks)] = size
            /\ \A m \in 1 .. Len(landmarks) : marks[m] = landmarks[m]
        BY <1>2, <3>1
      <3> HIDE DEF marks, still
      <3>4. ASSUME NEW k \in DOMAIN certInfos
            PROVE  LandmarkCertificate(certInfos'[k], k, still, marks)
        <4> SUFFICES ASSUME certInfos[k].landmarkNum > 0
                     PROVE  /\ certInfos[k].config.checkpoint = "landmark"
                            /\ IsOfLandmark(certInfos'[k], marks)
          BY <1>10, <3>2 DEF LandmarkCertificate, IsWaiting
        <4>1. certInfos[k] \in CertificateInfo
          BY <1>2
        <4>2. LandmarkCertificate(certInfos[k], k, waits, landmarks)
          BY <2>2, <3>1
        <4>3. CASE IsWaiting(waits, k)
          <5>1. /\ certInfos[k].landmarkNum = Len(landmarks)
                /\ certInfos[k].config.checkpoint = "landmark"
            BY <4>2, <4>3 DEF LandmarkCertificate
          <5>2. certInfos'[k] = FilledIn(certInfos[k], landmarks[Len(landmarks)])
            BY <1>8, <2>2, <2>3, <4>3
          <5>3. /\ landmarks[Len(landmarks)] \in Nat
                /\ landmarks[Len(landmarks)] <= Len(entries)
            BY <1>2, <1>6, <2>2, <2>3
          <5>4. LET c == SubtreesForInterval(landmarks[Len(landmarks)], size)
                IN  \/ certInfos'[k].start = c.start1 /\ certInfos'[k].end = c.end1
                    \/ certInfos'[k].start = c.start2 /\ certInfos'[k].end = c.end2
            <6> DEFINE last == landmarks[Len(landmarks)]
                       c == SubtreesForInterval(last, size)
                       filled == FilledIn(certInfos[k], last)
            <6> HIDE DEF last
            <6>1. \/ filled.start = c.start1 /\ filled.end = c.end1
                  \/ filled.start = c.start2 /\ filled.end = c.end2
              <7>1. last \in Nat /\ last <= Len(entries)
                BY <5>3 DEF last
              <7> QED
                BY <4>1, <7>1, FilledInInfo, Zenon
            <6> HIDE DEF filled
            <6> QED
              BY <5>2, <6>1 DEF filled, last
          <5>5. certInfos'[k].landmarkNum = Len(landmarks)
            BY <1>10, <5>1
          <5>6. /\ marks[Len(landmarks)] = landmarks[Len(landmarks)]
                /\ marks[Len(landmarks) + 1] = size
                /\ Len(landmarks) \in 1 .. Len(marks) - 1
            BY <1>2, <3>3
          <5> QED
            BY <5>1, <5>4, <5>5, <5>6 DEF IsOfLandmark
        <4>4. CASE ~IsWaiting(waits, k)
          <5>1. /\ certInfos[k].config.checkpoint = "landmark"
                /\ IsOfLandmark(certInfos[k], landmarks)
            BY <4>2, <4>4 DEF LandmarkCertificate
          <5>2. certInfos'[k] = certInfos[k]
            BY <1>9, <4>4
          <5> DEFINE m == certInfos[k].landmarkNum
          <5>3. m \in Nat /\ m \in 1 .. Len(landmarks) - 1
            BY <4>1, <5>1 DEF IsOfLandmark, CertificateInfo
          <5> HIDE DEF m
          <5>4. /\ m \in 1 .. Len(marks) - 1
                /\ marks[m] = landmarks[m] /\ marks[m + 1] = landmarks[m + 1]
            <6>1. Len(landmarks) \in Nat
              BY <1>2
            <6>2. m \in 1 .. Len(landmarks) /\ m + 1 \in 1 .. Len(landmarks)
              BY <5>3, <6>1
            <6> QED
              BY <3>3, <5>3, <6>1, <6>2
          <5> QED
            BY <5>1, <5>2, <5>4 DEF IsOfLandmark, m
        <4> QED
          BY <4>3, <4>4
      <3> QED
        BY <1>1, <1>7, <3>1, <3>3, <3>4
           DEF LandmarkInv, marks, still, LandmarkCertificate, IsWaiting, IsOfLandmark
    <2>4. CASE seq # "landmark"
      <3>1. /\ marks = landmarks /\ still = awaitingCheckpoint["landmark"]
            /\ checkpointSeqs'["landmark"] = checkpointSeqs["landmark"]
        BY <1>1, <1>2, <2>1, <2>4
      <3> HIDE DEF marks, still
      <3>2. ASSUME NEW k \in DOMAIN certInfos
            PROVE  LandmarkCertificate(certInfos'[k], k, still, marks)
        <4>1. LandmarkCertificate(certInfos[k], k, still, landmarks)
          BY <2>2, <3>1
        <4>2. CASE IsWaiting(waits, k)
          <5>1. certInfos[k].config.checkpoint # "landmark"
            BY <1>5, <2>4, <4>2
          <5> QED
            BY <1>10, <4>1, <5>1 DEF LandmarkCertificate
        <4>3. CASE ~IsWaiting(waits, k)
          BY <1>9, <3>1, <4>1, <4>3
        <4> QED
          BY <4>2, <4>3
      <3> QED
        BY <1>1, <1>7, <2>2, <3>1, <3>2
           DEF LandmarkInv, marks, still, LandmarkCertificate, IsWaiting, IsOfLandmark
    <2> QED
      BY <2>3, <2>4
  <1>15. SummaryInv'
    BY <1>1 DEF SummaryInv
  <1> QED
    BY <1>11, <1>12, <1>13, <1>14, <1>15 DEF Inv

-----------------------------------------------------------------------------

LEMMA QuietSteps == Inv /\ (CertificatesScheduled \/ CheckpointsUpdated) => Inv'
  <1> SUFFICES ASSUME Inv, CertificatesScheduled \/ CheckpointsUpdated PROVE Inv'
    OBVIOUS
  <1>1. Shape' /\ Quiet /\ Len(entries) <= Len(entries')
    BY DEF CertificatesScheduled, CheckpointsUpdated, Quiet, Inv, Shape
  <1> QED
    BY <1>1, QuietStep

\* The log is complete only when nothing waits, and the certificates are then
\* constructed from it as it is.
LEMMA FinishStep == Inv /\ (LogComplete \/ ConstructCertificate \/ Summarize) => Inv'
  <1> SUFFICES ASSUME Inv, LogComplete \/ ConstructCertificate \/ Summarize PROVE Inv'
    OBVIOUS
  <1>1. CASE Fail
    BY <1>1, FailStep
  <1>2. CASE ~Fail
    <2>1. /\ UNCHANGED <<entries, certInfos, awaitingCheckpoint, checkpointSeqs, landmarks>>
          /\ stage' \in {"construct", "done"}
          /\ stage' = "done" => Summarize
          /\ \A s \in SeqName : awaitingCheckpoint[s] = <<>>
          /\ at' \in Nat \ {0}
      <3>1. CASE LogComplete
        <4>1. at' = 1 /\ stage' = "construct"
          BY <1>2, <3>1 DEF LogComplete
        <4> QED
          BY <1>2, <3>1, <4>1 DEF LogComplete
      <3>2. CASE ConstructCertificate
        <4>1. /\ UNCHANGED <<stage, entries, certInfos, awaitingCheckpoint, checkpointSeqs,
                             landmarks>>
              /\ stage = "construct" /\ at' = at + 1
          BY <1>2, <3>2 DEF ConstructCertificate
        <4> QED
          BY <4>1 DEF Inv, Shape, LandmarkInv
      <3>3. CASE Summarize
        BY <3>3 DEF Summarize, Inv, Shape, LandmarkInv
      <3> QED
        BY <3>1, <3>2, <3>3
    <2>2. Shape'
      BY <2>1 DEF Inv, Shape
    <2>3. CheckpointsInLog'
      BY <2>1 DEF Inv, CheckpointsInLog
    <2>4. WaitsAreCurrent'
      BY <2>1 DEF Inv, WaitsAreCurrent
    <2>5. LandmarkInv'
      <3>1. /\ landmarks[Len(landmarks)] = checkpointSeqs["landmark"]
            /\ \A k \in DOMAIN certInfos :
                  LandmarkCertificate(certInfos[k], k, awaitingCheckpoint["landmark"],
                                      landmarks)
        BY DEF Inv, LandmarkInv
      <3>2. UNCHANGED <<certInfos, awaitingCheckpoint, checkpointSeqs, landmarks>>
        BY <2>1
      <3>3. \A s \in SeqName : awaitingCheckpoint'[s] = <<>>
        BY <2>1
      <3>4. landmarks'[Len(landmarks')] = checkpointSeqs'["landmark"]
        BY <3>1, <3>2
      <3>5. \A k \in DOMAIN certInfos' :
               LandmarkCertificate(certInfos'[k], k, awaitingCheckpoint'["landmark"], landmarks')
        BY <3>1, <3>2
      <3> QED
        BY <3>3, <3>4, <3>5
           DEF LandmarkInv, LandmarkCertificate, IsWaiting, IsOfLandmark
    <2>6. SummaryInv'
      <3> SUFFICES ASSUME stage' = "done", NEW i \in 1 .. Len(landmarks) - 1
                   PROVE  LET c == SubtreesForInterval(landmarks[i], landmarks[i + 1])
                          IN  /\ [landmark |-> i, start |-> c.start1, end |-> c.end1]
                                    \in summary'
                              /\ [landmark |-> i, start |-> c.start2, end |-> c.end2]
                                    \in summary'
        BY <2>1 DEF SummaryInv, Printed
      <3> DEFINE subtrees(j) ==
             LET c == SubtreesForInterval(landmarks[j], landmarks[j + 1])
             IN  {[landmark |-> j, start |-> c.start1, end |-> c.end1],
                  [landmark |-> j, start |-> c.start2, end |-> c.end2]}
      <3>1. summary' = UNION {subtrees(j) : j \in 1 .. Len(landmarks) - 1}
        BY <2>1 DEF Summarize
      <3> HIDE DEF subtrees
      <3>2. subtrees(i) \subseteq summary'
        BY <3>1
      <3> QED
        BY <3>2 DEF subtrees
    <2> QED
      BY <2>2, <2>3, <2>4, <2>5, <2>6 DEF Inv
  <1> QED
    BY <1>1, <1>2

LEMMA InvStep == Inv /\ [Next]_vars => Inv'
  <1> SUFFICES ASSUME Inv, [Next]_vars PROVE Inv'
    OBVIOUS
  <1>1. CASE \E plants04 \in BOOLEAN, logNumber \in LogNumbers : StartLog(plants04, logNumber)
    BY <1>1, StartStep
  <1>2. CASE \E e \in EntryConfigs : AppendEntry(e)
    BY <1>2, AppendEntryStep
  <1>3. CASE ScheduleCertificate
    BY <1>3, ScheduleStep
  <1>4. CASE UpdateCheckpoint
    BY <1>4, CheckpointStep
  <1>5. CASE CertificatesScheduled \/ CheckpointsUpdated
    BY <1>5, QuietSteps
  <1>6. CASE LogComplete \/ ConstructCertificate \/ Summarize
    BY <1>6, FinishStep
  <1>7. CASE UNCHANGED vars
    BY <1>7 DEF vars, Inv, Shape, CheckpointsInLog, WaitsAreCurrent, LandmarkInv, SummaryInv,
                LandmarkCertificate, IsWaiting, IsOfLandmark, Printed
  <1> QED
    BY <1>1, <1>2, <1>3, <1>4, <1>5, <1>6, <1>7 DEF Next

-----------------------------------------------------------------------------

\* What SubtreeIsOfItsInterval says of one certificate, given the tree sizes of
\* its sequence.
IsOfInterval(info, sizes) ==
    /\ IsValidSubtree(info.start, info.end)
    /\ info.start <= info.index /\ info.index < info.end
    /\ \E p, e \in sizes :
          /\ p <= info.index /\ info.index < e
          /\ \A n \in sizes : n <= p \/ e <= n
          /\ LET c == SubtreesForInterval(p, e)
             IN  <<info.start, info.end>> \in
                   {<<c.start1, c.end1>>, <<c.start2, c.end2>>}

HasSubtree(info) == info.config.checkpoint # NoCheckpoint /\ info.end # 0

\* The last entry has a checkpoint of s that has not been made yet.
IsPending(s) ==
    \/ stage = "schedule"
    \/ stage = "checkpoints" /\ \E i \in DOMAIN entry.checkpoints :
                                   at <= i /\ entry.checkpoints[i] = s

\* checkpointSeqs has the largest of each sequence's tree sizes, but for one
\* that is pending.
LatestKnown ==
    stage # "failed" =>
        \A s \in SeqName :
            /\ checkpointSeqs[s] \in CheckpointSizes(s)
            /\ \A n \in CheckpointSizes(s) :
                  n <= checkpointSeqs[s] \/ (n = Len(entries) /\ IsPending(s))

LandmarksAscend ==
    \A i \in 1 .. Len(landmarks) :
        /\ landmarks[i] <= Len(entries)
        /\ i + 1 <= Len(landmarks) => landmarks[i] <= landmarks[i + 1]

SummaryTypeOK == summary \subseteq [landmark : Nat, start : Nat, end : Nat]

HistoryInv == SubtreeIsOfItsInterval /\ LatestKnown /\ LandmarksAscend /\ SummaryTypeOK

LEMMA HistoryInit == Init => HistoryInv
  <1> SUFFICES ASSUME Init PROVE HistoryInv
    OBVIOUS
  <1>1. SubtreeIsOfItsInterval /\ SummaryTypeOK
    BY DEF Init, SubtreeIsOfItsInterval, SummaryTypeOK
  <1>2. LatestKnown
    <2>1. \A s \in SeqName : CheckpointSizes(s) = {0}
      BY DEF Init, CheckpointSizes
    <2> QED
      BY <2>1 DEF Init, LatestKnown
  <1>3. LandmarksAscend
    BY DEF Init, LandmarksAscend
  <1> QED
    BY <1>1, <1>2, <1>3 DEF HistoryInv

LEMMA SizesInLog ==
    ASSUME Inv, NEW s PROVE CheckpointSizes(s) \subseteq 0 .. Len(entries)
  <1>1. Len(entries) \in Nat /\ DOMAIN entries = 1 .. Len(entries)
    BY DEF Inv, Shape
  <1> QED
    BY <1>1 DEF CheckpointSizes

\* An entry adds at most the new size of the log to a sequence.
LEMMA SizesGrow ==
    ASSUME Inv, NEW e \in EntryConfig, entries' = Append(entries, e), NEW s
    PROVE  /\ CheckpointSizes(s) \subseteq CheckpointSizes(s)'
           /\ \A n \in CheckpointSizes(s)' :
                 \/ n \in CheckpointSizes(s)
                 \/ n = Len(entries) + 1 /\ \E i \in DOMAIN e.checkpoints : e.checkpoints[i] = s
  <1>1. /\ entries \in Seq(EntryConfig) /\ Len(entries) \in Nat
        /\ DOMAIN entries = 1 .. Len(entries)
    BY DEF Inv, Shape
  <1>2. /\ DOMAIN entries' = 1 .. Len(entries) + 1
        /\ entries'[Len(entries) + 1] = e
        /\ \A n \in 1 .. Len(entries) : entries'[n] = entries[n]
    BY <1>1
  <1>3. ASSUME NEW n \in CheckpointSizes(s) PROVE n \in CheckpointSizes(s)'
    BY <1>1, <1>2 DEF CheckpointSizes
  <1>4. ASSUME NEW n \in CheckpointSizes(s)'
        PROVE  \/ n \in CheckpointSizes(s)
               \/ n = Len(entries) + 1 /\ \E i \in DOMAIN e.checkpoints : e.checkpoints[i] = s
    <2>1. CASE n \in 1 .. Len(entries)
      BY <1>1, <1>2, <2>1 DEF CheckpointSizes
    <2>2. CASE n = Len(entries) + 1
      BY <1>1, <1>2, <2>2 DEF CheckpointSizes
    <2> QED
      BY <1>2, <2>1, <2>2 DEF CheckpointSizes
  <1> QED
    BY <1>3, <1>4

LEMMA SubtreesSurviveGrowth ==
    ASSUME Inv, SubtreeIsOfItsInterval, NEW e \in EntryConfig,
           entries' = Append(entries, e), certInfos' = certInfos
    PROVE  SubtreeIsOfItsInterval'
  <1> SUFFICES ASSUME NEW k \in DOMAIN certInfos, HasSubtree(certInfos[k])
               PROVE  IsOfInterval(certInfos[k],
                                   CheckpointSizes(certInfos[k].config.checkpoint)')
    BY DEF SubtreeIsOfItsInterval, IsOfInterval, HasSubtree
  <1> DEFINE s == certInfos[k].config.checkpoint
             sizes == CheckpointSizes(s)
  <1>1. IsOfInterval(certInfos[k], sizes)
    BY DEF SubtreeIsOfItsInterval, IsOfInterval, HasSubtree
  <1>2. sizes \subseteq sizes' /\ \A n \in sizes' : n \in sizes \/ n = Len(entries) + 1
    BY SizesGrow
  <1>3. sizes \subseteq 0 .. Len(entries) /\ Len(entries) \in Nat
    BY SizesInLog DEF Inv, Shape
  <1>4. \A m \in sizes : m <= Len(entries) + 1
    BY <1>3
  <1> DEFINE grown == sizes'
  <1> HIDE DEF sizes, grown
  <1>5. IsOfInterval(certInfos[k], grown)
    BY <1>1, <1>2, <1>4 DEF IsOfInterval, grown
  <1> QED
    BY <1>5 DEF grown, sizes

\* The steps that leave the log and what is known of it alone.
LEMMA HistoryStays ==
    ASSUME HistoryInv,
           UNCHANGED <<entries, certInfos, checkpointSeqs, landmarks, summary>>,
           LatestKnown'
    PROVE  HistoryInv'
  <1>1. SubtreeIsOfItsInterval'
    <2>1. \A s : CheckpointSizes(s)' = CheckpointSizes(s)
      BY DEF CheckpointSizes
    <2> SUFFICES ASSUME NEW k \in DOMAIN certInfos, HasSubtree(certInfos[k])
                 PROVE  IsOfInterval(certInfos[k],
                                     CheckpointSizes(certInfos[k].config.checkpoint))
      BY <2>1 DEF SubtreeIsOfItsInterval, IsOfInterval, HasSubtree
    <2> QED
      BY DEF HistoryInv, SubtreeIsOfItsInterval, IsOfInterval, HasSubtree
  <1> QED
    BY <1>1 DEF HistoryInv, LandmarksAscend, SummaryTypeOK

LEMMA FailHistory == HistoryInv /\ Fail => HistoryInv'
  <1> SUFFICES ASSUME HistoryInv, Fail PROVE HistoryInv'
    OBVIOUS
  <1>1. LatestKnown'
    BY DEF Fail, LatestKnown
  <1> QED
    BY <1>1, HistoryStays DEF Fail

\* A new entry, at the start or later.
LEMMA GrowthHistory ==
    ASSUME Inv, HistoryInv, NEW e \in EntryConfig, entries' = Append(entries, e),
           UNCHANGED <<certInfos, checkpointSeqs, landmarks, summary>>,
           stage \in {"start", "entries"},
           stage' = "schedule" \/ e.checkpoints = <<>>
    PROVE  HistoryInv'
  <1>1. SubtreeIsOfItsInterval'
    BY SubtreesSurviveGrowth DEF HistoryInv
  <1>2. Len(entries) \in Nat /\ Len(entries') = Len(entries) + 1
    BY DEF Inv, Shape
  <1>3. LatestKnown'
    <2> SUFFICES ASSUME NEW s \in SeqName
                 PROVE  /\ checkpointSeqs[s] \in CheckpointSizes(s)'
                        /\ \A n \in CheckpointSizes(s)' :
                              n <= checkpointSeqs[s] \/ (n = Len(entries') /\ IsPending(s)')
      BY DEF LatestKnown
    <2>1. /\ checkpointSeqs[s] \in CheckpointSizes(s)
          /\ \A n \in CheckpointSizes(s) : n <= checkpointSeqs[s]
      BY DEF HistoryInv, LatestKnown, IsPending
    <2>2. ASSUME NEW n \in CheckpointSizes(s)', n \notin CheckpointSizes(s)
          PROVE  n = Len(entries') /\ IsPending(s)'
      <3>1. n = Len(entries) + 1 /\ \E i \in DOMAIN e.checkpoints : e.checkpoints[i] = s
        BY <2>2, SizesGrow
      <3>2. stage' = "schedule"
        BY <3>1
      <3> QED
        BY <1>2, <3>1, <3>2 DEF IsPending
    <2> QED
      BY <2>1, <2>2, SizesGrow
  <1>4. LandmarksAscend'
    BY <1>2 DEF Inv, Shape, HistoryInv, LandmarksAscend
  <1> QED
    BY <1>1, <1>3, <1>4 DEF HistoryInv, SummaryTypeOK

\* A certificate that is scheduled either has its subtree or waits without one.
LEMMA ScheduleHistory == Inv /\ HistoryInv /\ ScheduleCertificate => HistoryInv'
  <1> SUFFICES ASSUME Inv, HistoryInv, ScheduleCertificate, ~Fail PROVE HistoryInv'
    BY FailHistory
  <1> DEFINE c == entry.certificates[at]
             info == CertificateInfoOf(c)
  <1>1. /\ stage = "schedule" /\ CertificateConfigOK(c)
        /\ certInfos' = Append(certInfos, info)
        /\ UNCHANGED <<stage, entries, checkpointSeqs, landmarks, summary>>
    BY DEF ScheduleCertificate
  <1>2. ~HasSubtree(info)
    <2>1. info.config = c /\ info.end = c.end
      BY DEF CertificateInfoOf
    <2> QED
      BY <1>1, <2>1 DEF CertificateConfigOK, HasSubtree
  <1>3. certInfos \in Seq(CertificateInfo)
    BY DEF Inv, Shape
  <1> HIDE DEF info
  <1>4. \A s : CheckpointSizes(s)' = CheckpointSizes(s)
    BY <1>1 DEF CheckpointSizes
  <1>5. SubtreeIsOfItsInterval'
    <2> SUFFICES ASSUME NEW k \in DOMAIN certInfos', HasSubtree(certInfos'[k])
                 PROVE  IsOfInterval(certInfos'[k],
                                     CheckpointSizes(certInfos'[k].config.checkpoint))
      BY <1>4 DEF SubtreeIsOfItsInterval, IsOfInterval, HasSubtree
    <2>1. k \in DOMAIN certInfos /\ certInfos'[k] = certInfos[k]
      <3>1. k = Len(certInfos) + 1 => certInfos'[k] = info
        BY <1>1, <1>3
      <3>2. k # Len(certInfos) + 1
        BY <1>2, <3>1
      <3> QED
        BY <1>1, <1>3, <3>2
    <2> QED
      BY <2>1 DEF HistoryInv, SubtreeIsOfItsInterval, IsOfInterval, HasSubtree
  <1>6. LatestKnown'
    BY <1>1, <1>4 DEF HistoryInv, LatestKnown, IsPending
  <1> QED
    BY <1>1, <1>5, <1>6 DEF HistoryInv, LandmarksAscend, SummaryTypeOK

\* The certificates are filled in for the interval from the sequence's last size
\* to the present one, and there is no size in between.
LEMMA CheckpointHistory == Inv /\ HistoryInv /\ UpdateCheckpoint => HistoryInv'
  <1> SUFFICES ASSUME Inv, HistoryInv, UpdateCheckpoint PROVE HistoryInv'
    OBVIOUS
  <1> DEFINE seq == entry.checkpoints[at]
             waits == awaitingCheckpoint[seq]
             size == Len(entries)
             last == checkpointSeqs[seq]
             sizes == CheckpointSizes(seq)
  <1>1. /\ stage = "checkpoints" /\ at <= Len(entry.checkpoints)
        /\ checkpointSeqs' = [checkpointSeqs EXCEPT ![seq] = size]
        /\ landmarks' = IF seq = "landmark" THEN Append(landmarks, size) ELSE landmarks
        /\ at' = at + 1
        /\ UNCHANGED <<stage, entries, summary>>
    BY DEF UpdateCheckpoint
  <1>2. /\ entries \in Seq(EntryConfig) /\ size \in Nat \ {0}
        /\ at \in Nat \ {0} /\ certInfos \in Seq(CertificateInfo)
        /\ checkpointSeqs \in [SeqName -> Nat]
        /\ landmarks \in Seq(Nat) /\ Len(landmarks) \in Nat \ {0}
    BY <1>1 DEF Inv, Shape
  <1>3. seq \in SeqName /\ last \in Nat /\ last <= size
    BY CheckpointFills
  <1>4. at \in DOMAIN entry.checkpoints /\ size \in DOMAIN entries
    <2>1. entry \in EntryConfig
      BY <1>2 DEF entry
    <2>2. entry.checkpoints \in Seq(SeqName)
      BY <2>1 DEF EntryConfig
    <2> QED
      BY <1>1, <1>2, <2>2, SMTT(30)
  <1>5. size \in sizes
    BY <1>4 DEF CheckpointSizes, entry
  <1>6. last \in sizes /\ \A n \in sizes : n <= last \/ n = size
    BY <1>1, <1>3 DEF HistoryInv, LatestKnown
  <1>7. \A s : CheckpointSizes(s)' = CheckpointSizes(s)
    BY <1>1 DEF CheckpointSizes
  <1>8. SubtreeIsOfItsInterval'
    <2> SUFFICES ASSUME NEW k \in DOMAIN certInfos', HasSubtree(certInfos'[k])
                 PROVE  IsOfInterval(certInfos'[k],
                                     CheckpointSizes(certInfos'[k].config.checkpoint))
      BY <1>7 DEF SubtreeIsOfItsInterval, IsOfInterval, HasSubtree
    <2>1. k \in DOMAIN certInfos /\ certInfos[k] \in CertificateInfo
      BY <1>2, CheckpointFills
    <2>2. CASE IsWaiting(waits, k)
      <3> DEFINE filled == FilledIn(certInfos[k], last)
                 c == SubtreesForInterval(last, size)
      <3>1. /\ certInfos'[k] = filled /\ certInfos[k].config.checkpoint = seq
            /\ last <= certInfos[k].index /\ certInfos[k].index < size
        BY <2>1, <2>2, CheckpointFills
      <3> HIDE DEF seq, last
      <3>2. /\ filled.config = certInfos[k].config /\ filled.index = certInfos[k].index
            /\ \/ filled.start = c.start1 /\ filled.end = c.end1
               \/ filled.start = c.start2 /\ filled.end = c.end2
            /\ IsValidSubtree(filled.start, filled.end)
            /\ filled.start <= certInfos[k].index /\ certInfos[k].index < filled.end
        BY <1>3, <2>1, <3>1, FilledInInfo
      <3> HIDE DEF filled, c, sizes
      <3>3. <<filled.start, filled.end>> \in {<<c.start1, c.end1>>, <<c.start2, c.end2>>}
        BY <3>2
      <3>4. \A n \in sizes : n <= last \/ size <= n
        BY <1>2, <1>6
      <3>5. IsOfInterval(filled, sizes)
        BY <1>5, <1>6, <3>1, <3>2, <3>3, <3>4 DEF IsOfInterval, c
      <3>6. certInfos'[k].config.checkpoint = seq
        BY <3>1, <3>2
      <3> QED
        BY <3>1, <3>5, <3>6 DEF sizes
    <2>3. CASE ~IsWaiting(waits, k)
      <3>1. certInfos'[k] = certInfos[k]
        BY <2>1, <2>3, CheckpointFills
      <3> QED
        BY <2>1, <3>1 DEF HistoryInv, SubtreeIsOfItsInterval, IsOfInterval, HasSubtree
    <2> QED
      BY <2>2, <2>3
  <1>9. LatestKnown'
    <2> SUFFICES ASSUME NEW s \in SeqName
                 PROVE  /\ checkpointSeqs'[s] \in CheckpointSizes(s)
                        /\ \A n \in CheckpointSizes(s) :
                              n <= checkpointSeqs'[s] \/ (n = size /\ IsPending(s)')
      BY <1>1, <1>7 DEF LatestKnown
    <2>1. CASE s = seq
      <3>1. checkpointSeqs'[s] = size
        BY <1>1, <1>2, <1>3, <2>1
      <3>2. CheckpointSizes(s) \subseteq 0 .. size
        BY SizesInLog
      <3> QED
        BY <1>2, <1>5, <2>1, <3>1, <3>2
    <2>2. CASE s # seq
      <3>1. checkpointSeqs'[s] = checkpointSeqs[s]
        BY <1>1, <1>2, <1>3, <2>2
      <3>2. /\ checkpointSeqs[s] \in CheckpointSizes(s)
            /\ \A n \in CheckpointSizes(s) :
                  n <= checkpointSeqs[s] \/ (n = size /\ IsPending(s))
        BY <1>1 DEF HistoryInv, LatestKnown
      <3>3. IsPending(s) => IsPending(s)'
        <4> SUFFICES ASSUME NEW i \in DOMAIN entry.checkpoints, at <= i,
                            entry.checkpoints[i] = s
                     PROVE  IsPending(s)'
          BY <1>1 DEF IsPending
        <4>1. entry' = entry
          BY <1>1 DEF entry
        <4>2. i # at
          BY <2>2
        <4>3. i \in Nat
          <5>1. entry \in EntryConfig
            BY <1>2 DEF entry
          <5>2. entry.checkpoints \in Seq(SeqName)
            BY <5>1 DEF EntryConfig
          <5> QED
            BY <5>2
        <4>4. at' <= i
          BY <1>1, <1>2, <4>2, <4>3
        <4> QED
          BY <1>1, <4>1, <4>4 DEF IsPending
      <3> QED
        BY <3>1, <3>2, <3>3
    <2> QED
      BY <2>1, <2>2
  <1>10. LandmarksAscend'
    <2>1. LandmarksAscend
      BY DEF HistoryInv
    <2>2. CASE seq = "landmark"
      <3> DEFINE marks == landmarks'
                 n == Len(landmarks)
      <3>1. /\ Len(marks) = n + 1 /\ marks[n + 1] = size /\ n \in Nat
            /\ \A i \in 1 .. n : marks[i] = landmarks[i]
            /\ \A i \in 1 .. n : landmarks[i] \in Nat
        BY <1>1, <1>2, <2>2
      <3> HIDE DEF marks, n
      <3>2. ASSUME NEW i \in 1 .. n + 1
            PROVE  marks[i] <= size /\ (i + 1 <= n + 1 => marks[i] <= marks[i + 1])
        <4>1. CASE i = n + 1
          BY <1>2, <3>1, <4>1
        <4>2. CASE i = n
          BY <1>2, <2>1, <3>1, <4>2 DEF LandmarksAscend, n
        <4>3. CASE i < n
          <5>1. i \in 1 .. n /\ i + 1 \in 1 .. n
            BY <3>1, <4>3
          <5> QED
            BY <1>2, <2>1, <3>1, <5>1 DEF LandmarksAscend, n
        <4> QED
          BY <3>1, <4>1, <4>2, <4>3
      <3> QED
        BY <1>1, <3>1, <3>2 DEF LandmarksAscend, marks
    <2>3. CASE seq # "landmark"
      BY <1>1, <2>1, <2>3 DEF LandmarksAscend
    <2> QED
      BY <2>2, <2>3
  <1> QED
    BY <1>1, <1>8, <1>9, <1>10 DEF HistoryInv, SummaryTypeOK

\* The steps from loop to loop.  Nothing is pending when the last entry's
\* checkpoints have been made.
LEMMA QuietHistory ==
    ASSUME Inv, HistoryInv,
           CertificatesScheduled \/ CheckpointsUpdated \/ LogComplete \/ ConstructCertificate
    PROVE  HistoryInv'
  <1> SUFFICES ASSUME ~Fail PROVE HistoryInv'
    BY FailHistory
  <1>1. UNCHANGED <<entries, certInfos, checkpointSeqs, landmarks, summary>>
    BY DEF CertificatesScheduled, CheckpointsUpdated, LogComplete, ConstructCertificate
  <1>2. /\ entries \in Seq(EntryConfig) /\ Len(entries) \in Nat
        /\ DOMAIN entries = 1 .. Len(entries)
        /\ at \in Nat /\ entry' = entry
    BY <1>1 DEF Inv, Shape, entry
  <1>3. \A s : CheckpointSizes(s)' = CheckpointSizes(s)
    BY <1>1 DEF CheckpointSizes
  <1>4. LatestKnown'
    <2> SUFFICES ASSUME NEW s \in SeqName, NEW n \in CheckpointSizes(s),
                        n = Len(entries), IsPending(s)
                 PROVE  IsPending(s)' \/ n <= checkpointSeqs[s]
      <3>1. stage # "failed"
        BY DEF CertificatesScheduled, CheckpointsUpdated, LogComplete, ConstructCertificate
      <3> QED
        BY <1>1, <1>3, <3>1 DEF HistoryInv, LatestKnown
    <2>1. stage \in {"schedule", "checkpoints"}
      BY DEF IsPending
    <2>2. Len(entries) # 0 /\ entry \in EntryConfig
      BY <1>2, <2>1 DEF Inv, Shape, entry
    <2>3. entry.checkpoints \in Seq(SeqName)
      BY <2>2 DEF EntryConfig
    <2>4. CASE CertificatesScheduled
      <3>1. stage' = "checkpoints" /\ at' = 1
        BY <2>4 DEF CertificatesScheduled
      <3>2. PICK i \in DOMAIN entry.checkpoints : entry.checkpoints[i] = s
        BY <2>2 DEF CheckpointSizes, entry
      <3>3. 1 <= i
        BY <2>3, <3>2
      <3> QED
        BY <1>2, <3>1, <3>2, <3>3 DEF IsPending
    <2>5. CASE CheckpointsUpdated
      <3>1. stage = "checkpoints" /\ at > Len(entry.checkpoints)
        BY <2>5 DEF CheckpointsUpdated
      <3>2. PICK i \in DOMAIN entry.checkpoints : at <= i
        BY <3>1 DEF IsPending
      <3>3. i \in Nat /\ i <= Len(entry.checkpoints) /\ Len(entry.checkpoints) \in Nat
        BY <2>3, <3>2
      <3> QED
        BY <1>2, <3>1, <3>2, <3>3
    <2>6. CASE LogComplete \/ ConstructCertificate
      BY <2>1, <2>6 DEF LogComplete, ConstructCertificate
    <2> QED
      BY <2>4, <2>5, <2>6
  <1> QED
    BY <1>1, <1>4, HistoryStays

LEMMA SummarizeHistory == Inv /\ HistoryInv /\ Summarize => HistoryInv'
  <1> SUFFICES ASSUME Inv, HistoryInv, Summarize PROVE HistoryInv'
    OBVIOUS
  <1> DEFINE n == Len(landmarks)
             subtrees(i) ==
                LET c == SubtreesForInterval(landmarks[i], landmarks[i + 1])
                IN  {[landmark |-> i, start |-> c.start1, end |-> c.end1],
                     [landmark |-> i, start |-> c.start2, end |-> c.end2]}
  <1>1. /\ summary' = UNION {subtrees(i) : i \in 1 .. n - 1}
        /\ stage = "construct" /\ stage' = "done"
        /\ UNCHANGED <<entries, certInfos, checkpointSeqs, landmarks>>
    BY DEF Summarize
  <1>2. /\ landmarks \in Seq(Nat) /\ n \in Nat /\ Len(entries) \in Nat
        /\ Len(entries) <= MaxEntries
        /\ MaxEntries \in Nat /\ MaxEntries < Pow2[W] /\ Pow2[W] \in Nat
    BY ConfigAssumption, WordFacts DEF Inv, Shape
  <1> HIDE DEF n
  <1>3. SummaryTypeOK'
    <2> SUFFICES ASSUME NEW i \in 1 .. n - 1
                 PROVE  subtrees(i) \subseteq [landmark : Nat, start : Nat, end : Nat]
      <3> HIDE DEF subtrees
      <3> QED
        BY <1>1 DEF SummaryTypeOK
    <2> DEFINE p == landmarks[i]
               e == landmarks[i + 1]
               c == SubtreesForInterval(p, e)
    <2>1. i \in 1 .. n /\ i + 1 \in 1 .. n /\ i \in Nat
      BY <1>2
    <2>2. p \in Nat /\ e \in Nat /\ p <= e /\ e <= Len(entries)
      BY <1>2, <2>1 DEF HistoryInv, LandmarksAscend, n
    <2> HIDE DEF p, e
    <2>3. p \in Word /\ e \in Word
      BY <1>2, <2>2, WordFacts
    <2>4. c \in [start1 : Word, end1 : Word, start2 : Word, end2 : Word]
      BY <2>2, <2>3, TightCover
    <2> HIDE DEF c
    <2>5. c.start1 \in Nat /\ c.end1 \in Nat /\ c.start2 \in Nat /\ c.end2 \in Nat
      BY <2>4, WordFacts
    <2>6. subtrees(i) = {[landmark |-> i, start |-> c.start1, end |-> c.end1],
                         [landmark |-> i, start |-> c.start2, end |-> c.end2]}
      BY DEF c, p, e
    <2> HIDE DEF subtrees
    <2> QED
      BY <2>1, <2>5, <2>6
  <1>4. \A s : CheckpointSizes(s)' = CheckpointSizes(s)
    BY <1>1 DEF CheckpointSizes
  <1>5. SubtreeIsOfItsInterval'
    <2> SUFFICES ASSUME NEW k \in DOMAIN certInfos, HasSubtree(certInfos[k])
                 PROVE  IsOfInterval(certInfos[k],
                                     CheckpointSizes(certInfos[k].config.checkpoint))
      BY <1>1, <1>4 DEF SubtreeIsOfItsInterval, IsOfInterval, HasSubtree
    <2> QED
      BY DEF HistoryInv, SubtreeIsOfItsInterval, IsOfInterval, HasSubtree
  <1>6. LatestKnown'
    BY <1>1, <1>4 DEF HistoryInv, LatestKnown, IsPending
  <1> QED
    BY <1>1, <1>3, <1>5, <1>6 DEF HistoryInv, LandmarksAscend

LEMMA HistoryStep == Inv /\ HistoryInv /\ [Next]_vars => HistoryInv'
  <1> SUFFICES ASSUME Inv, HistoryInv, [Next]_vars PROVE HistoryInv'
    OBVIOUS
  <1>1. ASSUME NEW plants04 \in BOOLEAN, NEW logNumber \in LogNumbers,
               StartLog(plants04, logNumber)
        PROVE  HistoryInv'
    <2> SUFFICES ASSUME ~Fail PROVE HistoryInv'
      BY FailHistory
    <2>1. /\ stage = "start" /\ stage' = "entries" /\ entries = <<>>
          /\ entries' = IF plants04 THEN <<>> ELSE <<NullEntry>>
          /\ UNCHANGED <<certInfos, checkpointSeqs, landmarks, summary>>
      BY <1>1 DEF StartLog, Inv, Shape
    <2>2. CASE plants04
      <3>1. UNCHANGED <<entries, certInfos, checkpointSeqs, landmarks, summary>>
        BY <2>1, <2>2
      <3>2. \A s : CheckpointSizes(s)' = CheckpointSizes(s)
        BY <3>1 DEF CheckpointSizes
      <3>3. LatestKnown'
        BY <2>1, <3>1, <3>2 DEF HistoryInv, LatestKnown, IsPending
      <3> QED
        BY <3>1, <3>3, HistoryStays
    <2>3. CASE ~plants04
      <3>1. NullEntry \in EntryConfig /\ NullEntry.checkpoints = <<>>
        BY DEF NullEntry, EntryConfig
      <3>2. entries' = Append(entries, NullEntry)
        BY <2>1, <2>3
      <3> QED
        BY <2>1, <3>1, <3>2, GrowthHistory
    <2> QED
      BY <2>2, <2>3
  <1>2. ASSUME NEW e \in EntryConfigs, AppendEntry(e)
        PROVE  HistoryInv'
    <2> SUFFICES ASSUME ~Fail PROVE HistoryInv'
      BY FailHistory
    <2>1. /\ stage = "entries" /\ stage' = "schedule" /\ entries' = Append(entries, e)
          /\ UNCHANGED <<certInfos, checkpointSeqs, landmarks, summary>>
      BY <1>2 DEF AppendEntry
    <2>2. e \in EntryConfig
      BY ConfigAssumption
    <2> QED
      BY <2>1, <2>2, GrowthHistory
  <1>3. CASE ScheduleCertificate
    BY <1>3, ScheduleHistory
  <1>4. CASE UpdateCheckpoint
    BY <1>4, CheckpointHistory
  <1>5. CASE CertificatesScheduled \/ CheckpointsUpdated \/ LogComplete \/ ConstructCertificate
    BY <1>5, QuietHistory
  <1>6. CASE Summarize
    BY <1>6, SummarizeHistory
  <1>7. CASE UNCHANGED vars
    <2>1. UNCHANGED <<entries, certInfos, checkpointSeqs, landmarks, summary, stage, at>>
      BY <1>7 DEF vars
    <2>2. \A s : CheckpointSizes(s)' = CheckpointSizes(s) /\ IsPending(s)' = IsPending(s)
      BY <2>1 DEF CheckpointSizes, IsPending, entry
    <2>3. LatestKnown'
      BY <2>1, <2>2 DEF HistoryInv, LatestKnown
    <2> QED
      BY <2>1, <2>3, HistoryStays
  <1> QED
    BY <1>1, <1>2, <1>3, <1>4, <1>5, <1>6, <1>7 DEF Next

LEMMA GenerateInv == Spec => [](Inv /\ HistoryInv)
  <1>1. Init => Inv /\ HistoryInv
    BY InvInit, HistoryInit
  <1>2. (Inv /\ HistoryInv) /\ [Next]_vars => (Inv /\ HistoryInv)'
    BY InvStep, HistoryStep
  <1> QED
    BY <1>1, <1>2, PTL DEF Spec

-----------------------------------------------------------------------------

\* The state of generate keeps its types, and the subtrees it fills in or
\* prints are intervals of the log (generate.go:60-372).
THEOREM GenerateTypeCorrect == Spec => []TypeOK
  <1>1. Inv /\ HistoryInv => TypeOK
    BY DEF Inv, Shape, HistoryInv, SummaryTypeOK, TypeOK
  <1> QED
    BY <1>1, GenerateInv, PTL

\* The subtree of every certificate that named a checkpoint sequence is one of
\* the two that cover the interval between the consecutive checkpoints of the
\* sequence around its entry, the one that has the entry, for every
\* configuration (generate.go:163-209).
THEOREM SubtreesAreOfTheirIntervals == Spec => []SubtreeIsOfItsInterval
  <1>1. Inv /\ HistoryInv => SubtreeIsOfItsInterval
    BY DEF HistoryInv
  <1> QED
    BY <1>1, GenerateInv, PTL

\* A certificate that waits knows the latest checkpoint of its sequence, before
\* its own entry, in every run of generate (generate.go:163-177, 189-209).
THEOREM WaitsAlwaysCurrent == Spec => []WaitsAreCurrent
  <1>1. Inv => WaitsAreCurrent
    BY DEF Inv
  <1> QED
    BY <1>1, InvInit, InvStep, PTL DEF Spec

\* The landmark whose number a certificate was given when it was scheduled has
\* the certificate's subtree among those printed for it, in every run of
\* generate (generate.go:167, 352-371).
THEOREM LandmarksArePrinted == Spec => []LandmarkIsPrinted
  <1>1. Inv => LandmarkIsPrinted
    <2> SUFFICES ASSUME Inv, stage = "done", NEW k \in DOMAIN certInfos,
                        certInfos[k].landmarkNum > 0
                 PROVE  Printed(certInfos[k].landmarkNum, certInfos[k].start, certInfos[k].end)
      BY DEF LandmarkIsPrinted, Printed
    <2>1. ~IsWaiting(awaitingCheckpoint["landmark"], k)
      <3>1. awaitingCheckpoint["landmark"] = <<>>
        BY ConfigAssumption DEF Inv, LandmarkInv
      <3>2. DOMAIN awaitingCheckpoint["landmark"] = {}
        BY <3>1
      <3> QED
        BY <3>2 DEF IsWaiting
    <2>2. IsOfLandmark(certInfos[k], landmarks)
      BY <2>1 DEF Inv, LandmarkInv, LandmarkCertificate
    <2> QED
      BY <2>2 DEF Inv, SummaryInv, IsOfLandmark
  <1> QED
    BY <1>1, InvInit, InvStep, PTL DEF Spec
=============================================================================
