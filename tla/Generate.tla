------------------------------ MODULE Generate ------------------------------
(*****************************************************************************)
(* The test CA (demo/generate.go): entries are added to the log one by one,  *)
(* certificates are scheduled for an entry when it is added, and a           *)
(* certificate that names a checkpoint sequence waits for the sequence's     *)
(* next checkpoint to learn its subtree.  The certificates are constructed   *)
(* once the log is complete.                                                 *)
(*                                                                           *)
(* The configuration is given one entry at a time: any sequence of entries   *)
(* is the one of some configuration.  An entry of the log is the EntryConfig *)
(* it was made from.  Entry indices and tree sizes are the code's; sequences *)
(* start at 1.                                                               *)
(*****************************************************************************)
EXTENDS Subtrees, FiniteSets, Sequences

CONSTANTS
    ID,              \* trust anchor IDs
    CA,              \* config.ID
    Cosigners,       \* the IDs of config.Cosigners
    LogNumbers,      \* the values config.LogNumber may have
    SeqName,         \* names of checkpoint sequences
    NoCheckpoint,    \* the Checkpoint field is empty
    EntryConfigs,    \* the entries a configuration may have
    MaxEntries       \* bound: entries of the log

CertificateConfig == [start : Nat, end : Nat, checkpoint : SeqName \cup {NoCheckpoint},
                      cosigners : SUBSET ID]

EntryConfig == [null : BOOLEAN, wellFormed : BOOLEAN,
                certificates : Seq(CertificateConfig), checkpoints : Seq(SeqName)]

ASSUME ConfigAssumption ==
    /\ "landmark" \in SeqName /\ NoCheckpoint \notin SeqName
    /\ EntryConfigs \subseteq EntryConfig
    /\ LogNumbers \subseteq Nat
    /\ MaxEntries \in Word \ {0}
    /\ CA \in ID /\ Cosigners \subseteq ID

VARIABLES
    stage,               \* which loop of generate is running
    entries,             \* the log
    at,                  \* the position in that loop's list
    certInfos,           \* certificates to be constructed
    awaitingCheckpoint,  \* per sequence, the certificates that wait for it
    checkpointSeqs,      \* per sequence, its latest checkpoint
    landmarks,           \* the checkpoints of "landmark", with the initial 0
    summary              \* the landmark subtrees printed at the end

vars == <<stage, entries, at, certInfos, awaitingCheckpoint, checkpointSeqs,
          landmarks, summary>>

CertificateInfo == [config : CertificateConfig, index : Nat, start : Nat, end : Nat,
                    landmarkNum : Nat]

Wait == [idx : Nat \ {0}, prev : Nat]

NullEntry == [null |-> TRUE, wellFormed |-> TRUE, certificates |-> <<>>,
              checkpoints |-> <<>>]

\* Mutant: the landmark sequence does not begin with 0.
InitWithoutLandmark ==
    /\ stage = "start" /\ entries = <<>> /\ at = 1 /\ certInfos = <<>>
    /\ awaitingCheckpoint = [s \in SeqName |-> <<>>]
    /\ checkpointSeqs = [s \in SeqName |-> 0]
    /\ landmarks = <<>> /\ summary = {}

Init ==
    /\ stage = "start" /\ entries = <<>> /\ at = 1 /\ certInfos = <<>>
    /\ awaitingCheckpoint = [s \in SeqName |-> <<>>]
    /\ checkpointSeqs = [s \in SeqName |-> 0]
    /\ landmarks = <<0>> /\ summary = {}

\* The entry last added.
entry == entries[Len(entries)]

Fail ==
    /\ stage' = "failed"
    /\ UNCHANGED <<entries, at, certInfos, awaitingCheckpoint, checkpointSeqs,
                   landmarks, summary>>

-----------------------------------------------------------------------------

\* From version plants-04 on, a CA certificate is made with the CA's own cosigner, and
\* the log number is not zero; before, the log began with a null entry.
StartLog(plants04, logNumber) ==
    /\ stage = "start"
    /\ \/ /\ plants04 => CA \in Cosigners /\ logNumber # 0
          /\ stage' = "entries"
          /\ entries' = IF plants04 THEN <<>> ELSE <<NullEntry>>
          /\ UNCHANGED <<at, certInfos, awaitingCheckpoint, checkpointSeqs,
                         landmarks, summary>>
       \/ Fail

AppendEntry(e) ==
    /\ stage = "entries" /\ Len(entries) < MaxEntries
    /\ \/ /\ e.wellFormed
          /\ entries' = Append(entries, e)
          /\ stage' = "schedule" /\ at' = 1
          /\ UNCHANGED <<certInfos, awaitingCheckpoint, checkpointSeqs,
                         landmarks, summary>>
       \/ ~e.wellFormed /\ Fail

\* Either a subtree or a checkpoint sequence, and cosigners that are known.
CertificateConfigOK(c) ==
    /\ (c.end # 0) # (c.checkpoint # NoCheckpoint)
    /\ c.cosigners \subseteq Cosigners

\* Mutant: a landmark certificate gets the number of the latest landmark.
CertificateInfoOfLatest(c) ==
    [config |-> c, index |-> Len(entries) - 1,
     start |-> IF c.end # 0 THEN c.start ELSE 0, end |-> c.end,
     landmarkNum |-> IF c.checkpoint = "landmark" THEN Len(landmarks) - 1 ELSE 0]

\* What is known of a certificate when it is scheduled.
CertificateInfoOf(c) ==
    [config |-> c, index |-> Len(entries) - 1,
     start |-> IF c.end # 0 THEN c.start ELSE 0, end |-> c.end,
     landmarkNum |-> IF c.checkpoint = "landmark" THEN Len(landmarks) ELSE 0]

ScheduleCertificate ==
    /\ stage = "schedule" /\ at <= Len(entry.certificates)
    /\ LET c == entry.certificates[at]
       IN  \/ /\ CertificateConfigOK(c)
              /\ certInfos' = Append(certInfos, CertificateInfoOf(c))
              /\ awaitingCheckpoint' =
                    [s \in SeqName |->
                       IF s = c.checkpoint
                       THEN Append(awaitingCheckpoint[s],
                                   [idx |-> Len(certInfos'), prev |-> checkpointSeqs[s]])
                       ELSE awaitingCheckpoint[s]]
              /\ at' = at + 1
              /\ UNCHANGED <<stage, entries, checkpointSeqs, landmarks, summary>>
           \/ ~CertificateConfigOK(c) /\ Fail

CertificatesScheduled ==
    /\ stage = "schedule" /\ at > Len(entry.certificates)
    /\ stage' = "checkpoints" /\ at' = 1
    /\ UNCHANGED <<entries, certInfos, awaitingCheckpoint, checkpointSeqs,
                   landmarks, summary>>

\* Mutant: the entry after the left subtree is taken to be in it.
SubtreeInIntervalOffByOne(prev, size, index) ==
    LET c == SubtreesForInterval(prev, size)
    IN  IF index <= c.end1 THEN [start |-> c.start1, end |-> c.end1]
                           ELSE [start |-> c.start2, end |-> c.end2]

\* The subtree, of the two that cover [prev, size), that has the entry.
SubtreeInInterval(prev, size, index) ==
    LET c == SubtreesForInterval(prev, size)
    IN  IF index < c.end1 THEN [start |-> c.start1, end |-> c.end1]
                          ELSE [start |-> c.start2, end |-> c.end2]

FilledIn(info, prev) ==
    LET t == SubtreeInInterval(prev, Len(entries), info.index)
    IN  [config |-> info.config, index |-> info.index, start |-> t.start, end |-> t.end,
         landmarkNum |-> info.landmarkNum]

\* Mutant: the certificates filled in are left waiting for the next checkpoint.
WaitsAfterAll(seq) == awaitingCheckpoint

WaitsAfter(seq) == [awaitingCheckpoint EXCEPT ![seq] = <<>>]

\* A new checkpoint of a sequence: the certificates that waited for it get
\* their subtrees.
UpdateCheckpoint ==
    /\ stage = "checkpoints" /\ at <= Len(entry.checkpoints)
    /\ LET seq == entry.checkpoints[at]
           waits == awaitingCheckpoint[seq]
       IN  /\ checkpointSeqs' = [checkpointSeqs EXCEPT ![seq] = Len(entries)]
           /\ landmarks' = IF seq = "landmark" THEN Append(landmarks, Len(entries))
                                               ELSE landmarks
           /\ certInfos' = [k \in DOMAIN certInfos |->
                 IF \E i \in DOMAIN waits : waits[i].idx = k
                 THEN FilledIn(certInfos[k],
                        waits[CHOOSE i \in DOMAIN waits : waits[i].idx = k].prev)
                 ELSE certInfos[k]]
           /\ awaitingCheckpoint' = WaitsAfter(seq)
    /\ at' = at + 1
    /\ UNCHANGED <<stage, entries, summary>>

CheckpointsUpdated ==
    /\ stage = "checkpoints" /\ at > Len(entry.checkpoints)
    /\ stage' = "entries"
    /\ UNCHANGED <<entries, at, certInfos, awaitingCheckpoint, checkpointSeqs,
                   landmarks, summary>>

-----------------------------------------------------------------------------

\* The configuration has no more entries.
LogComplete ==
    /\ stage = "entries"
    /\ \/ /\ \A s \in SeqName : awaitingCheckpoint[s] = <<>>
          /\ stage' = "construct" /\ at' = 1
          /\ UNCHANGED <<entries, certInfos, awaitingCheckpoint, checkpointSeqs,
                         landmarks, summary>>
       \/ (\E s \in SeqName : awaitingCheckpoint[s] # <<>>) /\ Fail

\* CreateCertificate finds the subtree in the log and the entry in the subtree.
Constructible(info) ==
    /\ ~entries[info.index + 1].null
    /\ IsValidSubtree(info.start, info.end) /\ info.end <= Len(entries)
    /\ info.start <= info.index /\ info.index < info.end

\* It may still fail, at what the configuration says about the encoding.
ConstructCertificate ==
    /\ stage = "construct" /\ at <= Len(certInfos)
    /\ \/ /\ Constructible(certInfos[at])
          /\ at' = at + 1
          /\ UNCHANGED <<stage, entries, certInfos, awaitingCheckpoint, checkpointSeqs,
                         landmarks, summary>>
       \/ Fail

\* The tiles and the signed checkpoint are written, and the subtrees of every
\* landmark printed.
Summarize ==
    /\ stage = "construct" /\ at > Len(certInfos)
    /\ stage' = "done"
    /\ summary' = UNION {
          LET c == SubtreesForInterval(landmarks[i], landmarks[i + 1])
          IN  {[landmark |-> i, start |-> c.start1, end |-> c.end1],
               [landmark |-> i, start |-> c.start2, end |-> c.end2]} :
          i \in 1 .. Len(landmarks) - 1}
    /\ UNCHANGED <<entries, at, certInfos, awaitingCheckpoint, checkpointSeqs, landmarks>>

Next ==
    \/ \E plants04 \in BOOLEAN, logNumber \in LogNumbers : StartLog(plants04, logNumber)
    \/ \E e \in EntryConfigs : AppendEntry(e)
    \/ ScheduleCertificate \/ CertificatesScheduled
    \/ UpdateCheckpoint \/ CheckpointsUpdated
    \/ LogComplete \/ ConstructCertificate \/ Summarize

Spec == Init /\ [][Next]_vars

-----------------------------------------------------------------------------

TypeOK ==
    /\ stage \in {"start", "entries", "schedule", "checkpoints", "construct",
                 "done", "failed"}
    /\ entries \in Seq(EntryConfig)
    /\ stage \in {"schedule", "checkpoints"} => entries # <<>>
    /\ at \in Nat \ {0}
    /\ certInfos \in Seq(CertificateInfo)
    /\ awaitingCheckpoint \in [SeqName -> Seq(Wait)]
    /\ checkpointSeqs \in [SeqName -> Nat]
    /\ landmarks \in Seq(Nat) /\ landmarks # <<>>
    /\ summary \subseteq [landmark : Nat, start : Nat, end : Nat]

\* A certificate waits with the size its checkpoint sequence had when it was
\* scheduled.  That is still the sequence's latest checkpoint when the next one
\* comes, and the certificate's entry lies after it, so that the interval
\* [prev, size) exists and has the entry in it (generate.go:165, 189-209).
WaitsAreCurrent ==
    \A s \in SeqName : \A i \in DOMAIN awaitingCheckpoint[s] :
        LET w == awaitingCheckpoint[s][i]
        IN  /\ w.idx \in DOMAIN certInfos
            /\ certInfos[w.idx].config.checkpoint = s
            /\ w.prev = checkpointSeqs[s]
            /\ w.prev <= certInfos[w.idx].index
            /\ certInfos[w.idx].index < Len(entries)

\* The tree sizes of a checkpoint sequence, from the log's own history.
CheckpointSizes(s) ==
    {0} \cup {n \in DOMAIN entries :
                 \E i \in DOMAIN entries[n].checkpoints : entries[n].checkpoints[i] = s}

\* The subtree of a certificate is one of the two that cover the interval
\* between the consecutive checkpoints of its sequence around its entry, the
\* one with the entry in it, however the certificates and checkpoints of
\* several sequences are interleaved (generate.go:163-209, README.md:75).
SubtreeIsOfItsInterval ==
    \A k \in DOMAIN certInfos :
        LET info == certInfos[k]
            sizes == CheckpointSizes(info.config.checkpoint)
        IN  info.config.checkpoint # NoCheckpoint /\ info.end # 0 =>
              /\ IsValidSubtree(info.start, info.end)
              /\ info.start <= info.index /\ info.index < info.end
              /\ \E p, e \in sizes :
                    /\ p <= info.index /\ info.index < e
                    /\ \A n \in sizes : n <= p \/ e <= n
                    /\ LET c == SubtreesForInterval(p, e)
                       IN  <<info.start, info.end>> \in
                             {<<c.start1, c.end1>>, <<c.start2, c.end2>>}

\* The number in a landmark certificate's trust anchor ID, chosen before the
\* landmark exists, is that of the landmark whose printed subtrees include the
\* certificate's own: relying parties that predistribute the landmark's
\* subtrees accept the certificate (generate.go:167, 240-250, 352-371).
LandmarkIsPrinted ==
    stage = "done" =>
        \A k \in DOMAIN certInfos :
            certInfos[k].landmarkNum > 0 =>
                [landmark |-> certInfos[k].landmarkNum,
                 start |-> certInfos[k].start, end |-> certInfos[k].end] \in summary

\* A comment on CertificateConfig: "there is always a null entry at zero"
\* (config.go:218-220).
NullEntryAtZero == entries # <<>> => entries[1].null
=============================================================================
