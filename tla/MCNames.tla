------------------------------- MODULE MCNames -------------------------------
(*****************************************************************************)
(* IDs, and what is signed with them.  A behaviour builds a string of up to  *)
(* MaxBytes bytes, to be read as an ID and as a pattern, or a text of up to  *)
(* MaxParts parts with bounds at the edges of the encoding; or it is about a *)
(* subtree or a checkpoint that a cosigner is asked to sign.  The IDs of     *)
(* cosigners and CAs contain each other, the IDs of logs among them, and     *)
(* arcs of one and two bytes.                                                *)
(*****************************************************************************)
EXTENDS Cosign

CONSTANTS MaxBytes, MaxParts, MaxCABytes, LogNumbers, LandmarkNumbers,
          IDs, SigningLogs, MaxSize, Hashes, NoRequest

\* IDs can be printed, and logs and landmarks are counted from one.
ASSUME NamesAssumption ==
    /\ \A id \in IDs : id \in Seq(Byte) /\ String(id).valid
    /\ LogNumbers \subseteq Arc \ {0} /\ LandmarkNumbers \subseteq Arc \ {0}
    /\ SigningLogs \subseteq Arc

VARIABLES bytes, parts, request, timestamp

vars == <<bytes, parts, request, timestamp>>

MCIDs == {<<1>>, <<1, 0>>, <<0, 1>>, <<5, 0>>}

\* One cosigner has two IDs.
MCKeyOf == [id \in MCIDs |-> IF id = <<1, 0>> THEN <<1>> ELSE id]

\* What a verifier may take a signature for.
Claims == [plants04 : BOOLEAN, cosigner : IDs, ca : IDs, log : SigningLogs,
           start : 0..MaxSize, end : 0..MaxSize, hash : Hashes]

\* The least and the greatest number of every length, and one that does not fit.
EdgeNumbers == {0, 1, Base - 1, Base, Base^2 - 1, Base^2, ArcLimit - 1, ArcLimit}

Init ==
    /\ bytes = <<>> /\ parts = <<>> /\ timestamp = 0
    /\ request \in Claims \cup {NoRequest}

AddByte ==
    /\ request = NoRequest /\ parts = <<>> /\ Len(bytes) < MaxBytes
    /\ \E b \in Byte : bytes' = Append(bytes, b)
    /\ UNCHANGED <<parts, request, timestamp>>

AddPart ==
    /\ request = NoRequest /\ bytes = <<>> /\ Len(parts) < MaxParts
    /\ \E min \in EdgeNumbers, max \in EdgeNumbers \cup {Infinity} :
          parts' = Append(parts, [min |-> min, max |-> max])
    /\ UNCHANGED <<bytes, request, timestamp>>

TimePasses ==
    /\ request # NoRequest /\ timestamp = 0 /\ timestamp' = 1
    /\ UNCHANGED <<bytes, parts, request>>

Next == AddByte \/ AddPart \/ TimePasses

Spec == Init /\ [][Next]_vars

-----------------------------------------------------------------------------

\* No two IDs, and no two patterns, are printed alike: what can be read is the
\* one encoding of its text, so that the policy, whose tables have the texts as
\* their keys, never confuses two names (config.go:257-279, 318-337).
TextDeterminesBytes ==
    /\ String(bytes).valid => TrustAnchorIDFromString(String(bytes).text).value = bytes
    /\ PatternString(bytes).valid =>
          TrustAnchorIDPatternFromString(PatternString(bytes).text).value = bytes

\* A text is refused, or what it is encoded as is printed as the same text, as
\* an ID and as a pattern: no arc loses bits, no two arcs run together, and
\* infinity is not mistaken for an arc, nor an arc for infinity
\* (config.go:281-316, 350-431).
TextsSurviveEncoding ==
    LET mins    == [i \in DOMAIN parts |-> parts[i].min]
        id      == TrustAnchorIDFromString(mins)
        pattern == TrustAnchorIDPatternFromString(parts)
    IN  parts # <<>> =>
            /\ IF \A i \in DOMAIN parts : mins[i] \in Arc
               THEN id.ok /\ String(id.value) = [valid |-> TRUE, text |-> mins]
               ELSE ~id.ok
            /\ pattern.ok => PatternString(pattern.value) = [valid |-> TRUE, text |-> parts]

-----------------------------------------------------------------------------

\* Whether an ID is in a group: each of its arcs is in the pattern's range for
\* it.  The matching is the relying party's and the server's, not this code's.
InGroup(id, pattern) ==
    LET ranges == PatternString(pattern).text
        arcs   == String(id).text
    IN  /\ Len(ranges) = Len(arcs)
        /\ \A i \in DOMAIN arcs : ranges[i].min <= arcs[i] /\ arcs[i] <= ranges[i].max

\* CAs whose IDs are easily taken for each other's.
Relatives(id) ==
    {ca \in {id, Append(id, 0), Append(id, 1), Append(id, 2), Tail(id)} : String(ca).valid}

\* A landmark as a relying party announces it.
LandmarkOf(ca, log, num) == appendBase128(appendBase128(appendBase128(ca, 2), log), num)

\* A relying party announces the latest landmark it has of a log as one ID.
\* That ID is in the group of a landmark certificate exactly if the log is the
\* same log of the same CA and the landmark not later than the announced one;
\* it is in the group of any other certificate of the same CA
\* (generate.go:250-261).
GroupsSignalSupport ==
    String(bytes).valid /\ Len(bytes) <= MaxCABytes =>
        \A log \in LogNumbers, landmarkNum \in LandmarkNumbers \cup {0} :
        LET pattern == TrustAnchorGroup(bytes, log, landmarkNum)
        IN  \A ca \in Relatives(bytes), n \in LogNumbers, latest \in LandmarkNumbers :
                InGroup(LandmarkOf(ca, n, latest), pattern) <=>
                    /\ ca = bytes
                    /\ landmarkNum > 0 => n = log /\ landmarkNum <= latest

\* The ID in a certificate's properties names its landmark, and no other of
\* any log or any CA, and no landmark has the ID of a CA's log
\* (generate.go:246-249, encode.go:388-396).
LandmarkIDsAreDistinct ==
    String(bytes).valid /\ Len(bytes) <= MaxCABytes =>
        \A log, n \in LogNumbers, l, m \in LandmarkNumbers, ca \in Relatives(bytes) :
            LET id == CertificateTrustAnchorID(bytes, log, l)
            IN  /\ id = CertificateTrustAnchorID(ca, n, m) =>
                       ca = bytes /\ n = log /\ m = l
                /\ id # LogID(TRUE, ca, n)

-----------------------------------------------------------------------------

Log(r) == LogID(r.plants04, r.ca, r.log)

cosignature ==
    Sign(request.plants04, request.cosigner, Log(request),
         request.start, request.end, request.hash)

checkpoint ==
    SignCheckpoint(request.plants04, request.cosigner, Log(request),
                   request.end, timestamp, request.hash)

Accepts(r, cosig) ==
    cosig.ok /\ Verify(r.plants04, r.cosigner, Log(r), r.start, r.end, r.hash, cosig)

\* The same signature, however it is presented.
Bare(cosig) == [cosig EXCEPT !.prefix = <<>>]

\* A subtree cosignature is accepted for what was asked for and nothing else:
\* not for another cosigner, CA, log, interval or hash, and not in a version
\* with the other message (cosign.go:34-63).
CosignatureIsForOneSubtree ==
    request # NoRequest =>
        LET cosig == cosignature
        IN  \A r \in Claims :
            Accepts(r, cosig) <=>
                /\ IsValidSubtree(r.start, r.end)
                /\ [r EXCEPT !.log = IF r.plants04 THEN @ ELSE request.log] = request

\* From plants-04 on, a key that signs checkpoints and subtrees signs no
\* checkpoint that is accepted as a subtree, even without its timestamp
\* (cosign.go:171-180, 227-231).
CheckpointIsNoSubtree ==
    request # NoRequest /\ timestamp # 0 =>
        LET cosig == checkpoint
        IN  request.plants04 /\ cosig.ok =>
                \A r \in Claims : ~Accepts(r, Bare(cosig))
=============================================================================
