------------------------------- MODULE Cosign -------------------------------
(*****************************************************************************)
(* Cosignatures (demo/cosign.go).  A message is written as a sequence of     *)
(* numbers: a length, a byte, an arc of an ID in a text or an eight-byte     *)
(* integer is one of them.  A signature is the key that made it and its      *)
(* message, and prefix is what stands before it in a cosignature.  Cosigners *)
(* with different IDs may have the same key.                                 *)
(*****************************************************************************)
EXTENDS TrustAnchorIDs, Subtrees

CONSTANT KeyOf      \* a cosigner's key, by its ID

NoMessage == <<>>

\* The constant parts: the two labels, and the start of a log's or a cosigner's name.
SubtreeLabel    == -1
MTCSubtreeLabel == -2
OriginPrefix    == -3

LengthPrefixed(s) == <<Len(s)>> \o s

tlogOrigin(id) == <<OriginPrefix>> \o String(id).text

\* Mutant: the cosigner's and the log's ID are not delimited.
cosignedMessageUndelimited(plants04, cosigner, logID, timestamp, start, end, hash) ==
    IF \/ timestamp # 0 /\ start # 0
       \/ timestamp # 0 /\ ~plants04
       \/ ~IsValidSubtree(start, end)
    THEN NoMessage
    ELSE (IF plants04
          THEN <<SubtreeLabel>> \o LengthPrefixed(tlogOrigin(cosigner)) \o <<timestamp>>
                 \o LengthPrefixed(tlogOrigin(logID))
          ELSE <<MTCSubtreeLabel>> \o cosigner \o logID)
         \o <<start, end, hash>>

\* Mutant: the timestamp is left out of the message.
cosignedMessageUntimed(plants04, cosigner, logID, timestamp, start, end, hash) ==
    IF \/ timestamp # 0 /\ start # 0
       \/ timestamp # 0 /\ ~plants04
       \/ ~IsValidSubtree(start, end)
    THEN NoMessage
    ELSE (IF plants04
          THEN <<SubtreeLabel>> \o LengthPrefixed(tlogOrigin(cosigner))
                 \o LengthPrefixed(tlogOrigin(logID))
          ELSE <<MTCSubtreeLabel>> \o LengthPrefixed(cosigner) \o LengthPrefixed(logID))
         \o <<start, end, hash>>

cosignedMessage(plants04, cosigner, logID, timestamp, start, end, hash) ==
    IF \/ timestamp # 0 /\ start # 0
       \/ timestamp # 0 /\ ~plants04
       \/ ~IsValidSubtree(start, end)
    THEN NoMessage
    ELSE (IF plants04
          THEN <<SubtreeLabel>> \o LengthPrefixed(tlogOrigin(cosigner)) \o <<timestamp>>
                 \o LengthPrefixed(tlogOrigin(logID))
          ELSE <<MTCSubtreeLabel>> \o LengthPrefixed(cosigner) \o LengthPrefixed(logID))
         \o <<start, end, hash>>

\* Cosigner.sign: fails when there is no message.
Signed(prefix, cosigner, message) ==
    IF message = NoMessage THEN Failed
    ELSE [ok |-> TRUE, prefix |-> prefix, key |-> KeyOf[cosigner], message |-> message]

Sign(plants04, cosigner, logID, start, end, hash) ==
    Signed(<<>>, cosigner,
           cosignedMessage(plants04, cosigner, logID, 0, start, end, hash))

SignCheckpoint(plants04, cosigner, logID, size, timestamp, hash) ==
    IF plants04
    THEN Signed(<<timestamp>>, cosigner,
                cosignedMessage(plants04, cosigner, logID, timestamp, 0, size, hash))
    ELSE Signed(<<>>, cosigner,
                cosignedMessage(plants04, cosigner, logID, 0, 0, size, hash))

\* CosignerPublic.Verify, of a cosignature made by whatever cosigner.
Verify(plants04, cosigner, logID, start, end, hash, cosig) ==
    LET message == cosignedMessage(plants04, cosigner, logID, 0, start, end, hash)
    IN  /\ cosig.prefix = <<>> /\ cosig.key = KeyOf[cosigner]
        /\ message # NoMessage /\ cosig.message = message
=============================================================================
