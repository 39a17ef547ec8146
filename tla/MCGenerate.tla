----------------------------- MODULE MCGenerate -----------------------------
(***************************************************************************)
(* Every log of a few entries, each with certificates and checkpoints of   *)
(* two sequences or a fault in its configuration.                          *)
(***************************************************************************)
EXTENDS Generate

MCID == {"ca", "w", "x"}
MCCosigners == {"ca", "w"}
MCSeqName == {"landmark", "standalone"}

\* A certificate relative to a checkpoint of sequence s.
Within(s) == [start |-> 0, end |-> 0, checkpoint |-> s, cosigners |-> {"ca"}]

\* A certificate with an explicit subtree.
Of(start, end) ==
    [start |-> start, end |-> end, checkpoint |-> NoCheckpoint, cosigners |-> {}]

Entry(certificates, checkpoints) ==
    [null |-> FALSE, wellFormed |-> TRUE,
     certificates |-> certificates, checkpoints |-> checkpoints]

MCEntryConfigs ==
    {Entry(<<>>, <<>>),
     Entry(<<Within("landmark")>>, <<>>),
     Entry(<<Within("standalone"), Within("landmark")>>, <<"standalone">>),
     Entry(<<>>, <<"landmark", "standalone">>),
     Entry(<<Within("landmark")>>, <<"landmark", "landmark">>),
     Entry(<<Of(0, 2)>>, <<>>)}

\* Entries that end the program, now or when the certificate is constructed.
MCFaultyConfigs ==
    {[Entry(<<>>, <<>>) EXCEPT !.wellFormed = FALSE],
     [Entry(<<Of(0, 1)>>, <<>>) EXCEPT !.null = TRUE],
     Entry(<<Of(1, 3)>>, <<>>),
     Entry(<<[Within("landmark") EXCEPT !.end = 1]>>, <<>>),
     Entry(<<Of(0, 0)>>, <<>>),
     Entry(<<[Within("landmark") EXCEPT !.cosigners = {"x"}]>>, <<"landmark">>)}

MCAllConfigs == MCEntryConfigs \cup MCFaultyConfigs
=============================================================================
