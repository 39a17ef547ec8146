------------------------------- MODULE Output -------------------------------
(*****************************************************************************)
(* What `generate` leaves in its output directory (demo/generate.go): the    *)
(* CA certificate, certificates, bundles of entries, tiles of hashes and the *)
(* checkpoint, file by file, in one run after another.  Nothing is removed.  *)
(* A run may end with an error before any file, or at one: os.WriteFile      *)
(* truncates the file before it writes it.                                   *)
(*****************************************************************************)
EXTENDS Tiles

CONSTANTS
    Configs,    \* the logs and certificates that may be configured
    MaxRuns     \* bound: runs into the same directory

ASSUME OutputAssumption ==
    /\ Configs \subseteq [entries : Seq(Nat), certs : Seq(Nat)]
    /\ MaxRuns \in Nat

VARIABLES
    files,      \* the output directory: what is in the file at each path
    config,     \* what this run was given
    stage,      \* which files the run writes
    level,      \* l, while tiles are written
    tile,       \* i, the tile or certificate written next
    runs,       \* how many runs there were
    published,  \* history: the log whose checkpoint is in the directory
    diverged,   \* history: a run began a log that does not extend that one
    torn        \* history: a file could not be written

runVars == <<config, stage, level, tile>>
history == <<runs, published, diverged, torn>>
outputVars == <<files, runVars, history>>

NoLog == <<-1>>

\* Of a file whose writing failed.
Truncated == <<>>

OutputInit ==
    /\ files = [path \in {} |-> Truncated]
    /\ config = [entries |-> <<>>, certs |-> <<>>] /\ stage = "done"
    /\ level = 0 /\ tile = 0
    /\ runs = 0 /\ published = NoLog /\ diverged = FALSE /\ torn = FALSE

Extends(longer, shorter) ==
    \/ shorter = NoLog
    \/ /\ Len(shorter) <= Len(longer)
       /\ SubSeq(longer, 1, Len(shorter)) = shorter

StartRun(c) ==
    /\ stage \in {"done", "failed"} /\ runs < MaxRuns
    /\ config' = c /\ stage' = "CA certificate" /\ level' = 0 /\ tile' = 0
    /\ runs' = runs + 1 /\ diverged' = (diverged \/ ~Extends(c.entries, published))
    /\ UNCHANGED <<files, published, torn>>

-----------------------------------------------------------------------------

issuanceLog == NewStaticMerkleTree(config.entries)

\* levels has no empty ones but the first.
Level(l) == LevelOf(issuanceLog, l)

WriteFile(path, data) ==
    files' = [p \in DOMAIN files \cup {path} |-> IF p = path THEN data ELSE files[p]]

\* The run ends with an error: before the file at path is written, or at it.
FailAt(path) ==
    /\ stage' = "failed"
    /\ \/ UNCHANGED <<files, torn>>
       \/ WriteFile(path, Truncated) /\ torn' = TRUE
    /\ UNCHANGED <<config, level, tile, runs, published, diverged>>

WriteCACertificate ==
    LET path == <<Named("ca_cert.pem")>>
    IN  /\ stage = "CA certificate"
        /\ \/ WriteFile(path, <<0>>) /\ stage' = "certificates"
              /\ UNCHANGED <<config, level, tile, history>>
           \/ FailAt(path)

\* Each entry has at most one certificate here.
WriteCertificate ==
    LET index == config.certs[tile + 1]
        path  == <<Named("cert"), Itoa(index)>>
    IN  /\ stage = "certificates" /\ tile < Len(config.certs)
        /\ \/ WriteFile(path, <<index>>) /\ tile' = tile + 1
              /\ UNCHANGED <<config, stage, level, history>>
           \/ FailAt(path)

\* Mutant: the checkpoint is written before the tiles.
CertificatesWrittenCheckpointNext ==
    /\ stage = "certificates" /\ tile >= Len(config.certs)
    /\ stage' = "checkpoint" /\ tile' = 0
    /\ UNCHANGED <<files, config, level, history>>

CertificatesWritten ==
    /\ stage = "certificates" /\ tile >= Len(config.certs)
    /\ stage' = "entries" /\ tile' = 0
    /\ UNCHANGED <<files, config, level, history>>

WriteEntries ==
    LET path == TilePath(entryDir, tile, Len(config.entries))
    IN  /\ stage = "entries" /\ TileWidth * tile < Len(config.entries)
        /\ \/ WriteFile(path, TileOf(config.entries, tile)) /\ tile' = tile + 1
              /\ UNCHANGED <<config, stage, level, history>>
           \/ FailAt(path)

EntriesWritten ==
    /\ stage = "entries" /\ TileWidth * tile >= Len(config.entries)
    /\ stage' = "tiles" /\ level' = 0 /\ tile' = 0
    /\ UNCHANGED <<files, config, history>>

WriteTile ==
    LET hashes == Level(level)
        path   == TilePath(levelDir(level), tile, Len(hashes))
    IN  /\ stage = "tiles" /\ level <= W /\ TileWidth * tile < Len(hashes)
        /\ \/ WriteFile(path, TileOf(hashes, tile)) /\ tile' = tile + 1
              /\ UNCHANGED <<config, stage, level, history>>
           \/ FailAt(path)

\* Mutant: on to the next level of the tree, not of the tiles.
NextLevelOfTree ==
    /\ stage = "tiles" /\ TileWidth * tile >= Len(Level(level))
    /\ tile' = 0
    /\ IF level + TileHeight + 1 <= W /\ Level(level + TileHeight + 1) # <<>>
       THEN level' = level + TileHeight + 1 /\ UNCHANGED stage
       ELSE stage' = "checkpoint" /\ UNCHANGED level
    /\ UNCHANGED <<files, config, history>>

NextLevel ==
    /\ stage = "tiles" /\ TileWidth * tile >= Len(Level(level))
    /\ tile' = 0
    /\ IF level + TileHeight <= W /\ Level(level + TileHeight) # <<>>
       THEN level' = level + TileHeight /\ UNCHANGED stage
       ELSE stage' = "checkpoint" /\ UNCHANGED level
    /\ UNCHANGED <<files, config, history>>

checkpointPath == <<Named("checkpoint")>>

\* The note's text; its signatures are left out.
Checkpoint ==
    LET size == Len(config.entries)
    IN  <<size, SubtreeHash(issuanceLog, 0, size)>>

WriteCheckpoint ==
    /\ stage = "checkpoint"
    /\ \/ /\ WriteFile(checkpointPath, Checkpoint) /\ stage' = "landmarks"
          /\ published' = config.entries /\ diverged' = FALSE /\ torn' = FALSE
          /\ UNCHANGED <<config, level, tile, runs>>
       \/ FailAt(checkpointPath)

\* The landmarks are only printed, but this may fail too.
PrintLandmarks ==
    /\ stage = "landmarks" /\ stage' \in {"done", "failed"}
    /\ UNCHANGED <<files, config, level, tile, history>>

OutputNext ==
    \/ \E c \in Configs : StartRun(c)
    \/ WriteCACertificate \/ WriteCertificate \/ CertificatesWritten
    \/ WriteEntries \/ EntriesWritten \/ WriteTile \/ NextLevel
    \/ WriteCheckpoint \/ PrintLandmarks

OutputSpec == OutputInit /\ [][OutputNext]_outputVars

-----------------------------------------------------------------------------

\* The directory is that of one log: its checkpoint has the log's size and
\* root, and every bundle and tile a reader of that checkpoint asks for is
\* there and is the log's.
HoldsLog(log) ==
    LET t == NewStaticMerkleTree(log)
    IN  /\ checkpointPath \in DOMAIN files
        /\ files[checkpointPath] = <<Len(log), SubtreeHash(t, 0, Len(log))>>
        /\ TilesHold(files, entryDir, log)
        /\ \A l \in 0..W :
              l % TileHeight = 0 => TilesHold(files, levelDir(l), LevelOf(t, l))

\* After a run, whatever earlier ones left behind, in the middle of whatever
\* file they failed, a reader that follows the checkpoint finds exactly the log
\* of this run.  While later runs extend the log, and wherever they end with an
\* error other than in the middle of a file, the directory stays that of the
\* log whose checkpoint it has: a tile is never replaced by one for another
\* size, and the checkpoint comes after the tiles it needs (generate.go:287-350).
PublishedLogIsReadable ==
    published # NoLog /\ ~diverged /\ ~torn => HoldsLog(published)

\* No file is written where another run or tile needs a directory, or the
\* other way round (generate.go:46-62, 296-301, 318-323).
PathsDoNotClash ==
    \A p, q \in DOMAIN files : Len(p) < Len(q) => SubSeq(q, 1, Len(p)) # p
=============================================================================
