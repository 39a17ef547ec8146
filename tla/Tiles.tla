-------------------------------- MODULE Tiles --------------------------------
(***************************************************************************)
(* The tiles of a log and their file names (demo/generate.go): each bundle *)
(* of entries, and each tile of hashes of every TileHeight-th level of the *)
(* tree, is a file whose name spells its number in directories of Digits   *)
(* digits; an incomplete one is named by how much it holds.                *)
(*                                                                         *)
(* A path is a sequence of components, and a number in it is its digits: a *)
(* width and a value.  Sequences start at 1.                               *)
(***************************************************************************)
EXTENDS MerkleTree

CONSTANTS
    TileHeight,     \* 8 in the code
    Radix,          \* of the numbers in file names; 10 in the code
    Digits          \* the digits of a tile's number in each directory; 3

ASSUME TileAssumption ==
    TileHeight \in Nat \ {0} /\ Radix \in Nat \ {0, 1} /\ Digits \in Nat \ {0}

TileWidth == Pow2[TileHeight]

Power(b) == LET p[k \in Nat] == IF k = 0 THEN 1 ELSE b * p[k - 1] IN p

Base == Power(Radix)[Digits]

Named(name) == [name |-> name]

Number(width, value) == [x |-> FALSE, width |-> width, value |-> value, p |-> FALSE]

\* Printed with %d, and with %03d.
Itoa(n) ==
    Number(CHOOSE w \in 1..n + 1 :
               n < Power(Radix)[w] /\ (w > 1 => n >= Power(Radix)[w - 1]), n)

Padded(n) == Number(Digits, n)

-----------------------------------------------------------------------------

\* Mutant: the directories are not marked.
tlogIndexUnmarked(n, partial) ==
    LET dirs[k \in 0..n] ==
          IF k = 0 THEN <<>> ELSE Append(dirs[k \div Base], Padded(k % Base))
    IN  Append(dirs[n \div Base], [Padded(n % Base) EXCEPT !.p = partial])

\* The directories in front of the last digits.
indexDirs[k \in Nat] ==
    IF k = 0 THEN <<>>
    ELSE Append(indexDirs[k \div Base], [Padded(k % Base) EXCEPT !.x = TRUE])

tlogIndex(n, partial) ==
    Append(indexDirs[n \div Base], [Padded(n % Base) EXCEPT !.p = partial])

\* Mutant: the last tile is taken to be partial when it is just full.
TilePathOffByOne(dir, i, length) ==
    IF TileWidth * (i + 1) < length THEN dir \o tlogIndex(i, FALSE)
    ELSE dir \o tlogIndex(i, TRUE) \o <<Itoa(length - TileWidth * i)>>

\* Where tile i of a list of the given length is written.
TilePath(dir, i, length) ==
    IF TileWidth * (i + 1) <= length THEN dir \o tlogIndex(i, FALSE)
    ELSE dir \o tlogIndex(i, TRUE) \o <<Itoa(length - TileWidth * i)>>

\* The part of a list that is in tile i.
TileOf(list, i) ==
    SubSeq(list, TileWidth * i + 1,
           IF TileWidth * (i + 1) <= Len(list) THEN TileWidth * (i + 1) ELSE Len(list))

entryDir == <<Named("tile"), Named("entries")>>

levelDir(l) == <<Named("tile"), Itoa(l \div TileHeight)>>

\* A level of the tree as a list.
LevelOf(t, l) == [j \in 1 .. Cardinality(DOMAIN t[l]) |-> t[l][j - 1]]

-----------------------------------------------------------------------------

(****************************************************************************)
(* A reader of the files.  The repository's own one, estimate_tile_size.go, *)
(* asks other logs for a checkpoint's size and for bundles of entries.      *)
(****************************************************************************)

\* encodeIndex, read off the positions of the digits.
encodeIndex(idx) ==
    LET place == Power(Base)
        top == CHOOSE k \in 0..idx : idx < place[k + 1] /\ (k > 0 => idx >= place[k])
    IN  [j \in 1 .. top + 1 |->
            [Padded((idx \div place[top + 1 - j]) % Base) EXCEPT !.x = j <= top]]

\* The path fetchDataTile asks for.
FetchPath(dir, idx, size) ==
    LET index == encodeIndex(idx)
    IN  IF size = TileWidth THEN dir \o index
        ELSE dir \o [index EXCEPT ![Len(index)].p = TRUE] \o <<Itoa(size)>>

\* How much of a list of the given length is in tile i.
SizeOfTile(i, length) ==
    IF length >= TileWidth * (i + 1) THEN TileWidth ELSE length % TileWidth

TilesOf(length) == {i \in 0..length : TileWidth * i < length}

\* All tiles of a list are there, with the list's elements.
TilesHold(files, dir, list) ==
    \A i \in TilesOf(Len(list)) :
        LET size == SizeOfTile(i, Len(list))
            path == FetchPath(dir, i, size)
        IN  /\ path \in DOMAIN files
            /\ files[path] = [k \in 1..size |-> list[TileWidth * i + k]]
=============================================================================
