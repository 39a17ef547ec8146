# Merkle Tree Certificates: specifications of the demo implementation

These TLA+ modules model the Go program in `demo/`: a test certification
authority (`generate`) that builds an issuance log and certificates from it, and
a relying party (`verify`) that judges certificates under a policy. The
reference is the code; the Internet-Draft in the repository's root supplies the
definitions the code is compared with.

## 1. The system

| part | source | state | operations |
|---|---|---|---|
| subtree arithmetic | `log.go:40-49, 229-255` | none | `IsValidSubtree`, `SubtreesForInterval` |
| Merkle tree | `log.go:14-124, 162-227` | the static tree's levels | `NewStaticMerkleTree`, `SubtreeHash`, `SubtreeConsistencyProof` |
| inclusion proofs | `log.go:126-160, 257-292` | loop variables | `SubtreeInclusionProof`, `EvaluateSubtreeInclusionProof` |
| policy | `policy.go`, `verify.go:40-257` | names, cosigners, groups, requirements, CAs with revoked ranges and trusted subtrees | one operation per policy command, `AddCA` |
| verification | `verify_proof.go`, `verify.go:259-334`, `policy.go:325-347` | the certificate, which cosigners and groups are satisfied, the result | `VerifyMTCProof`, `EvaluateGroups`, the loop of `verify` |
| cosigning | `cosign.go` | keys | `Sign`, `SignCheckpoint`, `Verify` |
| test CA | `generate.go` | log entries, certificates to construct, per sequence the latest checkpoint and the certificates that wait for it, landmarks | the loops of `generate` |
| issuance | `encode.go:388-546` | the attempt and its cosignatures, while a certificate is made | `CreateCertificate`, `CreateCACertificate` |
| trust anchor IDs | `config.go:257-455`, `encode.go:388-396`, `generate.go:246-261` | none | base-128 codec, IDs, patterns, log IDs, the IDs and groups of property lists |
| formats | `config.go`, `encode.go`, `verify_proof.go:44-215`, `policy.go:100-200` | none | JSON in; entries, proofs, certificates and CA certificates out, and in again |
| output | `generate.go:34-62, 231-350` | files | CA certificate, certificates, bundles, tiles, checkpoint |
| command line | `main.go`, `print_proof.go` | none | dispatch, printing |
| size estimates | `estimate_tile_size.go` | none | stand-alone calculation |

The program is sequential: `generate` runs to its end and leaves files, `verify`
reads certificates, CA certificates and a policy file. What connects the two is
the certificate (serial number, subtree, inclusion proof, cosignatures) and what
`generate` prints for relying parties to predistribute (landmark subtrees). There
are no threads, messages or timers. `generate` reads nothing back, but may be run
again into a directory where an earlier run ended, well or with an error. The hard
parts are these:

* arithmetic on the edge of an incomplete tree, on words that wrap;
* references captured early and used late: policy lines resolve names to
  indices while the tables still grow, certificates are scheduled before the
  checkpoint, or the landmark, that they depend on exists;
* order: of the policy's lines, of one-pass group evaluation, of the verifier's
  checks, of checkpoints of several sequences around an entry;
* data that arrives changed: proofs and cosignatures of something close to what
  is wanted;
* eight draft versions that write and read nearly the same bytes;
* one inner loop without a bound of its own, and a retry loop whose test comes
  after a sort;
* a directory written file by file.

What makes each part correct:

* *arithmetic, tree*: agreement with the draft's recursive definitions for every
  input, no access outside the tree;
* *proofs*: the right proof convinces, nothing else does, evaluation ends;
* *policy*: every stored index keeps its meaning, the groups have exactly one;
* *verification*: a verdict depends only on what the policy declares and what
  was signed, in both directions;
* *test CA*: each certificate's subtree covers its entry within its own
  checkpoint interval, and its landmark number is the right one;
* *issuance*: a certificate has all its cosignatures however often they were
  made again, and its serial number names its entry; what `generate` issues,
  `verify` accepts, when the bounds and the policy make it due and only then;
* *names*: no two IDs are confused, none loses bits, and a certificate's groups
  signal support for what the relying party has and nothing else;
* *cosigning*: a message that is signed stands for one claim;
* *formats*: the verifier reconstructs the entry that is in the log, and no
  version takes what another wrote for something else;
* *output*: a reader of the checkpoint finds the log, after every run and every
  failure between two files.

## 2. The modules

| module | models | extends |
|---|---|---|
| `Subtrees` | subtree arithmetic, W-bit words | |
| `MerkleTree` | tree, subtree hashes, consistency proofs | `Subtrees` |
| `MerkleReference` | RFC 9162's `MTH` and `PATH`, the draft's consistency verification (the yardstick, not the code) | `MerkleTree` |
| `InclusionProof` | proving, delivery, evaluating, step by step | `MerkleTree` |
| `Certificates` | serial numbers, signed messages, certificates | `Subtrees` |
| `Policy` | reading CA certificates and the policy file | `Certificates` |
| `VerifyProof` | judging certificates | `Policy` |
| `Quorums` | what groups mean, by name | |
| `RelyingParty` | abstract specification of `verify` | `Certificates`, `Quorums` |
| `Acceptance` | properties of `VerifyProof`, refinement mapping | `VerifyProof`, `Quorums`; instantiates `RelyingParty` |
| `Generate` | the test CA: entries, checkpoints, landmarks | `Subtrees` |
| `Issuance` | making one certificate, and CA certificates | `Certificates`, `MerkleTree` |
| `EndToEnd` | issuance and verification together | `Issuance`, `Acceptance` |
| `TrustAnchorIDs` | IDs, patterns, log IDs, property list contents | |
| `Cosign` | messages, signing, verifying | `TrustAnchorIDs`, `Subtrees` |
| `Encoding` | what each draft version writes and reads | `TrustAnchorIDs` |
| `Formats` | certificates of one draft version, read as those of another | `Encoding` |
| `Tiles` | tiles and their file names | `MerkleTree` |
| `Output` | the output directory over several runs | `Tiles` |
| `AcceptanceProofs` | proofs about `Policy` and `VerifyProof`, and of the refinement | `Acceptance` |
| `SubtreeProofs` | lemmas: recursion on numbers, powers of two, words, covers, `MTH` and `Path` from the top and node by node | `MerkleReference` |
| `MerkleProofs` | proofs about arithmetic, hashes, inclusion proofs | `MCMerkle`, `MCInclusionProof`, `SubtreeProofs` |
| `GenerateProofs` | proofs about the test CA | `Generate`, `SubtreeProofs` |
| `EndToEndProofs` | proofs about issuance, and that it and verification agree | `EndToEnd`, `AcceptanceProofs` |
| `NameProofs` | proofs about IDs, patterns and cosigned messages | `MCNames`, `SubtreeProofs` |
| `EncodingProofs` | proofs about certificates and log entries | `Formats`, `NameProofs` |
| `OutputProofs` | proofs about tiles, their names and the output directory | `Output`, `SubtreeProofs` |
| `MCLog` | the log that the checks and proofs on the tree are about: `LeafCount` different entries | `MerkleReference` |
| `MC...` | instances for TLC, with the properties that compare operators with definitions | |

How the models correspond to the code:

**Words.** `W` bits in place of 64. Every operation that can wrap is reduced
modulo `2^W` (`Minus`, `ShiftedOne`, `Complement`), so boundary cases of 64 bits
occur at 4 or 5. Bit operations are written by `div` and `%`.

**Hashes** are free terms: two are equal exactly when computed alike. Collision
resistance is an assumption of the model. `NoHash` is what a function returns
with an error or does not return because it panics; it equals no hash. In
`Encoding` a hash is the data it was computed from.

**`InclusionProof`.** `stage` says which loop runs. `StartProof`, `ProveLevel`
are `SubtreeInclusionProof`; `Deliver` is the certificate on its way: it may be
for another position, and the proof may be damaged (`BitFlipProof`, or cut,
extended or replaced in transit). `StartEvaluation`, `ReadHash`, `Shift`,
`Finish` are `EvaluateSubtreeInclusionProof`, with one step per iteration of the
inner loop. A proof is a sequence of hashes and a flag for trailing bytes that
make no whole hash; in the code they are found when everything before them was
read, so they are an error at the end or the proof was too long already.

**`Policy`, `VerifyProof`.** The variables are the fields of `Policy`. `phase`
is how far `verify` has come: `caCerts`, `policyFile`, `ready`, then `passed` or
`failed`. Each command is an action with its checks; any error is `Abort`.
Lines that do not parse lead to `Abort` too (`wellFormed = FALSE`). Sequences
and stored indices start at 1, in the code at 0. `VerifyMTCProof` does the
checks up to the signatures in one step, since they read nothing that changes;
`EvaluateGroup` is one iteration of `EvaluateGroups`; `CheckRequirements` and
`ReportResult` finish. A signature is the key that made it and the message it
covers; a certificate holds the hash its proof evaluates to (`InclusionProof`
says when there is one).

**`RelyingParty`** is what `verify` promises: sets of declarations about names,
each certificate judged in one step by their meaning. `Acceptance` maps the
tables to the declarations, and hides a certificate until it is judged.

**`Generate`.** One action per loop body: `AppendEntry`, `ScheduleCertificate`,
`UpdateCheckpoint`, `ConstructCertificate`, and the steps between loops. The
configuration is handed over one entry at a time, so that TLC explores every
sequence of entries; `Repeat` is the same entry given again. The certificates'
subtrees are `0, 0` until filled in, as in the code. `ConstructCertificate` may
fail beyond what is modelled, for reasons of encoding.

**`Issuance`.** One call of `CreateCertificate`. `issuing` is `signing` while
cosigners sign one after the other (`CosignNext`), `signed` once the
cosignatures are sorted (`SortCosigs`), then back to `signing` (`RetryCosigs`) or
on to `done`, `failed` or `gave up` (`Encode`). A signature's last bit is drawn
from `LastBits`: both for a randomized algorithm, one for Ed25519, whose retries
all give the same bytes. `slices.SortedFunc` is not stable, so `Sorted` allows any order
of equal IDs. `MaxAttempts` is 32 in the code.

**`EndToEnd`.** `CreateCACertificate`, then `CreateCertificate` (the steps of
`Issuance`); then the relying party's `LoadCACertificate`, `ReadPolicyFile` (the
steps of `Policy`), `Present` and `JudgePresented` (the steps of `VerifyProof`).
`ReadBack` is the certificate as the parser sees it: a set unused bit or an
overridden extension makes it unreadable, a flipped proof bit gives it the hash
of no subtree.

**`TrustAnchorIDs`.** A byte carries a digit in base `Base` of an arc (2^7 in
the code), an arc is below `ArcLimit` (2^32). A text is the sequence of its
dot-separated parts, each a number or, in a pattern, a pair of bounds; the
decimal digits are left out. `parseBase128` keeps its overflow test, shift by
shift, in integers below `ArcLimit`. `appendBase128` counts the digits first and
then writes them; `LeadingBytes` are all but the last of them.

**`Cosign`.** A message is a sequence of numbers: a length byte, an ID's byte,
an arc in a text and an eight-byte integer are each one. Cosigners with
different IDs may share a key (`KeyOf`).

**`Encoding`.** Draft versions are 0 to 7, davidben-09 to plants-07. A DER
element is tag, length, contents, and the length one number; a TLS vector is
length, contents, with the length as bytes of 2 `Base` values. An object
identifier, an integer and a character are one number each. `Formats` takes a
request through them: `Write` is what `generate` writes for it, a certificate
and a CA certificate for each algorithm the CA's cosigner may have, as
`x509.ParseCertificate` has them; `ReadAs(v)` is `verify` reading both as version
`v`. `Requests` are the certificates asked for, `Compared` those whose entries
are compared with each other (all of them, but for the key usages, in the run).

**`Tiles`, `Output`.** A path is its components, and a number in it the width
and the value of its digits. `TileHeight` is 8, `Radix` 10 and `Digits` 3 in the
code. `Output` has a stage for each kind of file; each write may be the run's
last, with the file left as it was or truncated (`FailAt`). The history
variables say which log's checkpoint was published last (`published`), whether
a later run began a log that does not extend it (`diverged`), and whether a file
was cut short since (`torn`).

## 3. The runs

| run | shows | bounds |
|---|---|---|
| `merkle` | validity and covers agree with the draft's definitions and covers are minimal; `SubtreeHash` equals `MTH` and never leaves the tree; consistency proofs convince for the right subtree only | every pair of 5-bit words, every prefix of a log of 14 |
| `inclusion` | sent proofs are RFC 9162's; only the right proof of the right entry evaluates to the subtree's hash, and that one does; evaluation ends | every position in a log of 6 and some invalid ones, every delivery shortened, extended or with one hash changed, every entry hash |
| `policy` | indices keep their meaning, groups have one meaning, acceptance and refusal agree with it; refinement of `RelyingParty` | every order of lines with 2 CAs and a malformed one, a witness, 7 group lines (duplicates, self reference, a group named as a cosigner, bad numbers); signature lists with a checkpoint's signature, another log's, another key's, misordered, duplicated |
| `trust` | refinement with serial bounds, revocations and trusted subtrees | every serial of 3 bits, two hashes, positions matching and not |
| `generate` | waits are current, subtrees lie in their interval, landmark numbers are right | every log of up to 5 entries, two sequences, every configuration error |
| `null_entry` | *violated*: "there is always a null entry at zero" (`config.go:218-220`) does not hold from plants-04 on, where `generate.go:117-122` begins the log without one | as `generate`, 3 entries |
| `names` | encodings and texts determine each other, groups signal what they should, cosigned messages are for one claim | every string of up to 5 bytes, every text of up to 2 parts with bounds at the edges of each encoded length, CAs whose IDs are prefixes or extensions of each other |
| `encoding` | the verifier reconstructs the log's entry, different contents have different entries, no version misreads another's proof or CA certificate, the key usage is DER | what each of 8 versions writes, read by each of 8 |
| `cosigner_order` | *violated*: "plants-04 canonicalizes the cosigner order" (`encode.go:428`), but the parser (`verify_proof.go:105`) demands that order of every draft's proofs, so it refuses what `generate` writes for an older draft with different cosigners configured in another order | as `encoding` |
| `issuance` | cosignatures are complete after retries and sorting, no attempt is wasted, serials name entries, issuance ends | a log of 4, cosigners with every last bit in every order, extra cosignatures before, between and after them, 2 retries, every index and interval, an index one too large |
| `end_to_end` | what is due is accepted, what is accepted is due | a log of 4, 4 sets of serial bounds, 13 requests with and without each test setting, every policy of up to one requirement per CA and one for all, 2 group lines, 2 revoke lines, a right and a wrong trusted subtree; `MaxRevocations = 3` leaves room for one line after the two ranges outside the bounds |
| `output` | the checkpoint's reader finds the log; no file is in the way of a directory | 3 runs, logs of 0, 3, 4, 6 and 17 entries that extend each other and one that does not, a failure at any file |

Why the bounds are enough. The subtree functions depend on where two numbers
diverge and on runs of zeros and ones; 5 bits contain every combination of an
empty, short and long run on each side, and the wrap-around at the top. A log
of 14 has incomplete right edges at three levels at once, one of 6 at two. In
the policy, a name conflict involves two lines and a chain of groups two groups
and a cosigner. A certificate's wait involves its own entry, one checkpoint
before, one after, and another sequence in between: four entries; the fifth lets
a second landmark follow. `MaxRequirements`, `MaxRevocations`, `MaxTrusted` and
`MaxEntries` bound the lists; each list is only searched, so that one element of
each kind, and two for order, make the cases.

With two bits a byte and five an arc (`Base = 4`, `ArcLimit = 32`), an arc is one to three bytes long, the
longest not full (as 32 bits are not a multiple of 7), and 5 bytes hold an arc
that overflows, one that is padded and two that run into each other. A retry
that goes wrong does so at the second attempt; the third shows that the loop
continues and that it stops. `IndexCount = 3` lets index 3 run into the log
number. With tiles of four hashes and numbers in base two, 17 entries make five
bundles, three levels of tiles and names three directories deep, full tiles,
partial ones, and a partial one that a longer log turns into a full one. Three
runs are a log, one that extends it or fails, and one after that.

`CHECK_DEADLOCK FALSE` is used where the program stops: after the last
certificate, after an error, or when the log or the name is done. `merkle` runs
on from word to word and needs it not.

**Fairness.** `inclusion` has the liveness property `Terminates`, under
`WF_vars(Next)`, and `issuance` `IssuanceEnds`, under
`WF_issuanceVars(IssuanceNext)`. Both are sequential functions: once called, the
thread that runs them keeps executing until they return. No fairness is assumed
of single actions, of the choice of last bits, or of anything else: an unlucky
signature may be made at every attempt.

## 4. The proofs

All are checked by TLAPS for every value of the constants, under the assumptions
named in the modules: `WordWidthAssumption`, `SerialAssumption`,
`NameAssumption`, `PolicyInputAssumption`, `CertificateAssumption`,
`PositionAssumption`, `ConfigAssumption`, `IssuanceAssumption`,
`HashAssumption`, `CAConfigAssumption`; for `EndToEndProofs` only,
`GenerateAssumption`, `CanonicalOrderAssumption`, `DamagedAssumption`,
`ReadableAssumption`; for `MerkleProofs` only, `LeafCountAssumption`,
`TreeAssumption`, `DeliveryAssumption`; for `NameProofs` only,
`WidthAssumption`, `NamesAssumption`; for `EncodingProofs` only,
`WidthAssumption`, `FormatAssumption`; for `OutputProofs` only,
`TileAssumption`, `OutputAssumption`. Most say no more than the types of the
inputs, that a log's size is a word, that `"landmark"` is a sequence's name, and
that `NoCertificate` is no certificate. The others say that `generate` writes a
CA certificate and certificates of one draft version, plants-04 or later, and
that other CAs have other IDs; that `compareCosignerIDs` is a strict total order;
that the hash of a damaged proof is that of no subtree, which is collision
resistance; and that the tree of `inclusion` is the one made from the log, and
that what is delivered is a sequence of hashes; that `ArcLimit` is a multiple of
`Base`, as 2^32 is of 2^7, and infinity no arc (`WidthAssumption`); and that the
IDs of cosigners and CAs can be printed, and logs and landmarks are counted from
one (`NamesAssumption`); and that a CA's ID can be printed and the entry
extensions fit a length of two bytes, without which `generate` has an error from
`cryptobyte` (`FormatAssumption`). TLC evaluates them all on the runs' constants.

Arithmetic first, in `SubtreeProofs`. The provers know nothing of `2^n`, so
`Pow2` is a recursive function, and that it satisfies its equations is proved: a
function that leads every number back to a smaller one exists, since its initial
pieces exist for every length by induction on sets of numbers
(`NatInductionOnSets`), agree, and have a union (`RecursionExists`,
`StepsExist`). The same argument, with tables of rows, gives the equations of
`MTH` and `Path` (`TablesExist`, `MTHEquations`, `PathEquations`); to those of
`subtreeSubproof` and of the verifier's run it is applied along the windows and
along the proof (`SubproofsExist`, `RunsExist`). The static tree's levels are the
hashes of their full nodes, for every list of entries (`LevelsAre`). On these rest
the lemmas about alignment (`Multiples`, `DivMod`), bit lengths (`BitLenFacts`)
and masks (`MaskIs`).

* **`ValidityAlwaysMatches`, `CoversAreTight`** (`MerkleProofs`). `BIT_CEIL` is
  the power of `bits.Len64(n - 1)` unless it wraps to zero, in which case the
  mask is all ones and only `start = 0` passes, as the definition wants
  (`ValidSubtreeIs`). The split of a cover is the highest bit in which `start`
  and `last` differ (`CoverIs`), so both halves lie between multiples of it, and
  the left one is cut to the bits in which `start` and the split differ
  (`TightCover`).
* **`SubtreeHashesMatch`** (`MerkleProofs`). `MTH` splits from the top, the code
  climbs from the right edge. What both pass through are the nodes of a level:
  `Lo` and `Hi` are the ends of the entry's node there, cut to the subtree, and a
  step up is either a split of `MTH` or no change (`NodeStep`, `NodeTop`). The
  level the code begins at is that of the largest full node on the edge
  (`EdgeLevelIs`), and each sibling it reads is one the static tree has
  (`TreeIs`, `LevelIsFull`).
* **`ProofsAreThePaths`** (`MerkleProofs`). The invariant `ProverInv`: after
  `level` steps the indices are those of the level and the proof is `PathAt`, the
  part of `PATH` below it (`PathGrows`). A neighbour of an inner node is full,
  one on the edge may not be, and one beyond it does not exist
  (`NeighborCases`, `NeighborHashIs`).
* **`ProofsProveTheirEntry`, `IntactProofsConvince`** (`MerkleProofs`). The
  invariant `VerifierInv`: at each level, the hash computed is the hash of the
  entry's node *exactly when* what was read so far is the entry and its siblings
  up to there. With free hashes a node's hash has one pair of children
  (`HashesDiffer`), so the equivalence survives a step up (`ReadsRight`,
  `TakesLeft`, `ShiftsOn`); a proof too short or too long ends in an error, which
  is no hash. Both directions at the root are the two theorems.
* **`ConsistencyProofsConvince`** (`MerkleProofs`). The code's windows, from the
  top down, are the nodes above the subtree's last entry, to the level where the
  verifier starts (`WinAt`, `SiblingWindow`, `NotWhole`, `StartIsWhole`); the
  proof has one sibling for each of these nodes that has one (`SubproofIs`,
  `LedOn`). The verifier's loop keeps `IsVerified`: after the siblings below a
  level, its indices are those of that level, its first hash is that of the
  subtree's part of the node and the second the node's. If it began from the hash
  it was given, the second is the node's exactly when the given one is right
  (`HashesAre`, `AbsorbLeft`, `AbsorbRight`). At the top this says that the
  verifier accepts the hash of the subtree and no other (`AcceptsOnlyTheHash`),
  and the leftmost leaf of a hash tells where its subtree begins
  (`HashTellsStart`).
* **`EvaluationStaysInSubtree`** (`MerkleProofs`). `PathIsInSubtree` is
  inductive once the position is known to be one of `Positions`: `fn <= sn`
  survives halving, and the inner loop is entered with `fn # 0` because `fn` is
  odd or equals `sn`, which is not zero there.
* **`TypeCorrect`, `IndexesAlwaysResolve`** (`AcceptanceProofs`). The
  invariant is `PolicyTypeOK /\ IndexesResolve`: that
  names and tables mirror each other in both directions (`NamesResolve`,
  `EntriesAreNamed`) is what makes a lookup at any later time return the index
  of an earlier one. Tables only grow, so what resolved keeps resolving
  (`TablesOnlyGrow`, `IndexesAreStable`).
* **`AcceptanceIsSound`, `RefusalIsJustified`** (`AcceptanceProofs`). The added
  part is `CountingInv`, the loop invariant of `EvaluateGroups`: the groups
  before `next` are marked exactly when enough members are. Because members
  precede their group (`GroupsAreOrdered`), a count does not change once it is
  taken (`CountsAreSettled`), so at the end the marked names solve the group
  equations (`SatisfiedNamesAreTheMeaning`).
* **`PolicyAlwaysHasOneMeaning`** (`AcceptanceProofs`). A solution of the group
  equations exists because one for the first `k` groups extends to one more
  (`OneMoreGroup`: no earlier group has the new one as a member), so that there
  is no least `k` for which they cannot be solved. It is unique because two
  solutions would disagree on some first group, whose members all come earlier,
  where they agree.
* **`VerifierImplementsRelyingParty`** (`AcceptanceProofs`). First,
  `RelyingParty`'s operators on constants are `VerifyProof`'s. Then, for each
  command, what it does to the declarations that its tables map to: one of them
  grows (`GroupDefsGrow`, `RequiredPairsGrow`, `RevokedSerialsGrow`,
  `TrustedLinesGrow`), the others stay. The ranges that loading a CA revokes are
  the serials outside its bounds (`OutsideRangesMean`); a trusted subtree is the first at its position in the
  list and the only one in the set. A certificate under judgement is hidden;
  `VerdictInv` says what has been found out about it:
  while signatures are counted, nothing before them decides it. The verdict then
  agrees by `SatisfiedNamesAreTheMeaning` and uniqueness (`SameMeaning`).
* **`WaitsAlwaysCurrent`, `LandmarksArePrinted`** (`GenerateProofs`). The
  invariant adds that no checkpoint is beyond the log and, while certificates
  are scheduled, none includes the new entry (`CheckpointsInLog`); and that a
  landmark certificate either waits, with the number of the next landmark, or
  has a subtree of the cover of its landmark's interval (`LandmarkInv`).
* **`GenerateTypeCorrect`, `SubtreesAreOfTheirIntervals`** (`GenerateProofs`).
  The wait of a certificate names the interval between two checkpoints that its
  entry lies in, and of the two subtrees that cover it (`TightCover`) the code
  takes the one with the entry.
* **`IssuanceTypeCorrect`, `CosignaturesAreAlwaysComplete`,
  `AlwaysGivesUpLate`** (`EndToEndProofs`). `Progress` is the invariant of the
  retry loop: while cosigners sign, the extra cosignatures come first and the
  n-th after them is the n-th cosigner's, over the requested subtree; a
  permutation of such a list is complete (`RearrangedIsWellSigned`), whatever
  sorting does with equal IDs.
* **`SerialsAlwaysNameEntries`** (`EndToEndProofs`). What is issued passed
  `SerialIsValid`, so the index is below `IndexCount`, and a product plus a
  smaller remainder is taken apart into the two again (`Unpacked`).

* **`IssuedIsAccepted`, `OnlyDueIsAccepted`** (`EndToEndProofs`). The
  invariants of `Issuance` and of the verifier hold of their composition; for
  that, what `AcceptanceProofs` says of a step is said of any certificate
  presented (`VerifierInv`) and of any CA certificate loaded (`AnyPolicyStep`).
  `EndToEndInv` adds what ties the two together: what was signed exists and is
  sorted, and its serial number fits (`EncodedInv`); the CA certificate carries
  the bounds it was configured with (`CACertInv`); the ranges outside these come
  first in what the relying party revokes and stay there (`BoundsAreKept`); and
  the certificate under judgement is the one issued (`PresentedInv`). Then
  serial numbers are ordered as log and index are (`PrecedesBySerial`), so that
  being within the bounds is not being revoked by them
  (`RevokedOnlyOutOfBounds`); sorting gives the order the parser demands unless
  a cosigner is there twice (`OrderedIsSortedAndDistinct`); the cosignatures that
  count are those asked for (`SignersWereAsked`); and uniqueness of the policy's
  meaning makes the verdict the one that is due (`CountedVerdict`).
* **`NamesAreNotConfused`, `NamesSurvive`** (`NameProofs`). What `parseBase128`
  has read after some bytes is a number whose digits they are (`LeadingAreRead`),
  and its shift test fails exactly when the number outgrows an arc; so the bytes
  of an arc are read as that arc whatever follows them, and bytes that are read
  are the ones `appendBase128` writes (`ArcCodec`). The ranges of a pattern obey
  the same three laws, with the byte that stands for infinity never the first of
  an arc (`RangeCodec`, `FirstByte`). A sequence of such codes is then read back
  part by part, by an induction along the loop of `TextOf`, and what the loop can
  read to its end is the code of its text (`WrittenIsPrinted`,
  `PrintedIsWritten`).
* **`GroupsAreRight`, `LandmarksHaveOneID`** (`NameProofs`). By the above, IDs may
  be replaced by their texts: the text of the ID of a log or a landmark is the
  CA's with two or three more arcs (`LongerIDs`), and a group's is a range for
  each (`GroupTexts`); two texts of one length that agree on every arc agree on
  the CA, the log and the landmark. What would confuse them, a CA whose ID
  extends another's, differs in length or in the arc that says "landmark".
* **`CosignaturesAreForOneSubtree`, `CheckpointsAreNoSubtrees`** (`NameProofs`).
  A message is taken apart from its left: its label tells the two kinds of
  messages apart, a length prefix says where an ID ends (`PrefixedEqual`), the
  timestamp is one number (`OneEqual`), and what is left are the bounds and the
  hash (`ClaimsEqual`). In a plants-02 message the log's number does not appear,
  so there the theorem says that the CA is bound.

* **`EntriesAreReconstructed`** (`EncodingProofs`). An element is read back as
  what was written, whatever follows it (`ElementIsRead`), and so, part by part,
  is a chain of them (`ElementsAreRead`); a TBSCertificate is such a chain
  (`CertificateIsChain`), for every version and configuration. So the parsed
  certificate has the TBSCertificate and the key that went into it
  (`CertificateIsRead`), and the entry put together from these consists of the
  same pieces as the log's (`EntryIs`, `LogEntryIs`). The algorithm is the one that
  both sides parse out of the key, which is well formed if an entry was made
  (`KeyExists`).
* **`EntriesStandForOneCertificate`** (`EncodingProofs`). Conversely, what begins
  with one element begins with no other (`ElementTellsParts`), nor does what begins
  with a vector (`VectorTellsParts`). Equal entries therefore have equal entry
  extensions (`EntryFromTells`) and then equal issuers, validities, subjects, keys
  and extensions (`NameOnTells`). The key's algorithm is part of the key, so equal
  keys make equal TBSCertificates but for the serial number (`UnserialedIs`). The
  entry of a certificate without the version begins with another tag there
  (`EntriesTell`).

* **`PublishedLogIsAlwaysReadable`, `PathsNeverClash`** (`OutputProofs`). First the
  names. The writer takes a tile's number apart from its last digits, the reader
  by the place of each (`IndicesAgree`); all but the last directory are marked, so
  that one tile's name is never the beginning of another's (`DirsDiffer`,
  `TilePathsDoNotNest`), and a path tells the list, the tile's number and how much
  it holds (`PathsDiffer`). Then the lists: entries and nodes of a log are the
  beginning of those of a log that extends it (`NodesStay`), so a file written
  again gets the same content (`TilesAreHarmless`). The invariant `OutputInv`
  says what the run is past: those tiles of its own log are in the directory
  (`Progress`), its log goes on from the published one unless some run diverged
  (`GoesOn`), and every file has one of the known paths (`PathsAreKnown`).
  `PublishedLogIsReadable` alone is not inductive: without `Progress` the
  checkpoint might come before a tile, without `GoesOn` a tile might change.
  Leaving a level of tiles, the next to write is `TileHeight` above
  (`TileLevels`), and if that is empty so are all above it (`NoNodesAbove`).

Only model-checked: `ProofsAreNotMisread` and `CACertificatesDoNotMix`, which ask
what a parser of one version makes of another version's bytes, so that a proof
would have a case for each pair of versions and follow the lists they read
(`ReadList`, `FindExtension`) through bytes that are none; `KeyUsageIsDER`, whose
run has all 512 key usages (its bytes are sums of powers written with `^`, so
`EncodingProofs` takes them as they are: `Datum`); and the
liveness properties `Terminates` and `IssuanceEnds`, as liveness under fairness
and `ENABLED` are out of the provers' reach. The library's induction theorems take
an operator as a parameter; induction on *sets of numbers* is a theorem about
sets, which is why recursion on a number could be dealt with as above.
`ProverInv`, `VerifierInv` and the other strengthenings live in the proof modules.

## 5. Not modelled

* JSON syntax and the configuration's own errors other than those that
  `Generate` meets; times and subjects; the property list's framing; integers of
  several bytes. What these refuse appears as `wellFormed` flags and free
  failures.
* Signature algorithms and keys: a signature is the key and the message it
  covers. That the configured cosigners have distinct IDs is not tested by
  `generate`; `Issuance` takes a cosigner to be its ID.
* `main.go`, `print_proof.go` and console output: dispatch, and the text of
  proofs that other modules model.
* `estimate_tile_size.go` samples other logs over HTTP; only the tile names it
  asks for are in `Tiles`.
* A file that `os.WriteFile` leaves truncated: such a directory is a state of
  `Output`, but `PublishedLogIsReadable` promises nothing until the next
  checkpoint (`torn`), since the code does not either.
* The choice of a draft by `verify`. Its comment says that there was no CA format
  prior to plants-04 (`verify.go:244`), while the test below it,
  `version <= VersionPlants04`, refuses plants-04 too, for which `generate` does
  write a CA certificate. `Policy` begins after that test; so `DueIsAccepted` and
  `AcceptedIsDue`, and what else is said of a run of `verify`, are about plants-05
  and later. No run shows this disagreement.

## 6. Plan

Done: every component of the table in section 1 but the command line, and the
proofs above. What is left, in order of worth:

1. Theorems for the two properties of `encoding` about parsers of other versions.
2. `Generate` composed with a relying party whose trusted subtrees are the
   printed ones: landmark certificates are accepted without cosignatures.
