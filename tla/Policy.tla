------------------------------- MODULE Policy -------------------------------
(***************************************************************************)
(* The relying party's policy (demo/policy.go) as `verify` builds it: the  *)
(* CA certificates first, then the lines of the policy file, then nothing  *)
(* changes any more.  The first error ends the program.                    *)
(*                                                                         *)
(* A name is resolved once, when the line that uses it is read; what the   *)
(* policy keeps is an index into the cosigners or the groups.  Sequences   *)
(* start at 1 here and at 0 in the code.                                   *)
(***************************************************************************)
EXTENDS Certificates

CONSTANTS
    Name,               \* what a policy file can call a cosigner or a group
    CACertificates,     \* the CA certificates that may be loaded
    GroupLines,         \* the arguments of the group command
    RevokeLines,        \* the arguments of the revoke-range command
    SubtreeLines,       \* the arguments of the trusted-subtree command
    MaxRequirements,    \* bound: require-cosigners commands per list
    MaxRevocations,     \* bound: revoked ranges per CA
    MaxTrusted          \* bound: trusted subtrees per CA

ASSUME NameAssumption == ID \subseteq Name

ASSUME PolicyInputAssumption ==
    /\ CACertificates \subseteq [id : ID, minSerial : Serial,
                                 maxSerial : Serial, wellFormed : BOOLEAN]
    /\ GroupLines \subseteq [name : Name, number : Int, members : Seq(Name)]
    /\ RevokeLines \subseteq [ca : ID, min : Seq(Nat), max : Seq(Nat)]
    /\ SubtreeLines \subseteq [ca : ID, log : LogNumber, start : Index,
                               end : Index, hash : Hash]

VARIABLES
    phase,                  \* how far `verify` is
    names,                  \* Policy.Names
    cosigners,              \* Policy.Cosigners
    groups,                 \* Policy.Groups
    requirementsForAllCAs,  \* Policy.RequirementsForAllCAs
    cas                     \* Policy.CAs

tables == <<names, cosigners, groups, requirementsForAllCAs, cas>>
policyVars == <<phase, names, cosigners, groups, requirementsForAllCAs, cas>>

PolicyIndex == [isGroup : BOOLEAN, index : Nat \ {0}]

PolicyGroup == [name : Name, number : Nat \ {0}, members : Seq(PolicyIndex)]

RevokedRange == [min : Nat, max : Nat]

TrustedSubtree == [log : LogNumber, start : Index, end : Index, hash : Hash]

TrustedCA == [cosignerIndex : Nat \ {0}, requirements : Seq(PolicyIndex),
              revokedRanges : Seq(RevokedRange),
              trustedSubtrees : Seq(TrustedSubtree)]

\* Assignment to a key of a map.
Put(f, k, v) == [x \in DOMAIN f \cup {k} |-> IF x = k THEN v ELSE f[x]]

-----------------------------------------------------------------------------

Init ==
    /\ phase = "caCerts"
    /\ names = <<>> /\ cas = <<>>
    /\ cosigners = <<>> /\ groups = <<>> /\ requirementsForAllCAs = <<>>

\* The command returns an error, and `verify` with it.
Abort == phase' = "failed" /\ UNCHANGED tables

\* Policy.AddCosigner when it succeeds.
RegisterCosigner(id) ==
    /\ cosigners' = Append(cosigners, id)
    /\ names' = Put(names, id, [isGroup |-> FALSE, index |-> Len(cosigners')])

\* The ranges an AddCA revokes, those outside minSerial..maxSerial.
OutsideRanges(ca) ==
    LET below == <<[min |-> 0, max |-> ca.minSerial - 1]>>
        above == <<[min |-> ca.maxSerial + 1, max |-> MaxSerial]>>
    IN  (IF ca.minSerial > 0 THEN below ELSE <<>>)
        \o (IF ca.maxSerial < MaxSerial THEN above ELSE <<>>)

NewCA(ca, cosignerIndex) ==
    [cosignerIndex |-> cosignerIndex, requirements |-> <<>>,
     revokedRanges |-> OutsideRanges(ca), trustedSubtrees |-> <<>>]

\* Mutant: the index is taken before the cosigner is added.
AddCAIndexFirst(ca) ==
    /\ phase = "caCerts"
    /\ \/ /\ ca.wellFormed
          /\ ca.id \notin DOMAIN cas /\ ca.id \notin DOMAIN names
          /\ RegisterCosigner(ca.id)
          /\ cas' = Put(cas, ca.id, NewCA(ca, Len(cosigners)))
          /\ UNCHANGED <<phase, groups, requirementsForAllCAs>>
       \/ /\ ~ca.wellFormed \/ ca.id \in DOMAIN cas \/ ca.id \in DOMAIN names
          /\ Abort

AddCA(ca) ==
    /\ phase = "caCerts"
    /\ \/ /\ ca.wellFormed
          /\ ca.id \notin DOMAIN cas /\ ca.id \notin DOMAIN names
          /\ RegisterCosigner(ca.id)
          /\ cas' = Put(cas, ca.id, NewCA(ca, Len(cosigners')))
          /\ UNCHANGED <<phase, groups, requirementsForAllCAs>>
       \/ /\ ~ca.wellFormed \/ ca.id \in DOMAIN cas \/ ca.id \in DOMAIN names
          /\ Abort

CACertsLoaded == phase = "caCerts" /\ phase' = "policyFile" /\ UNCHANGED tables

AddCosigner(id, wellFormed) ==
    /\ phase = "policyFile"
    /\ \/ /\ wellFormed /\ id \notin DOMAIN names
          /\ RegisterCosigner(id)
          /\ UNCHANGED <<phase, groups, requirementsForAllCAs, cas>>
       \/ /\ ~wellFormed \/ id \in DOMAIN names
          /\ Abort

\* Mutant: NUMBER is only bounded from above.
GroupLineOKAnyNumber(line) ==
    /\ line.number <= Len(line.members)
    /\ line.name \notin DOMAIN names
    /\ \A i \in DOMAIN line.members : line.members[i] \in DOMAIN names

\* The checks on NUMBER when the line is parsed, and those of AddGroup.
GroupLineOK(line) ==
    /\ 0 < line.number /\ line.number <= Len(line.members)
    /\ line.name \notin DOMAIN names
    /\ \A i \in DOMAIN line.members : line.members[i] \in DOMAIN names

GroupOf(line) ==
    [name |-> line.name, number |-> line.number,
     members |-> [i \in 1 .. Len(line.members) |-> names[line.members[i]]]]

\* Mutant: the name is registered before the members are looked up.
AddGroupNameFirst(line) ==
    /\ phase = "policyFile"
    /\ names' = Put(names, line.name, [isGroup |-> TRUE, index |-> Len(groups) + 1])
    /\ line.name \notin DOMAIN names /\ line.number \in 1 .. Len(line.members)
    /\ \A i \in DOMAIN line.members : line.members[i] \in DOMAIN names'
    /\ groups' = Append(groups,
          [name |-> line.name, number |-> line.number,
           members |-> [i \in 1 .. Len(line.members) |-> names'[line.members[i]]]])
    /\ UNCHANGED <<phase, cosigners, requirementsForAllCAs, cas>>

AddGroup(line) ==
    /\ phase = "policyFile"
    /\ \/ /\ GroupLineOK(line)
          /\ groups' = Append(groups, GroupOf(line))
          /\ names' = Put(names, line.name,
                          [isGroup |-> TRUE, index |-> Len(groups')])
          /\ UNCHANGED <<phase, cosigners, requirementsForAllCAs, cas>>
       \/ ~GroupLineOK(line) /\ Abort

RequireCosignersForCA(ca, n) ==
    /\ phase = "policyFile"
    /\ \/ /\ n \in DOMAIN names /\ ca \in DOMAIN cas
          /\ Len(cas[ca].requirements) < MaxRequirements
          /\ cas' = [cas EXCEPT ![ca].requirements = Append(@, names[n])]
          /\ UNCHANGED <<phase, names, cosigners, groups, requirementsForAllCAs>>
       \/ (n \notin DOMAIN names \/ ca \notin DOMAIN cas) /\ Abort

RequireCosignersForAllCAs(n) ==
    /\ phase = "policyFile"
    /\ \/ /\ n \in DOMAIN names
          /\ Len(requirementsForAllCAs) < MaxRequirements
          /\ requirementsForAllCAs' = Append(requirementsForAllCAs, names[n])
          /\ UNCHANGED <<phase, names, cosigners, groups, cas>>
       \/ n \notin DOMAIN names /\ Abort

RevokeLineOK(line) ==
    /\ SerialParses(line.min) /\ SerialParses(line.max)
    /\ parseSerial(line.min) <= parseSerial(line.max)
    /\ line.ca \in DOMAIN cas

RevokeRange(line) ==
    /\ phase = "policyFile"
    /\ \/ /\ RevokeLineOK(line)
          /\ Len(cas[line.ca].revokedRanges) < MaxRevocations
          /\ cas' = [cas EXCEPT ![line.ca].revokedRanges =
                       Append(@, [min |-> parseSerial(line.min),
                                  max |-> parseSerial(line.max)])]
          /\ UNCHANGED <<phase, names, cosigners, groups, requirementsForAllCAs>>
       \/ ~RevokeLineOK(line) /\ Abort

SubtreeLineOK(line) == IsValidSubtree(line.start, line.end) /\ line.ca \in DOMAIN cas

AddTrustedSubtree(line) ==
    /\ phase = "policyFile"
    /\ \/ /\ SubtreeLineOK(line)
          /\ Len(cas[line.ca].trustedSubtrees) < MaxTrusted
          /\ cas' = [cas EXCEPT ![line.ca].trustedSubtrees =
                       Append(@, [log |-> line.log, start |-> line.start,
                                  end |-> line.end, hash |-> line.hash])]
          /\ UNCHANGED <<phase, names, cosigners, groups, requirementsForAllCAs>>
       \/ ~SubtreeLineOK(line) /\ Abort

PolicyFileRead == phase = "policyFile" /\ phase' = "ready" /\ UNCHANGED tables

PolicyNext ==
    \/ \E ca \in CACertificates : AddCA(ca)
    \/ CACertsLoaded
    \/ \E id \in ID, wellFormed \in BOOLEAN : AddCosigner(id, wellFormed)
    \/ \E line \in GroupLines : AddGroup(line)
    \/ \E ca \in ID, n \in Name : RequireCosignersForCA(ca, n)
    \/ \E n \in Name : RequireCosignersForAllCAs(n)
    \/ \E line \in RevokeLines : RevokeRange(line)
    \/ \E line \in SubtreeLines : AddTrustedSubtree(line)
    \/ PolicyFileRead

PolicySpec == Init /\ [][PolicyNext]_policyVars

-----------------------------------------------------------------------------

PolicyTypeOK ==
    /\ phase \in {"caCerts", "policyFile", "ready", "passed", "failed"}
    /\ DOMAIN names \subseteq Name
    /\ names \in [DOMAIN names -> PolicyIndex]
    /\ cosigners \in Seq(ID)
    /\ groups \in Seq(PolicyGroup)
    /\ requirementsForAllCAs \in Seq(PolicyIndex)
    /\ DOMAIN cas \subseteq ID
    /\ cas \in [DOMAIN cas -> TrustedCA]

\* Policy.NameForIndex: the name an index was resolved from.
NameForIndex(idx) ==
    IF idx.isGroup THEN groups[idx.index].name ELSE cosigners[idx.index]

InTables(idx) ==
    idx.index <= (IF idx.isGroup THEN Len(groups) ELSE Len(cosigners))

(****************************************************************************)
(* Every index the policy keeps was taken from the tables as they were      *)
(* when a line was read, and is used after they have grown.  It still       *)
(* resolves to the name it was read from: names maps each name to the entry *)
(* that carries it and every entry has its name, a CA's cosigner index      *)
(* leads to the CA's own key, the requirements lie in the tables, and the   *)
(* members of a group precede it.                                           *)
(* (policy.go:204, 233, 244-258)                                            *)
(****************************************************************************)
NamesResolve ==
    \A n \in DOMAIN names : InTables(names[n]) /\ NameForIndex(names[n]) = n

EntriesAreNamed ==
    /\ \A k \in DOMAIN cosigners :
          /\ cosigners[k] \in DOMAIN names
          /\ names[cosigners[k]] = [isGroup |-> FALSE, index |-> k]
    /\ \A k \in DOMAIN groups :
          /\ groups[k].name \in DOMAIN names
          /\ names[groups[k].name] = [isGroup |-> TRUE, index |-> k]

CACosignersResolve ==
    \A ca \in DOMAIN cas :
        /\ cas[ca].cosignerIndex \in DOMAIN cosigners
        /\ cosigners[cas[ca].cosignerIndex] = ca

RequirementsResolve ==
    /\ \A i \in DOMAIN requirementsForAllCAs : InTables(requirementsForAllCAs[i])
    /\ \A ca \in DOMAIN cas : \A i \in DOMAIN cas[ca].requirements :
          InTables(cas[ca].requirements[i])

GroupsAreOrdered ==
    \A g \in DOMAIN groups : \A i \in DOMAIN groups[g].members :
        LET m == groups[g].members[i]
        IN  IF m.isGroup THEN m.index < g ELSE m.index <= Len(cosigners)

IndexesResolve ==
    /\ NamesResolve /\ EntriesAreNamed
    /\ CACosignersResolve /\ RequirementsResolve /\ GroupsAreOrdered
=============================================================================
