------------------------------- MODULE Quorums -------------------------------
(***************************************************************************)
(* What a policy file's groups mean, by name: a group is satisfied when at *)
(* least `number` of its members are.  The code computes this by index, in *)
(* one pass over the groups (policy.go:332).                               *)
(***************************************************************************)
EXTENDS Integers, FiniteSets, Sequences

\* The positions of the members of group g that lie in X.
MembersIn(g, X) == {i \in DOMAIN g.members : g.members[i] \in X}

\* X is the set of names satisfied when the cosigners `signers` have signed:
\* exactly those cosigners, and the groups that reach their number within X.
IsMeaning(X, signers, groupDefs) ==
    \A n \in X \cup signers \cup {g.name : g \in groupDefs} :
        n \in X <=> \/ n \in signers
                    \/ \E g \in groupDefs :
                          g.name = n /\ Cardinality(MembersIn(g, X)) >= g.number
=============================================================================
