------------------------------ MODULE MCOutput ------------------------------
(***************************************************************************)
(* Three runs into one directory, with tiles of four hashes and numbers in *)
(* base two, so that 17 entries make five tiles, three levels of tiles and *)
(* names three directories deep.                                           *)
(***************************************************************************)
EXTENDS Output

Log(n) == [i \in 1..n |-> i]

\* Another log of the same size.
OtherLog(n) == [i \in 1..n |-> IF i = n THEN 0 ELSE i]

MCConfigs ==
    {[entries |-> Log(n), certs |-> <<>>] : n \in {0, 3, 4, 17}}
    \cup {[entries |-> Log(6), certs |-> <<1, 4>>], [entries |-> OtherLog(6), certs |-> <<5>>]}
=============================================================================
