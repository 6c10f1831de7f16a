-------------------------------- MODULE ZSet --------------------------------
(***************************************************************************)
(* Z-sets, the data every part of the engine exchanges                     *)
(* (crates/core/src/lib.rs): finite maps from rows to non-zero weights.    *)
(* The order of an IndexMap is left out: the operators that iterate over   *)
(* one are defined for any order (module Operators).                       *)
(***************************************************************************)
EXTENDS Integers, FiniteSetsExt

Empty == [r \in {} |-> 0]

Weight(z, r) == IF r \in DOMAIN z THEN z[r] ELSE 0

\* A row whose weight is 0 is not stored.
Canonical(z) == \A r \in DOMAIN z : z[r] \in Int \ {0}

InsertKeepsZero(z, row, weight) ==
    [r \in DOMAIN z \cup {row} |->
        IF r = row THEN Weight(z, r) + weight ELSE z[r]]
Insert(z, row, weight) ==
    LET w == Weight(z, row) + weight IN
    IF w = 0
       THEN [r \in DOMAIN z \ {row} |-> z[r]]
       ELSE [r \in DOMAIN z \cup {row} |-> IF r = row THEN w ELSE z[r]]

\* merge inserts the rows of the other Z-set one after the other.
Merge(z, other) ==
    FoldSet(LAMBDA row, out : Insert(out, row, other[row]), z, DOMAIN other)

\* The sum of f over the members of S.
SumOver(f, S) == MapThenSumSet(LAMBDA x : f[x], S)
=============================================================================
