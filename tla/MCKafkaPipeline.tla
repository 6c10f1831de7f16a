-------------------------- MODULE MCKafkaPipeline --------------------------
(***************************************************************************)
(* Instances of KafkaPipeline for TLC.                                     *)
(***************************************************************************)
EXTENDS KafkaPipeline

CONSTANTS p1, p2

MCOffsets == 0..(MaxOffset - 1)

\* The second message of p1 is a dead letter.
MCMalformed == {<<p1, 1>>}

\* No deletes; the first message of p2 deletes the row of the first of p1; every
\* message updates the row of its counterpart in the other partition, so that
\* the two together leave nothing behind.
NoRemoval == [m \in {} |-> m]
RemovalAcross == [m \in {<<p2, 0>>} |-> <<p1, 0>>]
Across(m) == <<IF m[1] = p1 THEN p2 ELSE p1, m[2]>>
UpdateAndBack == [m \in Msgs |-> Across(m)]
MCUpdates == Msgs
=============================================================================
