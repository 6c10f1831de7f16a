--------------------------- MODULE MCPgPipeline ---------------------------
(***************************************************************************)
(* Instances of PgPipeline for TLC.                                        *)
(***************************************************************************)
EXTENDS PgPipeline

\* Two changes, an empty transaction (of an unpublished table), one change.
MCTxnEnd ==
    [t \in 0..MaxTxns |-> CASE t = 0 -> 0 [] t = 1 -> 3 [] t = 2 -> 4 [] OTHER -> 2 * t]
AllOfSizeOne == [t \in 0..MaxTxns |-> 2 * t]

\* Positions close together, far below the next boundary of the halves.
CloseLsn == [t \in Txns |-> 20 + 2 * t]
\* A commit record ends where the next position begins; records are aligned to
\* 8 bytes.
CommitBefore == [t \in Txns |-> TxnLsn[t] - 1]
AlignedCommit == [t \in Txns |-> 80 + 24 * t]
AlignedEnd == [t \in Txns |-> 96 + 24 * t]
MCEpochs == {0} \cup {TxnEpoch(t) : t \in Txns}
=============================================================================
