------------------------- MODULE CheckpointManager -------------------------
(***************************************************************************)
(* The checkpoint directory of one pipeline and the CheckpointManager that *)
(* works on it (crates/runtime/src/checkpoint.rs), with the file search of *)
(* crates/formats/parquet/src/lib.rs.                                      *)
(*                                                                         *)
(* The directory holds checkpoint_epoch_<e>.parquet and                    *)
(* checkpoint_epoch_<e>.parquet.tmp files; the epoch is both the name and  *)
(* what a reader gets back, so a file is an entry of one of two functions  *)
(* from epochs to contents.  The manager's only state in memory is         *)
(* lastEpoch.  The operators below are the manager's methods: each is one  *)
(* piece of the actions of the pipelines that own a directory              *)
(* (KafkaPipeline, PgPipeline), which decide when they are called.         *)
(***************************************************************************)
EXTENDS Integers

CONSTANTS
    Epochs,     \* the epochs a checkpoint of this run can carry
    NoFile,     \* the content of a file that does not exist
    Torn        \* the content of a file whose write did not finish

ASSUME EpochsAssumption == Epochs \subseteq Nat

VARIABLES
    final,      \* final[e]: content of checkpoint_epoch_<e>.parquet
    tmp,        \* tmp[e]: content of checkpoint_epoch_<e>.parquet.tmp
    lastEpoch   \* last_epoch of the CheckpointManager in memory

dirVars == <<final, tmp>>

EmptyDir == [e \in Epochs |-> NoFile]

(***************************************************************************)
(* latest_checkpoint: the file with the greatest epoch in its name; the    *)
(* suffix .parquet excludes the .tmp files.                                *)
(***************************************************************************)
Saved == {e \in Epochs : final[e] # NoFile}

OldestEpoch == CHOOSE e \in Saved : \A f \in Saved : e <= f
LatestEpoch == CHOOSE e \in Saved : \A f \in Saved : f <= e

\* What a restart would read: NoFile, Torn or the content of the newest file.
Durable == IF Saved = {} THEN NoFile ELSE final[LatestEpoch]

(***************************************************************************)
(* should_checkpoint.  The subtraction saturates at 0: with interval > 0   *)
(* an epoch below lastEpoch never qualifies.                               *)
(***************************************************************************)
ShouldCheckpoint(epoch, interval) ==
    /\ interval > 0
    /\ epoch >= lastEpoch + interval

\* cleanup_uncommitted, when every removal succeeds.
KeepTmpFiles == UNCHANGED <<final, tmp>>
CleanupUncommitted ==
    /\ tmp' = EmptyDir
    /\ UNCHANGED final

\* It returns at the first entry it cannot read or remove: the .tmp files it
\* has not come to are kept.
CleanupInterrupted ==
    /\ \E kept \in SUBSET Epochs :
            tmp' = [e \in Epochs |-> IF e \in kept THEN tmp[e] ELSE NoFile]
    /\ UNCHANGED final

\* restore reads the newest file: the epoch it finds becomes lastEpoch.
RestoreLatest ==
    /\ Saved # {}
    /\ final[LatestEpoch] # Torn
    /\ lastEpoch' = LatestEpoch
    /\ UNCHANGED dirVars

\* restore finds a file it cannot parse: an error, and nothing changes.
RestoreUnreadable ==
    /\ Saved # {}
    /\ final[LatestEpoch] = Torn
    /\ UNCHANGED <<dirVars, lastEpoch>>

\* restore fails on the directory or the file; last_epoch is set before the
\* connector state is read from the same file.
RestoreInterrupted ==
    /\ \/ UNCHANGED lastEpoch
       \/ Saved # {} /\ final[LatestEpoch] # Torn /\ lastEpoch' = LatestEpoch
    /\ UNCHANGED dirVars

\* restore finds no file: Ok(None), and nothing changes.
RestoreNothing ==
    /\ Saved = {}
    /\ UNCHANGED <<dirVars, lastEpoch>>

(***************************************************************************)
(* save writes the final name in place: a crash or an error while it       *)
(* writes leaves a torn file under the name latest_checkpoint looks for.   *)
(***************************************************************************)
Save(content, e) ==
    /\ final' = [final EXCEPT ![e] = content]
    /\ lastEpoch' = e
    /\ UNCHANGED tmp

SaveInterrupted(e) ==
    /\ final' = [final EXCEPT ![e] = Torn]
    /\ UNCHANGED <<tmp, lastEpoch>>

\* save_tmp: phase 1, lastEpoch is not updated.  A .tmp file of the same name
\* is truncated and rewritten.
SaveInPlace(content, e) ==
    /\ final' = [final EXCEPT ![e] = content]
    /\ tmp' = [tmp EXCEPT ![e] = content]
    /\ UNCHANGED lastEpoch
SaveTmp(content, e) ==
    /\ tmp' = [tmp EXCEPT ![e] = content]
    /\ UNCHANGED <<final, lastEpoch>>

SaveTmpInterruptedInPlace(e) ==
    /\ final' = [final EXCEPT ![e] = Torn]
    /\ UNCHANGED <<tmp, lastEpoch>>
SaveTmpInterrupted(e) ==
    /\ tmp' = [tmp EXCEPT ![e] = Torn]
    /\ UNCHANGED <<final, lastEpoch>>

\* confirm: phase 2, the rename replaces a final file of the same name.
Confirm(e) ==
    /\ tmp[e] # NoFile
    /\ final' = [final EXCEPT ![e] = tmp[e]]
    /\ tmp' = [tmp EXCEPT ![e] = NoFile]
    /\ lastEpoch' = e
=============================================================================
