---------------------- MODULE CheckpointManagerProofs ----------------------
(***************************************************************************)
(* What the pipelines' proofs use of a checkpoint directory: which file    *)
(* latest_checkpoint finds, and how a write under a final name changes     *)
(* what a restart would read.                                              *)
(***************************************************************************)
EXTENDS CheckpointManager, TLAPS

\* The checkpoint files have a newest one, so latest_checkpoint finds it.
HasLatest == Saved # {} => \E e \in Saved : \A f \in Saved : f <= e

LEMMA LatestIsSaved ==
    ASSUME HasLatest, Saved # {}
    PROVE  LatestEpoch \in Saved /\ \A f \in Saved : f <= LatestEpoch
    BY DEF HasLatest, LatestEpoch

\* A restart reads the same file as long as no final name is written.
LEMMA SameCopy ==
    ASSUME final' = final
    PROVE  /\ Saved' = Saved /\ LatestEpoch' = LatestEpoch
           /\ Durable' = Durable
           /\ HasLatest => HasLatest'
    BY DEF Saved, LatestEpoch, Durable, HasLatest

LEMMA WrittenIsSaved ==
    ASSUME NEW e \in Epochs, NEW content, content # NoFile,
           NEW Contents, final \in [Epochs -> Contents],
           final' = [final EXCEPT ![e] = content]
    PROVE  Saved' = Saved \cup {e} /\ final'[e] = content
    BY DEF Saved

LEMMA WrittenHasLatest ==
    ASSUME HasLatest, NEW e \in Epochs, Saved' = Saved \cup {e}
    PROVE  HasLatest'
<1>1. Saved \subseteq Int /\ e \in Int
    BY EpochsAssumption DEF Saved
<1>2. CASE Saved = {}
    BY <1>1, <1>2 DEF HasLatest
<1>3. CASE Saved # {}
  <2> PICK f \in Saved : \A g \in Saved : g <= f
    BY <1>3 DEF HasLatest
  <2>1. CASE e <= f
    BY <2>1 DEF HasLatest
  <2>2. CASE f <= e
    BY <1>1, <2>2 DEF HasLatest
  <2> QED
    BY <1>1, <2>1, <2>2
<1> QED
    BY <1>2, <1>3

\* A file written under a final name is what a restart reads, unless a newer
\* one was there: then that is read as before.
THEOREM WrittenCopy ==
    ASSUME HasLatest, NEW e \in Epochs, NEW content, content # NoFile,
           NEW Contents, final \in [Epochs -> Contents],
           final' = [final EXCEPT ![e] = content]
    PROVE  /\ HasLatest' /\ Saved' # {}
           /\ \/ LatestEpoch' = e /\ Durable' = content
              \/ Saved # {} /\ e < LatestEpoch /\ Durable' = Durable
<1>1. Saved' = Saved \cup {e} /\ final'[e] = content
    BY WrittenIsSaved
<1>2. HasLatest' /\ Saved' # {}
    BY <1>1, WrittenHasLatest
<1>3. LatestEpoch' \in Saved' /\ \A f \in Saved' : f <= LatestEpoch'
    BY <1>2 DEF HasLatest, LatestEpoch
<1>4. CASE LatestEpoch' = e
    BY <1>1, <1>2, <1>4 DEF Durable
<1>5. CASE LatestEpoch' # e
  <2>1. /\ LatestEpoch' \in Saved /\ e <= LatestEpoch'
        /\ \A f \in Saved : f <= LatestEpoch'
    BY <1>1, <1>3, <1>5
  <2>2. LatestEpoch \in Saved /\ \A f \in Saved : f <= LatestEpoch
    BY <2>1, LatestIsSaved
  <2>3. LatestEpoch = LatestEpoch' /\ e < LatestEpoch
    BY <1>5, <2>1, <2>2, EpochsAssumption DEF Saved
  <2> QED
    BY <1>1, <1>2, <1>5, <2>1, <2>3 DEF Durable, Saved
<1> QED
    BY <1>2, <1>4, <1>5
=============================================================================
