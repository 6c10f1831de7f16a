------------------------ MODULE KafkaPipelineProofs ------------------------
(***************************************************************************)
(* Theorems about KafkaPipeline, for any number of partitions and messages *)
(* and any parameters of the loop and the checkpoints.                     *)
(***************************************************************************)
EXTENDS KafkaPipeline, CheckpointManagerProofs, FiniteSetTheorems

(***************************************************************************)
(* Type correctness.  It is not inductive by itself: confirm renames a     *)
(* .tmp file, and .tmp files may be torn.  The file that is about to be    *)
(* renamed is the one save_tmp has just completed, and holds the view.     *)
(***************************************************************************)
SavedView == pc \in {"commit", "confirm"} => tmp[epoch] = acc

TypeInv == TypeOK /\ SavedView /\ HasLatest

\* What a restart can read is a view that was saved completely.
LEMMA LatestIsView ==
    ASSUME TypeInv, Saved # {}
    PROVE  LatestEpoch \in Epochs /\ final[LatestEpoch] \in Views
    BY LatestIsSaved DEF TypeInv, TypeOK, Saved

LEMMA PlusType ==
    ASSUME NEW v \in Views, NEW S
    PROVE  Plus(v, S) \in Views
    BY DEF Views, Plus

LEMMA ZeroType == Zero \in Views
    BY DEF Zero, Views

LEMMA StartOffsets ==
    NoOffsets \in [Partitions -> 0..MaxOffset] /\ 0 \in Epochs
<1>1. 0 \in 0..MaxOffset /\ 0 \in 0..(MaxOffset - 1)
    BY KafkaAssumption
<1> QED
    BY <1>1, KafkaAssumption DEF NoOffsets, Offsets

\* The .tmp file that is renamed holds the view.
LEMMA RenamedFile ==
    ASSUME TypeInv, pc = "confirm", Confirm(epoch)
    PROVE  /\ HasLatest' /\ Saved' # {}
           /\ \/ LatestEpoch' = epoch /\ Durable' = acc
              \/ Saved # {} /\ epoch < LatestEpoch /\ Durable' = Durable
<1>1. /\ HasLatest /\ epoch \in Epochs /\ acc # NoFile
      /\ final \in [Epochs -> Views \cup {NoFile}]
      /\ final' = [final EXCEPT ![epoch] = acc]
    BY FilesAssumption DEF TypeInv, TypeOK, SavedView, Confirm
<1> QED
    BY <1>1, WrittenCopy

LEMMA TypeInit == Init => TypeInv
<1> SUFFICES ASSUME Init PROVE TypeInv
    OBVIOUS
<1> USE KafkaAssumption, FilesAssumption
<1>1. TypeOK
    BY ZeroType, StartOffsets DEF Init, TypeOK, PCs, EmptyDir
<1>2. SavedView /\ HasLatest
    BY DEF Init, SavedView, HasLatest, Saved, EmptyDir
<1> QED
    BY <1>1, <1>2 DEF TypeInv

LEMMA TypeNext == TypeInv /\ [Next]_vars => TypeInv'
<1> SUFFICES ASSUME TypeInv, [Next]_vars PROVE TypeInv'
    OBVIOUS
<1> USE KafkaAssumption, FilesAssumption
        DEF TypeInv, TypeOK, SavedView, PCs, brokerVars, consumerVars,
            batchVars, dirVars
\* A step that leaves the files alone cannot disturb HasLatest.
<1>a. final' = final => HasLatest'
    BY DEF HasLatest, Saved
<1>b. ASSUME EndTask
      PROVE  /\ pc' \in PCs /\ SavedView'
             /\ joined' \in BOOLEAN /\ halted' \in BOOLEAN /\ paused' \in BOOLEAN
             /\ position' \in [Partitions -> 0..MaxOffset]
             /\ delta' \in SUBSET WellFormed /\ epoch' \in Epochs
    BY <1>b, StartOffsets DEF EndTask
<1>c. ASSUME NEW kind, Fault(kind) PROVE faults' \in Nat
    BY <1>c DEF Fault
<1>1. ASSUME NEW p \in Partitions, Produce(p) PROVE TypeInv'
    BY <1>1, <1>a DEF Produce
<1>2. CASE Join
    BY <1>2, <1>a DEF Join
<1>3. CASE Start
    BY <1>3, <1>a DEF Start
<1>4. CASE Stop
    BY <1>4, <1>a, <1>c DEF Stop
<1>5. CASE Cleanup
    BY <1>5, <1>a DEF Cleanup, CleanupUncommitted, EmptyDir
<1>6. CASE Restore
    BY <1>6, <1>a, LatestIsView
       DEF Restore, RestoreLatest, RestoreNothing
<1>7. CASE Connect
    BY <1>7, <1>a DEF Connect
<1>8. CASE LoopEnds
    BY <1>8, <1>a, <1>b DEF LoopEnds
<1>9. CASE Backpressure
    BY <1>9, <1>a, <1>c
       DEF Backpressure, PauseRequest, PauseFails, ResumeRequest, ResumeFails,
           NoRequest
<1>10. CASE PollMessages
  <2> PICK pos \in [Partitions -> 0..MaxOffset], q \in Partitions :
        LET S == Between(pos) \cap WellFormed IN
        /\ Polled(pos, q)
        /\ position' = pos
        /\ \/ delta' = S /\ epoch' = pos[q] - 1 /\ pc' = "apply" /\ acc' = acc
           \/ acc' = Plus(acc, S) /\ pc' = "loop" /\ UNCHANGED batchVars
    BY <1>10 DEF PollMessages
  <2>1. pos[q] - 1 \in Epochs
    BY DEF Polled, Offsets
  <2>2. acc' \in Views
    BY PlusType
  <2> QED
    BY <1>10, <1>a, <2>1, <2>2 DEF PollMessages
<1>11. CASE PollNothing
    BY <1>11, <1>a DEF PollNothing
<1>12. CASE PollFails
    BY <1>12, <1>a, <1>c DEF PollFails
<1>13. CASE Apply
  <2>1. acc' \in Views
    BY <1>13, PlusType DEF Apply
  <2> QED
    BY <1>13, <1>a, <2>1 DEF Apply, Offsets
<1>14. CASE SavePhase
    BY <1>14, <1>a DEF SavePhase, SaveTmp
<1>15. CASE SaveFails
    BY <1>15, <1>a, <1>b, <1>c DEF SaveFails, SaveTmpInterrupted
<1>16. CASE CommitPhase
    BY <1>16, <1>a DEF CommitPhase
<1>17. CASE CommitFails
    BY <1>17, <1>a, <1>b, <1>c DEF CommitFails
<1>18. CASE ConfirmPhase
  <2>1. HasLatest'
    BY <1>18, RenamedFile DEF ConfirmPhase
  <2>2. final' \in [Epochs -> Views \cup {NoFile}]
    BY <1>18 DEF ConfirmPhase, Confirm
  <2> QED
    BY <1>18, <2>1, <2>2 DEF ConfirmPhase, Confirm, Offsets
<1>19. CASE ConfirmFails
    BY <1>19, <1>a, <1>b, <1>c DEF ConfirmFails
<1>20. CASE ConnectFails
    BY <1>20, <1>a, <1>b, <1>c DEF ConnectFails
<1>21. CASE Crash
  <2>1. faults' \in Nat /\ acc' \in Views /\ lastEpoch' \in Epochs
    BY <1>21, <1>c, ZeroType DEF Crash, Offsets
  <2>2. tmp' \in [Epochs -> Views \cup {NoFile, Torn}]
    BY <1>21 DEF Crash
  <2> QED
    BY <1>21, <1>a, <1>b, <2>1, <2>2 DEF Crash
<1>22. CASE UNCHANGED vars
    BY <1>22, <1>a DEF vars
<1>23. CASE Revoke
    BY <1>23, <1>a, <1>c, StartOffsets DEF Revoke
<1>24. CASE CleanupFails
  <2>1. tmp' \in [Epochs -> Views \cup {NoFile, Torn}]
    BY <1>24 DEF CleanupFails, CleanupInterrupted
  <2> QED
    BY <1>24, <1>a, <1>b, <1>c, <2>1 DEF CleanupFails, CleanupInterrupted
<1>25. CASE RestoreFails
  <2>1. lastEpoch' \in Epochs
    BY <1>25, LatestIsView DEF RestoreFails, RestoreInterrupted
  <2> QED
    BY <1>25, <1>a, <1>b, <1>c, <2>1 DEF RestoreFails, RestoreInterrupted
<1> QED
    BY <1>1, <1>2, <1>3, <1>4, <1>5, <1>6, <1>7, <1>8, <1>9, <1>10, <1>11,
       <1>12, <1>13, <1>14, <1>15, <1>16, <1>17, <1>18, <1>19, <1>20, <1>21,
       <1>22, <1>23, <1>24, <1>25
       DEF Next, Task, Failure

LEMMA TypeInvariant == Spec => []TypeInv
    BY TypeInit, TypeNext, PTL DEF Spec

\* Every reachable state is well typed; in particular no file under a final
\* name is ever torn, whichever steps fail and wherever the process dies.
THEOREM TypeCorrect == Spec => []TypeOK
<1>1. TypeInv => TypeOK
    BY DEF TypeInv
<1> QED
    BY <1>1, TypeInvariant, PTL

-----------------------------------------------------------------------------
(***************************************************************************)
(* Replays and checkpoints when no pipeline is stopped and started within  *)
(* one process, and its consumer keeps the partitions it was assigned: a   *)
(* view that lives on while the consumer goes back to the committed offset *)
(* counts what was not committed again.  The invariant follows a message   *)
(* from the broker to the disk: the view holds what lies behind the        *)
(* consumer, the consumer is not behind the committed offsets, and at the  *)
(* rename both offsets agree, so the file that is promoted lies behind the *)
(* commit.  A batch in flight is new to the view, because it was read at   *)
(* or beyond the position the view lies behind.                            *)
(***************************************************************************)
NoReplay == {"stop", "rebalance"} \cap Faults = {}

Below(view, offsets) == \A m \in Msgs : view[m] # 0 => m[2] < offsets[m[1]]

\* A task starts in a fresh process, and is assigned partitions in its loop.
FreshStart ==
    /\ ~running => pc = "idle" /\ acc = Zero
    /\ pc \in {"cleanup", "restore"} => acc = Zero
    /\ joined => pc \notin {"idle", "cleanup", "restore", "connect"}
    /\ pc \in {"apply", "save", "commit", "confirm"} => joined

ViewBehindConsumer ==
    /\ pc # "idle" /\ ~joined => Below(acc, committed)
    /\ joined => Below(acc, position)

CommitBehindConsumer ==
    /\ joined => \A p \in Partitions : committed[p] <= position[p]
    /\ pc = "confirm" => committed = position

BatchIsNew ==
    pc = "apply" => \A m \in delta : acc[m] = 0 /\ m[2] < position[m[1]]

FilesOnce ==
    \A e \in Epochs, m \in Msgs : final[e] # NoFile => final[e][m] <= 1

ReplayInv ==
    /\ TypeInv
    /\ FreshStart /\ ViewBehindConsumer /\ CommitBehindConsumer /\ BatchIsNew
    /\ CheckpointBehindCommit
    /\ AtMostOnce /\ FilesOnce

LEMMA ZeroBelow == ASSUME NEW offsets PROVE Below(Zero, offsets)
    BY DEF Below, Zero

\* Committing moves the committed offsets forward, and no file with them.
LEMMA CommitKeepsFiles ==
    ASSUME ReplayInv, joined, committed' \in {committed, position},
           final' = final
    PROVE  CheckpointBehindCommit'
<1> USE DEF ReplayInv, TypeInv, TypeOK, Views, Msgs, Offsets
<1>1. \A p \in Partitions :
        committed[p] <= committed'[p] /\ committed'[p] \in Int
    BY DEF CommitBehindConsumer
<1> SUFFICES ASSUME NEW e \in Epochs, NEW m \in Msgs,
                    final[e] # NoFile, final[e][m] # 0
             PROVE  m[2] < committed'[m[1]]
    BY DEF CheckpointBehindCommit
<1>2. m[2] < committed[m[1]]
    BY DEF CheckpointBehindCommit
<1> QED
    BY <1>1, <1>2

\* A poll delivers messages the view has not seen.
LEMMA PolledIsNew ==
    ASSUME ReplayInv, NEW pos \in [Partitions -> 0..MaxOffset],
           NEW q \in Partitions, Polled(pos, q), NEW m \in Between(pos)
    PROVE  m \in Msgs /\ acc[m] = 0 /\ m[2] < pos[m[1]]
<1> USE DEF ReplayInv, TypeInv, TypeOK
<1>1. m \in Msgs /\ position[m[1]] <= m[2] /\ m[2] < pos[m[1]]
    BY DEF Between
<1>2. m[2] \in Int /\ position[m[1]] \in Int
    BY <1>1 DEF Msgs, Offsets
<1> QED
    BY <1>1, <1>2 DEF Polled, ViewBehindConsumer, Below

\* What lies behind the consumer still does when the consumer moves on.
LEMMA PolledMovesOn ==
    ASSUME ReplayInv, NEW pos \in [Partitions -> 0..MaxOffset],
           NEW q \in Partitions, Polled(pos, q)
    PROVE  /\ Below(acc, pos)
           /\ \A p \in Partitions : committed[p] <= pos[p]
<1> USE KafkaAssumption DEF ReplayInv, TypeInv, TypeOK, Polled
<1>1. ASSUME NEW m \in Msgs, acc[m] # 0 PROVE m[2] < pos[m[1]]
  <2>1. m[2] < position[m[1]] /\ position[m[1]] <= pos[m[1]]
    BY <1>1 DEF ViewBehindConsumer, Below, Msgs
  <2>2. m[2] \in Int /\ position[m[1]] \in Int /\ pos[m[1]] \in Int
    BY DEF Msgs, Offsets
  <2> QED
    BY <2>1, <2>2
<1>2. ASSUME NEW p \in Partitions PROVE committed[p] <= pos[p]
  <2>1. committed[p] <= position[p] /\ position[p] <= pos[p]
    BY DEF CommitBehindConsumer
  <2>2. committed[p] \in Int /\ position[p] \in Int /\ pos[p] \in Int
    OBVIOUS
  <2> QED
    BY <2>1, <2>2
<1> QED
    BY <1>1, <1>2 DEF Below

LEMMA PlusNew ==
    ASSUME NEW v \in Views, NEW S, NEW offsets, Below(v, offsets),
           \A m \in Msgs : v[m] <= 1,
           \A m \in S : v[m] = 0 /\ m[2] < offsets[m[1]]
    PROVE  /\ Below(Plus(v, S), offsets)
           /\ \A m \in Msgs : Plus(v, S)[m] <= 1
    BY DEF Below, Plus, Views

LEMMA ReplayInit == Init => ReplayInv
<1> SUFFICES ASSUME Init PROVE ReplayInv
    OBVIOUS
<1>1. TypeInv
    BY TypeInit
<1>2. /\ FreshStart /\ ViewBehindConsumer /\ CommitBehindConsumer
      /\ BatchIsNew /\ CheckpointBehindCommit /\ FilesOnce
    BY DEF Init, FreshStart, ViewBehindConsumer, CommitBehindConsumer,
           BatchIsNew, CheckpointBehindCommit, FilesOnce, EmptyDir
<1>3. AtMostOnce
    BY DEF Init, AtMostOnce, Zero
<1> QED
    BY <1>1, <1>2, <1>3 DEF ReplayInv

LEMMA ReplayNext ==
    ASSUME NoReplay, ReplayInv, [Next]_vars
    PROVE  ReplayInv'
<1>t. TypeInv'
    BY TypeNext DEF ReplayInv
<1> USE DEF ReplayInv, FreshStart, ViewBehindConsumer, CommitBehindConsumer,
            BatchIsNew, brokerVars, consumerVars, batchVars, dirVars
\* Steps that change neither the view nor the files nor the offsets.
<1>a. (acc' = acc /\ final' = final /\ committed' = committed)
        => CheckpointBehindCommit' /\ AtMostOnce' /\ FilesOnce'
    BY DEF CheckpointBehindCommit, AtMostOnce, FilesOnce
\* When a task ends, nothing is left of the consumer and the batch.
<1>b. ASSUME EndTask, running' = running, acc' = acc, final' = final, running,
             committed' = committed
      PROVE  ReplayInv'
    BY <1>a, <1>b, <1>t DEF EndTask
<1>r. pc # "idle" => running
    OBVIOUS
<1>1. ASSUME NEW p \in Partitions, Produce(p) PROVE ReplayInv'
    BY <1>1, <1>a, <1>t DEF Produce, Below
<1>2. CASE Join
  <2>1. Below(acc', position')
    BY <1>2 DEF Join, Below
  <2>2. \A p \in Partitions : committed'[p] <= position'[p]
    BY <1>2 DEF Join, TypeInv, TypeOK
  <2> QED
    BY <1>2, <1>a, <1>t, <2>1, <2>2 DEF Join
<1>3. CASE Start
    BY <1>3, <1>a, <1>t, ZeroBelow DEF Start
<1>4. CASE Stop
    BY <1>4 DEF Stop, Fault, NoReplay
<1>5. CASE Cleanup
    BY <1>5, <1>a, <1>t, ZeroBelow DEF Cleanup, CleanupUncommitted
<1>6. CASE Restore
  <2>1. CASE RestoreLatest /\ acc' = final[LatestEpoch]
    <3>1. /\ LatestEpoch \in Epochs /\ final[LatestEpoch] # NoFile
          /\ UNCHANGED <<final, committed, joined, running>>
        BY <1>6, <2>1, LatestIsView, FilesAssumption
           DEF Restore, RestoreLatest
    <3>2. Below(acc', committed')
        BY <2>1, <3>1 DEF Below, CheckpointBehindCommit
    <3>3. AtMostOnce'
        BY <2>1, <3>1 DEF AtMostOnce, FilesOnce
    <3>4. CheckpointBehindCommit' /\ FilesOnce'
        BY <3>1 DEF CheckpointBehindCommit, FilesOnce
    <3> QED
        BY <1>6, <1>t, <3>1, <3>2, <3>3, <3>4 DEF Restore
  <2>2. CASE RestoreNothing /\ UNCHANGED acc
    BY <1>6, <1>a, <1>t, <2>2, ZeroBelow DEF Restore, RestoreNothing
  <2> QED
    BY <1>6, <2>1, <2>2 DEF Restore
<1>7. CASE Connect
    BY <1>7, <1>a, <1>t DEF Connect, Below
<1>8. CASE LoopEnds
    BY <1>8, <1>r DEF LoopEnds
<1>9. CASE Backpressure
    BY <1>9, <1>a, <1>t DEF Backpressure, Below
<1>10. CASE PollMessages
  <2> PICK pos \in [Partitions -> 0..MaxOffset], q \in Partitions :
        LET S == Between(pos) \cap WellFormed IN
        /\ Polled(pos, q)
        /\ position' = pos
        /\ \/ delta' = S /\ pc' = "apply" /\ acc' = acc
           \/ acc' = Plus(acc, S) /\ pc' = "loop" /\ UNCHANGED batchVars
    BY <1>10 DEF PollMessages
  <2> DEFINE S == Between(pos) \cap WellFormed
  <2>1. \A m \in S : m \in Msgs /\ acc[m] = 0 /\ m[2] < pos[m[1]]
    BY PolledIsNew
  <2>2. Below(acc, pos) /\ \A p \in Partitions : committed[p] <= pos[p]
    BY PolledMovesOn
  <2>3. UNCHANGED <<running, joined, committed, final>> /\ joined /\ running
    BY <1>10 DEF PollMessages, Polled
  <2>4. CheckpointBehindCommit' /\ FilesOnce'
    BY <2>3 DEF CheckpointBehindCommit, FilesOnce
  <2> HIDE DEF S
  <2>5. CASE delta' = S /\ pc' = "apply" /\ acc' = acc
    <3>1. AtMostOnce'
        BY <2>5 DEF AtMostOnce
    <3> QED
        BY <1>t, <2>1, <2>2, <2>3, <2>4, <2>5, <3>1 DEF Below
  <2>6. CASE acc' = Plus(acc, S) /\ pc' = "loop"
    <3>1. Below(Plus(acc, S), pos) /\ \A m \in Msgs : Plus(acc, S)[m] <= 1
        BY <2>1, <2>2, PlusNew DEF AtMostOnce, TypeInv, TypeOK
    <3>2. AtMostOnce'
        BY <2>6, <3>1 DEF AtMostOnce
    <3> QED
        BY <1>t, <2>2, <2>3, <2>4, <2>6, <3>1, <3>2 DEF Below
  <2> QED
    BY <2>5, <2>6 DEF S
<1>11. CASE PollNothing
    BY <1>11, <1>a, <1>t DEF PollNothing, Below
<1>12. CASE PollFails
  <2>1. CASE UNCHANGED position
    BY <1>12, <1>a, <1>t, <2>1 DEF PollFails, Below
  <2>2. CASE \E pos \in [Partitions -> 0..MaxOffset], q \in Partitions :
                Polled(pos, q) /\ position' = pos
    BY <1>12, <1>a, <1>t, <2>2, PolledMovesOn DEF PollFails, Polled, Below
  <2> QED
    BY <1>12, <2>1, <2>2 DEF PollFails
<1>13. CASE Apply
  <2>1. /\ Below(Plus(acc, delta), position)
        /\ \A m \in Msgs : Plus(acc, delta)[m] <= 1
    BY <1>13, PlusNew DEF Apply, AtMostOnce, TypeInv, TypeOK
  <2>2. AtMostOnce' /\ Below(acc', position')
    BY <1>13, <2>1 DEF Apply, AtMostOnce
  <2>3. CheckpointBehindCommit' /\ FilesOnce'
    BY <1>13 DEF Apply, CheckpointBehindCommit, FilesOnce
  <2> QED
    BY <1>13, <1>t, <2>2, <2>3 DEF Apply
<1>14. CASE SavePhase
    BY <1>14, <1>a, <1>t DEF SavePhase, SaveTmp, Below
<1>15. CASE SaveFails
    BY <1>15, <1>b, <1>r DEF SaveFails, SaveTmpInterrupted
<1>16. CASE CommitPhase
  <2>1. CheckpointBehindCommit'
    BY <1>16, CommitKeepsFiles DEF CommitPhase
  <2>2. AtMostOnce' /\ FilesOnce'
    BY <1>16 DEF CommitPhase, AtMostOnce, FilesOnce
  <2>3. \A p \in Partitions : committed'[p] <= position'[p]
    BY <1>16 DEF CommitPhase, TypeInv, TypeOK
  <2> QED
    BY <1>16, <1>t, <2>1, <2>2, <2>3 DEF CommitPhase, Below
<1>17. CASE CommitFails
  <2>1. CheckpointBehindCommit'
    BY <1>17, CommitKeepsFiles DEF CommitFails
  <2>2. AtMostOnce' /\ FilesOnce'
    BY <1>17 DEF CommitFails, AtMostOnce, FilesOnce
  <2> QED
    BY <1>17, <1>t, <1>r, <2>1, <2>2 DEF CommitFails, EndTask
<1>18. CASE ConfirmPhase
  <2>1. /\ tmp[epoch] = acc /\ epoch \in Epochs /\ committed = position
        /\ joined /\ UNCHANGED <<acc, committed, position, joined, running>>
        /\ pc' = "loop" /\ running
        /\ final' = [final EXCEPT ![epoch] = acc]
    BY <1>18 DEF ConfirmPhase, Confirm, TypeInv, TypeOK, SavedView
  <2>2. CheckpointBehindCommit'
    BY <2>1 DEF CheckpointBehindCommit, Below, TypeInv, TypeOK
  <2>3. AtMostOnce' /\ FilesOnce'
    BY <2>1 DEF AtMostOnce, FilesOnce, TypeInv, TypeOK
  <2> QED
    BY <1>t, <2>1, <2>2, <2>3 DEF Below
<1>19. CASE ConfirmFails
    BY <1>19, <1>b, <1>r DEF ConfirmFails
<1>20. CASE ConnectFails
    BY <1>20, <1>b, <1>r DEF ConnectFails
<1>21. CASE Crash
  <2>1. CheckpointBehindCommit' /\ FilesOnce'
    BY <1>21 DEF Crash, CheckpointBehindCommit, FilesOnce
  <2>2. AtMostOnce'
    BY <1>21 DEF Crash, AtMostOnce, Zero
  <2> QED
    BY <1>21, <1>t, <2>1, <2>2 DEF Crash, EndTask
<1>22. CASE UNCHANGED vars
    BY <1>22, <1>a, <1>t DEF vars, Below
<1>23. CASE Revoke
    BY <1>23 DEF Revoke, Fault, NoReplay
<1>24. CASE CleanupFails
    BY <1>24, <1>b, <1>r DEF CleanupFails, CleanupInterrupted
<1>25. CASE RestoreFails
    BY <1>25, <1>b, <1>r DEF RestoreFails, RestoreInterrupted
<1> QED
    BY <1>1, <1>2, <1>3, <1>4, <1>5, <1>6, <1>7, <1>8, <1>9, <1>10, <1>11,
       <1>12, <1>13, <1>14, <1>15, <1>16, <1>17, <1>18, <1>19, <1>20, <1>21,
       <1>22, <1>23, <1>24, <1>25
       DEF Next, Task, Failure

LEMMA ReplayInvariant ==
    ASSUME NoReplay
    PROVE  Spec => []ReplayInv
<1>1. ReplayInv /\ [Next]_vars => ReplayInv'
    BY ReplayNext
<1> QED
    BY <1>1, ReplayInit, PTL DEF Spec

\* A checkpoint holds nothing the broker could deliver again, whatever crashes,
\* poll errors and failed phases of a checkpoint a run has: replay after a
\* restart never repeats what the restored view contains.
THEOREM CheckpointNotReplayed ==
    ASSUME NoReplay
    PROVE  Spec => []CheckpointBehindCommit
<1>1. ReplayInv => CheckpointBehindCommit
    BY DEF ReplayInv
<1> QED
    BY <1>1, ReplayInvariant, PTL

\* The view counts no message twice, however often the process dies and
\* whichever step of a checkpoint it dies in.
THEOREM NoDuplicates ==
    ASSUME NoReplay
    PROVE  Spec => []AtMostOnce
<1>1. ReplayInv => AtMostOnce
    BY DEF ReplayInv
<1> QED
    BY <1>1, ReplayInvariant, PTL

-----------------------------------------------------------------------------
(***************************************************************************)
(* Orphans.  The files a run leaves behind are those of its last write:    *)
(* the directory has no .tmp file from the cleanup of a start to its first *)
(* save_tmp, and only that one until it is renamed.                        *)
(***************************************************************************)
OneWrite ==
    /\ pc \in {"restore", "connect", "loop", "poll", "apply", "save"}
            => \A e \in Epochs : tmp[e] = NoFile
    /\ pc \in {"commit", "confirm"} => \A e \in Epochs \ {epoch} : tmp[e] = NoFile

OrphanInv == TypeInv /\ OneWrite /\ OneOrphan

LEMMA OrphanInit == Init => OrphanInv
    BY TypeInit DEF Init, OrphanInv, OneWrite, OneOrphan, EmptyDir

LEMMA OrphanNext == OrphanInv /\ [Next]_vars => OrphanInv'
<1> SUFFICES ASSUME OrphanInv, [Next]_vars PROVE OrphanInv'
    OBVIOUS
<1>t. TypeInv'
    BY TypeNext DEF OrphanInv
<1> USE DEF OrphanInv, OneWrite, OneOrphan, TypeInv, TypeOK
\* A step to idle, or within the steps between two phases, that leaves the
\* .tmp files alone.
<1>a. tmp' = tmp /\ pc' = "idle" => OrphanInv'
    BY <1>t
<1>b. /\ tmp' = tmp /\ epoch' = epoch
      /\ pc' = pc \/ pc \notin {"idle", "cleanup", "commit", "confirm"}
      /\ pc' \in {"commit", "confirm"} => pc' = pc
      => OrphanInv'
    BY <1>t DEF PCs
<1>c. tmp' = tmp /\ pc \in {"loop", "poll", "apply"}
        /\ pc' \in {"loop", "poll", "apply", "save"} => OrphanInv'
    BY <1>t
<1>1. ASSUME NEW p \in Partitions, Produce(p) PROVE OrphanInv'
    BY <1>1, <1>b DEF Produce, dirVars, batchVars
<1>2. CASE Join
    BY <1>2, <1>b DEF Join, dirVars, batchVars
<1>3. CASE Start
    BY <1>3, <1>t DEF Start, dirVars
<1>4. CASE Stop
    BY <1>4, <1>b DEF Stop, dirVars, batchVars
<1>5. CASE Cleanup
    BY <1>5, <1>t DEF Cleanup, CleanupUncommitted, EmptyDir
<1>6. CASE Restore
    BY <1>6, <1>b DEF Restore, RestoreLatest, RestoreNothing, dirVars, batchVars
<1>7. CASE Connect
    BY <1>7, <1>b DEF Connect, dirVars, batchVars
<1>8. CASE LoopEnds
    BY <1>8, <1>a DEF LoopEnds, EndTask, dirVars
<1>9. CASE Backpressure
    BY <1>9, <1>c DEF Backpressure, dirVars
<1>10. CASE PollMessages
    BY <1>10, <1>c DEF PollMessages, dirVars
<1>11. CASE PollNothing
    BY <1>11, <1>c DEF PollNothing, dirVars
<1>12. CASE PollFails
    BY <1>12, <1>c DEF PollFails, dirVars
<1>13. CASE Apply
    BY <1>13, <1>c DEF Apply, dirVars
<1>14. CASE SavePhase
    BY <1>14, <1>t DEF SavePhase, SaveTmp, batchVars
<1>15. CASE SaveFails
  <2>1. CASE UNCHANGED <<dirVars, lastEpoch>>
    BY <1>15, <2>1, <1>a DEF SaveFails, EndTask, dirVars
  <2>2. CASE SaveTmpInterrupted(epoch)
    BY <1>15, <2>2, <1>t DEF SaveFails, SaveTmpInterrupted, EndTask
  <2> QED
    BY <1>15, <2>1, <2>2 DEF SaveFails
<1>16. CASE CommitPhase
    BY <1>16, <1>t DEF CommitPhase, dirVars, batchVars
<1>17. CASE CommitFails
    BY <1>17, <1>a DEF CommitFails, EndTask, dirVars
<1>18. CASE ConfirmPhase
    BY <1>18, <1>t DEF ConfirmPhase, Confirm
<1>19. CASE ConfirmFails
    BY <1>19, <1>a DEF ConfirmFails, EndTask, dirVars
<1>20. CASE ConnectFails
    BY <1>20, <1>a DEF ConnectFails, EndTask, dirVars
<1>21. CASE Crash
  <2>1. CASE UNCHANGED tmp
    BY <1>21, <2>1, <1>a DEF Crash, EndTask
  <2>2. CASE pc = "save" /\ tmp' = [tmp EXCEPT ![epoch] = Torn]
    BY <1>21, <2>2, <1>t DEF Crash, EndTask
  <2> QED
    BY <1>21, <2>1, <2>2 DEF Crash
<1>22. CASE UNCHANGED vars
    BY <1>22, <1>b DEF vars, dirVars, batchVars
<1>23. CASE Revoke
    BY <1>23, <1>b DEF Revoke, dirVars, batchVars
<1>24. CASE CleanupFails
    BY <1>24, <1>t DEF CleanupFails, CleanupInterrupted, EndTask
<1>25. CASE RestoreFails
    BY <1>25, <1>a DEF RestoreFails, RestoreInterrupted, EndTask, dirVars
<1> QED
    BY <1>1, <1>2, <1>3, <1>4, <1>5, <1>6, <1>7, <1>8, <1>9, <1>10, <1>11,
       <1>12, <1>13, <1>14, <1>15, <1>16, <1>17, <1>18, <1>19, <1>20, <1>21,
       <1>22, <1>23, <1>24, <1>25
       DEF Next, Task, Failure

\* A run leaves at most one .tmp file behind, whichever phase of a checkpoint
\* fails or the process dies in, and the next start removes it before another
\* is written.
THEOREM AtMostOneOrphan == Spec => []OneOrphan
<1>1. OrphanInv => OneOrphan
    BY DEF OrphanInv
<1> QED
    BY <1>1, OrphanInit, OrphanNext, PTL DEF Spec

-----------------------------------------------------------------------------
(***************************************************************************)
(* The durable copy.  Only a rename changes it, and what is renamed is the *)
(* view; a view that was restored from a copy, and has only grown since,   *)
(* covers it.                                                              *)
(***************************************************************************)
ViewCoversCopy ==
    Live /\ Saved # {} => \A m \in Msgs : Durable[m] <= acc[m]

GrowInv == TypeInv /\ ViewCoversCopy

LEMMA CopyIsView ==
    ASSUME TypeInv
    PROVE  /\ Saved # {} => Durable \in Views /\ Durable = final[LatestEpoch]
           /\ Saved = {} => Durable = NoFile
           /\ Durable # Torn
    BY LatestIsView, FilesAssumption DEF Durable

LEMMA PlusCovers ==
    ASSUME NEW v \in Views, NEW S, NEW m \in Msgs
    PROVE  v[m] <= Plus(v, S)[m]
    BY DEF Plus, Views

LEMMA GrowInit == Init => GrowInv
    BY TypeInit DEF Init, GrowInv, ViewCoversCopy, Live

LEMMA GrowNext == GrowInv /\ [Next]_vars => GrowInv'
<1> SUFFICES ASSUME GrowInv, [Next]_vars PROVE GrowInv'
    OBVIOUS
<1>t. TypeInv'
    BY TypeNext DEF GrowInv
<1> USE DEF GrowInv, ViewCoversCopy, Live
\* Nothing but the program counter changes, and the pipeline does not come up.
<1>a. final' = final /\ acc' = acc /\ (Live' => Live) => GrowInv'
    BY <1>t, SameCopy
\* The task ends.
<1>b. final' = final /\ pc' = "idle" => GrowInv'
    BY <1>t, SameCopy
\* The view grows.
<1>c. ASSUME final' = final, NEW S, acc' = Plus(acc, S), Live
      PROVE  GrowInv'
  <2>1. ASSUME Saved # {}, NEW m \in Msgs PROVE Durable[m] <= acc'[m]
    <3>1. Durable[m] \in Nat /\ acc[m] \in Nat /\ acc'[m] \in Nat
        BY <1>c, <2>1, CopyIsView, PlusType DEF TypeInv, TypeOK, Views
    <3>2. Durable[m] <= acc[m] /\ acc[m] <= acc'[m]
        BY <1>c, <2>1, PlusCovers DEF TypeInv, TypeOK
    <3> QED
        BY <3>1, <3>2
  <2> QED
    BY <1>c, <1>t, <2>1, SameCopy
<1>1. ASSUME NEW p \in Partitions, Produce(p) PROVE GrowInv'
    BY <1>1, <1>a DEF Produce, dirVars
<1>2. CASE Join
    BY <1>2, <1>a DEF Join, dirVars
<1>3. CASE Start
    BY <1>3, <1>a DEF Start, dirVars
<1>4. CASE Stop
    BY <1>4, <1>a DEF Stop, dirVars
<1>5. CASE Cleanup
    BY <1>5, <1>a DEF Cleanup, CleanupUncommitted
<1>6. CASE Restore
  <2>1. CASE RestoreLatest /\ acc' = final[LatestEpoch]
    <3>1. Saved # {} /\ acc' = Durable /\ final' = final
        BY <2>1 DEF RestoreLatest, Durable, dirVars
    <3>2. \A m \in Msgs : Durable[m] \in Nat
        BY <3>1, CopyIsView DEF Views
    <3> QED
        BY <1>t, <3>1, <3>2, SameCopy
  <2>2. CASE RestoreNothing
    BY <1>t, <2>2, SameCopy DEF RestoreNothing, dirVars
  <2> QED
    BY <1>6, <2>1, <2>2 DEF Restore
<1>7. CASE Connect
    BY <1>7, <1>a DEF Connect, dirVars
<1>8. CASE LoopEnds
    BY <1>8, <1>b DEF LoopEnds, EndTask, dirVars
<1>9. CASE Backpressure
    BY <1>9, <1>a DEF Backpressure, dirVars
<1>10. CASE PollMessages
  <2>1. final' = final /\ pc = "poll" /\ (acc' = acc \/ \E S : acc' = Plus(acc, S))
    BY <1>10 DEF PollMessages, dirVars
  <2> QED
    BY <1>a, <1>c, <2>1
<1>11. CASE PollNothing
    BY <1>11, <1>a DEF PollNothing, dirVars
<1>12. CASE PollFails
    BY <1>12, <1>a DEF PollFails, dirVars
<1>13. CASE Apply
    BY <1>13, <1>c DEF Apply, dirVars
<1>14. CASE SavePhase
    BY <1>14, <1>a DEF SavePhase, SaveTmp
<1>15. CASE SaveFails
    BY <1>15, <1>b DEF SaveFails, SaveTmpInterrupted, EndTask, dirVars
<1>16. CASE CommitPhase
    BY <1>16, <1>a DEF CommitPhase, dirVars
<1>17. CASE CommitFails
    BY <1>17, <1>b DEF CommitFails, EndTask, dirVars
<1>18. CASE ConfirmPhase
  <2>1. Durable' = acc \/ (Saved # {} /\ Durable' = Durable)
    BY <1>18, RenamedFile DEF ConfirmPhase
  <2>2. acc' = acc /\ Live /\ \A m \in Msgs : acc[m] \in Nat
    BY <1>18 DEF ConfirmPhase, TypeInv, TypeOK, Views
  <2> QED
    BY <1>t, <2>1, <2>2
<1>19. CASE ConfirmFails
    BY <1>19, <1>b DEF ConfirmFails, EndTask, dirVars
<1>20. CASE ConnectFails
    BY <1>20, <1>b DEF ConnectFails, EndTask, dirVars
<1>21. CASE Crash
    BY <1>21, <1>b DEF Crash, EndTask
<1>22. CASE UNCHANGED vars
    BY <1>22, <1>a DEF vars, dirVars
<1>23. CASE Revoke
    BY <1>23, <1>a DEF Revoke, dirVars
<1>24. CASE CleanupFails
    BY <1>24, <1>b DEF CleanupFails, CleanupInterrupted, EndTask
<1>25. CASE RestoreFails
    BY <1>25, <1>b DEF RestoreFails, RestoreInterrupted, EndTask, dirVars
<1> QED
    BY <1>1, <1>2, <1>3, <1>4, <1>5, <1>6, <1>7, <1>8, <1>9, <1>10, <1>11,
       <1>12, <1>13, <1>14, <1>15, <1>16, <1>17, <1>18, <1>19, <1>20, <1>21,
       <1>22, <1>23, <1>24, <1>25
       DEF Next, Task, Failure

LEMMA OnlyConfirmChangesFiles ==
    ASSUME [Next]_vars
    PROVE  final' = final \/ ConfirmPhase
    BY DEF Next, Task, Failure, Produce, Join, Revoke, Start, Stop, Cleanup,
           CleanupFails, CleanupInterrupted, Restore, RestoreFails,
           RestoreInterrupted, Connect, LoopEnds, Backpressure, PollMessages, PollNothing, Apply,
           SavePhase, CommitPhase, ConnectFails, PollFails, SaveFails,
           CommitFails, ConfirmFails, Crash, CleanupUncommitted, RestoreLatest,
           RestoreNothing, SaveTmp, SaveTmpInterrupted, EndTask, vars, dirVars

LEMMA GrowStep ==
    ASSUME GrowInv, [Next]_vars
    PROVE  Saved # {} => /\ Saved' # {}
                         /\ \A m \in Msgs : Durable[m] <= Durable'[m]
<1>1. Saved # {} => \A m \in Msgs : Durable[m] \in Nat
    BY CopyIsView DEF GrowInv, Views
<1>2. CASE final' = final
    BY <1>1, <1>2, SameCopy
<1>3. CASE ConfirmPhase
  <2>1. Saved' # {} /\ (Durable' = acc \/ Durable' = Durable)
    BY <1>3, RenamedFile DEF ConfirmPhase, GrowInv
  <2>2. Live
    BY <1>3 DEF ConfirmPhase, Live
  <2> QED
    BY <1>1, <2>1, <2>2 DEF GrowInv, ViewCoversCopy
<1> QED
    BY <1>2, <1>3, OnlyConfirmChangesFiles

\* What a restart would read only grows: although files are ordered by the
\* offset of the last message of a batch, whatever its partition, a rename never
\* puts a smaller view in the place of a larger one.
THEOREM CopyGrows == Spec => DurableGrows
<1>1. GrowInv /\ [Next]_vars
        => [Saved # {} => /\ Saved' # {}
                          /\ \A m \in Msgs : Durable[m] <= Durable'[m]]_vars
    BY GrowStep
<1> QED
    BY <1>1, GrowInit, GrowNext, PTL DEF Spec, DurableGrows

-----------------------------------------------------------------------------
(***************************************************************************)
(* KafkaPipeline implements RecoverableView: every step is one of its      *)
(* steps, or leaves the view, the copy, and whether the pipeline is live   *)
(* as they are.                                                            *)
(***************************************************************************)
LEMMA RefinedInit == Init => View!RVInit
    BY DEF Init, View!RVInit, Live, Zero, View!NoChanges, Durable, Saved, EmptyDir

LEMMA RefinedNext ==
    ASSUME TypeInv, [Next]_vars
    PROVE  [View!RVNext]_View!viewVars
<1> USE DEF View!viewVars, View!RVNext, Live
\* The steps that are not seen.
<1>a. final' = final /\ acc' = acc /\ Live' = Live => UNCHANGED View!viewVars
    BY SameCopy
\* The task ends, in a live pipeline or not.
<1>b. ASSUME final' = final, acc' = acc, pc' = "idle"
      PROVE  View!Halt \/ UNCHANGED View!viewVars
    BY <1>b, SameCopy DEF View!Halt
\* Messages are added to the view.
<1>c. ASSUME final' = final, NEW S, acc' = Plus(acc, S), Live, Live'
      PROVE  View!Advance \/ UNCHANGED View!viewVars
  <2>1. View!Covers(acc', acc)
    BY <1>c, PlusCovers DEF View!Covers, TypeInv, TypeOK
  <2> QED
    BY <1>c, <2>1, SameCopy DEF View!Advance
<1>1. ASSUME NEW p \in Partitions, Produce(p) PROVE UNCHANGED View!viewVars
    BY <1>1, <1>a DEF Produce, dirVars
<1>2. CASE Join
    BY <1>2, <1>a DEF Join, dirVars
<1>3. CASE Start
    BY <1>3, <1>a DEF Start, dirVars
<1>4. CASE Stop
    BY <1>4, <1>a DEF Stop, dirVars
<1>5. CASE Cleanup
    BY <1>5, <1>a DEF Cleanup, CleanupUncommitted
<1>6. CASE Restore
  <2>1. Durable # Torn /\ UNCHANGED Durable
    BY <1>6, CopyIsView, SameCopy DEF Restore, RestoreLatest, RestoreNothing, dirVars
  <2>2. acc' = IF Durable = NoFile THEN acc ELSE Durable
    BY <1>6, CopyIsView, FilesAssumption
       DEF Restore, RestoreLatest, RestoreNothing
  <2>3. ~Live /\ Live'
    BY <1>6 DEF Restore
  <2> QED
    BY <2>1, <2>2, <2>3 DEF View!Recover
<1>7. CASE Connect
    BY <1>7, <1>a DEF Connect, dirVars
<1>8. CASE LoopEnds
    BY <1>8, <1>b DEF LoopEnds, EndTask, dirVars
<1>9. CASE Backpressure
    BY <1>9, <1>a DEF Backpressure, dirVars
<1>10. CASE PollMessages
  <2>1. /\ final' = final /\ pc = "poll" /\ pc' \in {"apply", "loop"}
        /\ acc' = acc \/ \E S : acc' = Plus(acc, S)
    BY <1>10 DEF PollMessages, dirVars
  <2> QED
    BY <1>a, <1>c, <2>1
<1>11. CASE PollNothing
    BY <1>11, <1>a DEF PollNothing, dirVars
<1>12. CASE PollFails
    BY <1>12, <1>a DEF PollFails, dirVars
<1>13. CASE Apply
    BY <1>13, <1>c DEF Apply, dirVars
<1>14. CASE SavePhase
    BY <1>14, <1>a DEF SavePhase, SaveTmp
<1>15. CASE SaveFails
    BY <1>15, <1>b DEF SaveFails, SaveTmpInterrupted, EndTask, dirVars
<1>16. CASE CommitPhase
    BY <1>16, <1>a DEF CommitPhase, dirVars
<1>17. CASE CommitFails
    BY <1>17, <1>b DEF CommitFails, EndTask, dirVars
<1>18. CASE ConfirmPhase
  <2>1. Durable' = acc \/ Durable' = Durable
    BY <1>18, RenamedFile DEF ConfirmPhase
  <2>2. acc' = acc /\ Live /\ Live'
    BY <1>18 DEF ConfirmPhase
  <2> QED
    BY <2>1, <2>2 DEF View!Persist
<1>19. CASE ConfirmFails
    BY <1>19, <1>b DEF ConfirmFails, EndTask, dirVars
<1>20. CASE ConnectFails
    BY <1>20, <1>b DEF ConnectFails, EndTask, dirVars
<1>21. CASE Crash
    BY <1>21, SameCopy DEF Crash, EndTask, View!Forget, View!NoChanges, Zero
<1>22. CASE UNCHANGED vars
    BY <1>22, <1>a DEF vars, dirVars
<1>23. CASE Revoke
    BY <1>23, <1>a DEF Revoke, dirVars
<1>24. CASE CleanupFails
    BY <1>24, <1>b DEF CleanupFails, CleanupInterrupted, EndTask
<1>25. CASE RestoreFails
    BY <1>25, <1>b DEF RestoreFails, RestoreInterrupted, EndTask, dirVars
<1> QED
    BY <1>1, <1>2, <1>3, <1>4, <1>5, <1>6, <1>7, <1>8, <1>9, <1>10, <1>11,
       <1>12, <1>13, <1>14, <1>15, <1>16, <1>17, <1>18, <1>19, <1>20, <1>21,
       <1>22, <1>23, <1>24, <1>25
       DEF Next, Task, Failure

\* What the pipeline shows of itself is a recoverable view: it grows while the
\* pipeline runs, the copy on disk is a view the pipeline really had, and a
\* restart resumes from that copy, whatever fails on the way.
THEOREM RefinesRecoverableView == Spec => ImplementsRecoverableView
<1>1. TypeInv /\ [Next]_vars => [View!RVNext]_View!viewVars
    BY RefinedNext
<1> QED
    BY <1>1, RefinedInit, TypeInvariant, PTL
       DEF Spec, ImplementsRecoverableView, View!RVSpec

-----------------------------------------------------------------------------
(***************************************************************************)
(* Completeness of the view when polls do not fail and a checkpoint that   *)
(* was begun is finished.  The invariant follows what must not be lost:    *)
(* what the group has committed is in the copy, what is in the copy is in  *)
(* the view that was restored from it, and the consumer, which starts at   *)
(* the committed offsets, puts everything it passes into the view.  At the *)
(* rename the view becomes the copy that a restart reads, because a        *)
(* checkpoint's epoch is above that of the newest file.                    *)
(***************************************************************************)
Holds(view, m) == view[m] # 0

RestoredIsComplete ==
    Live /\ ~joined =>
        \A m \in WellFormed : m[2] < committed[m[1]] => Holds(acc, m)

LastIsLatest == Live /\ Saved # {} => lastEpoch = LatestEpoch

EpochIsNewer ==
    pc \in {"save", "commit", "confirm"} =>
        ShouldCheckpoint(epoch, CheckpointInterval)

LossInv ==
    /\ TypeInv
    /\ joined => pc \notin {"idle", "cleanup", "restore", "connect"}
    /\ pc \in {"apply", "save", "commit", "confirm"} => joined
    /\ pc = "apply" => \A m \in delta : m[2] < position[m[1]]
    /\ joined => \A p \in Partitions : committed[p] <= position[p]
    /\ pc = "confirm" => committed = position
    /\ RestoredIsComplete /\ LastIsLatest /\ EpochIsNewer
    /\ NothingSkipped /\ CommittedIsDurable

NoLoss == {"poll", "commit", "confirm", "window"} \cap Faults = {}

LEMMA PlusHolds ==
    ASSUME NEW v \in Views, NEW S, NEW m \in Msgs, m \in S \/ Holds(v, m)
    PROVE  Holds(Plus(v, S), m)
    BY DEF Plus, Views, Holds

\* A checkpoint that is renamed is the newest one.
LEMMA ConfirmedIsNewest ==
    ASSUME LossInv, ConfirmPhase
    PROVE  Saved' # {} /\ LatestEpoch' = epoch /\ Durable' = acc
<1>1. /\ pc = "confirm" /\ TypeInv /\ Confirm(epoch)
    BY DEF LossInv, ConfirmPhase
<1>2. epoch >= lastEpoch + CheckpointInterval /\ CheckpointInterval > 0
    BY <1>1 DEF LossInv, EpochIsNewer, ShouldCheckpoint
<1>3. Saved # {} => lastEpoch = LatestEpoch
    BY <1>1 DEF LossInv, LastIsLatest, Live
<1>4. epoch \in Int /\ lastEpoch \in Int /\ CheckpointInterval \in Int
    BY <1>1, EpochsAssumption, KafkaAssumption DEF TypeInv, TypeOK
<1> QED
    BY <1>1, <1>2, <1>3, <1>4, RenamedFile

LEMMA LossInit == Init => LossInv
<1> SUFFICES ASSUME Init PROVE LossInv
    OBVIOUS
<1>1. TypeInv
    BY TypeInit
<1>2. CommittedIsDurable
  <2> SUFFICES ASSUME NEW m \in WellFormed PROVE ~(m[2] < committed[m[1]])
    BY DEF CommittedIsDurable
  <2>1. committed[m[1]] = 0 /\ m[2] \in Nat
    BY KafkaAssumption DEF Init, NoOffsets, WellFormed, Msgs, Offsets
  <2> QED
    BY <2>1
<1> QED
    BY <1>1, <1>2
       DEF Init, LossInv, RestoredIsComplete, LastIsLatest, EpochIsNewer,
           NothingSkipped, Live

LEMMA LossNext ==
    ASSUME NoLoss, LossInv, [Next]_vars
    PROVE  LossInv'
<1>t. TypeInv'
    BY TypeNext DEF LossInv
<1>v. acc \in Views /\ delta \subseteq WellFormed /\ WellFormed \subseteq Msgs
    BY DEF LossInv, TypeInv, TypeOK, WellFormed
<1> USE DEF LossInv, RestoredIsComplete, NothingSkipped, Caught,
            CommittedIsDurable, Live
\* The files and the offsets of the group stay.
<1>d. ASSUME final' = final, committed' = committed, pc # "confirm"
      PROVE  CommittedIsDurable'
    BY <1>d, SameCopy
<1>l. ASSUME final' = final, lastEpoch' = lastEpoch, Live' => Live
      PROVE  LastIsLatest'
    BY <1>l, SameCopy DEF LastIsLatest
\* Nothing changes but what is outside the invariant.
<1>a. ASSUME UNCHANGED <<committed, pc, joined, position, delta, epoch, acc,
                         final, lastEpoch>>
      PROVE  LossInv'
    BY <1>a, <1>t, <1>l, SameCopy DEF EpochIsNewer, ShouldCheckpoint
\* The task ends.
<1>b. ASSUME final' = final, committed' = committed, pc # "confirm", EndTask
      PROVE  LossInv'
    BY <1>b, <1>d, <1>t DEF EndTask, LastIsLatest, EpochIsNewer
\* A step between "connect", "loop" and "poll".
<1>c. ASSUME UNCHANGED <<committed, joined, position, acc, final, lastEpoch>>,
             pc \in {"connect", "loop", "poll"},
             pc' \in {"loop", "poll"}
      PROVE  LossInv'
    BY <1>c, <1>d, <1>l, <1>t DEF EpochIsNewer
<1>1. ASSUME NEW p \in Partitions, Produce(p) PROVE LossInv'
    BY <1>1, <1>a DEF Produce, dirVars, consumerVars, batchVars
<1>2. CASE Join
  <2>1. /\ pc \in {"loop", "poll"} /\ pc' = pc /\ ~joined /\ joined'
        /\ position' = committed
        /\ UNCHANGED <<committed, acc, final, lastEpoch>>
    BY <1>2 DEF Join, dirVars, brokerVars
  <2>2. \A m \in WellFormed : m[2] < position'[m[1]] => Holds(acc', m)
    BY <2>1
  <2>3. NothingSkipped' /\ RestoredIsComplete'
    BY <2>1, <2>2 DEF Holds
  <2>4. CommittedIsDurable' /\ LastIsLatest'
    BY <1>d, <1>l, <2>1
  <2>5. \A p \in Partitions : committed'[p] <= position'[p]
    BY <2>1 DEF TypeInv, TypeOK
  <2> QED
    BY <1>t, <2>1, <2>3, <2>4, <2>5 DEF EpochIsNewer
<1>3. CASE Start
    BY <1>3, <1>d, <1>l, <1>t
       DEF Start, dirVars, brokerVars, consumerVars, EpochIsNewer
<1>4. CASE Stop
    BY <1>4, <1>a DEF Stop, dirVars, brokerVars, consumerVars, batchVars
<1>5. CASE Cleanup
    BY <1>5, <1>d, <1>l, <1>t
       DEF Cleanup, CleanupUncommitted, brokerVars, consumerVars, EpochIsNewer
<1>6. CASE Restore
  <2>1. /\ pc = "restore" /\ pc' = "connect" /\ ~joined
        /\ UNCHANGED <<final, committed, joined, position>>
    BY <1>6 DEF Restore, RestoreLatest, RestoreNothing, dirVars, brokerVars,
                consumerVars
  <2>2. Saved # {} => acc' = Durable /\ lastEpoch' = LatestEpoch
    BY <1>6 DEF Restore, RestoreLatest, RestoreNothing, Durable
  <2>3. LastIsLatest'
    BY <2>1, <2>2, SameCopy DEF LastIsLatest
  <2>4. RestoredIsComplete'
    BY <2>1, <2>2 DEF Holds
  <2> QED
    BY <1>d, <1>t, <2>1, <2>3, <2>4 DEF EpochIsNewer
<1>7. CASE Connect
    BY <1>7, <1>c DEF Connect, dirVars, brokerVars, consumerVars
<1>8. CASE LoopEnds
    BY <1>8, <1>b DEF LoopEnds, dirVars, brokerVars
<1>9. CASE Backpressure
    BY <1>9, <1>c DEF Backpressure, dirVars, brokerVars
<1>10. CASE PollMessages
  <2> PICK pos \in [Partitions -> 0..MaxOffset], q \in Partitions :
        LET S == Between(pos) \cap WellFormed IN
        /\ Polled(pos, q)
        /\ position' = pos
        /\ \/ delta' = S /\ pc' = "apply" /\ acc' = acc
           \/ acc' = Plus(acc, S) /\ pc' = "loop"
    BY <1>10 DEF PollMessages
  <2> DEFINE S == Between(pos) \cap WellFormed
  <2>1. /\ pc = "poll" /\ joined
        /\ UNCHANGED <<joined, committed, final, lastEpoch>>
    BY <1>10 DEF PollMessages, Polled, dirVars, brokerVars
  <2>2. ASSUME NEW m \in WellFormed, m[2] < pos[m[1]], m \notin S
        PROVE  Holds(acc, m)
    <3>1. m[2] \in Int /\ position[m[1]] \in Int /\ m \in Msgs
        BY <1>v DEF Msgs, Offsets, TypeInv, TypeOK
    <3>2. m[2] < position[m[1]]
        BY <2>2, <3>1 DEF Between
    <3> QED
        BY <2>1, <3>2 DEF Holds
  <2>3. \A m \in S : m[2] < pos[m[1]]
    BY DEF Between
  <2>4. CommittedIsDurable' /\ LastIsLatest' /\ (pc' \in {"apply", "loop"})
    BY <1>d, <1>l, <2>1
  <2>7. ASSUME NEW p \in Partitions PROVE committed[p] <= pos[p]
    <3>1. committed[p] <= position[p] /\ position[p] <= pos[p]
        BY <2>1 DEF Polled
    <3>2. committed[p] \in Int /\ position[p] \in Int /\ pos[p] \in Int
        BY DEF TypeInv, TypeOK
    <3> QED
        BY <3>1, <3>2
  <2> HIDE DEF S
  <2>5. CASE delta' = S /\ pc' = "apply" /\ acc' = acc
    BY <1>t, <2>1, <2>2, <2>3, <2>4, <2>5, <2>7 DEF Holds, EpochIsNewer
  <2>6. CASE acc' = Plus(acc, S) /\ pc' = "loop"
    <3>1. \A m \in WellFormed : m[2] < pos[m[1]] => Holds(acc', m)
        BY <1>v, <2>2, <2>6, PlusHolds
    <3> QED
        BY <1>t, <2>1, <2>4, <2>6, <2>7, <3>1 DEF Holds, EpochIsNewer
  <2> QED
    BY <2>5, <2>6 DEF S
<1>11. CASE PollNothing
    BY <1>11, <1>c DEF PollNothing, dirVars, brokerVars, consumerVars
<1>12. CASE PollFails
    BY <1>12 DEF PollFails, Fault, NoLoss
<1>13. CASE Apply
  <2>1. /\ pc = "apply" /\ pc' \in {"save", "loop"} /\ acc' = Plus(acc, delta)
        /\ UNCHANGED <<joined, position, committed, final, lastEpoch>>
    BY <1>13 DEF Apply, dirVars, brokerVars, consumerVars
  <2>2. ASSUME NEW m \in WellFormed, m[2] < position[m[1]] PROVE Holds(acc', m)
    BY <1>v, <2>1, <2>2, PlusHolds DEF Holds
  <2>3. EpochIsNewer'
    BY <1>13 DEF Apply, EpochIsNewer, ShouldCheckpoint, batchVars
  <2> QED
    BY <1>d, <1>l, <1>t, <2>1, <2>2, <2>3 DEF Holds
<1>14. CASE SavePhase
    BY <1>14, <1>d, <1>l, <1>t
       DEF SavePhase, SaveTmp, brokerVars, consumerVars, batchVars,
           EpochIsNewer, ShouldCheckpoint
<1>15. CASE SaveFails
    BY <1>15, <1>b DEF SaveFails, SaveTmpInterrupted, dirVars, brokerVars
<1>16. CASE CommitPhase
  <2>1. \A p \in Partitions : committed'[p] <= position'[p]
    BY <1>16 DEF CommitPhase, consumerVars, TypeInv, TypeOK
  <2> QED
    BY <1>16, <1>l, <1>t, <2>1
       DEF CommitPhase, dirVars, consumerVars, batchVars, EpochIsNewer,
           ShouldCheckpoint
<1>17. CASE CommitFails
    BY <1>17 DEF CommitFails, Fault, NoLoss
<1>18. CASE ConfirmPhase
  <2>1. Saved' # {} /\ LatestEpoch' = epoch /\ Durable' = acc
    BY <1>18, ConfirmedIsNewest
  <2>2. /\ pc = "confirm" /\ pc' = "loop" /\ lastEpoch' = epoch /\ joined
        /\ committed = position
        /\ UNCHANGED <<joined, position, committed, acc>>
    BY <1>18 DEF ConfirmPhase, Confirm, brokerVars, consumerVars
  <2> QED
    BY <1>t, <2>1, <2>2 DEF LastIsLatest, EpochIsNewer
<1>19. CASE ConfirmFails
    BY <1>19 DEF ConfirmFails, Fault, NoLoss
<1>20. CASE ConnectFails
    BY <1>20, <1>b DEF ConnectFails, dirVars, brokerVars
<1>21. CASE Crash
    BY <1>21, <1>b DEF Crash, Fault, NoLoss, brokerVars
<1>22. CASE UNCHANGED vars
    BY <1>22, <1>a DEF vars, dirVars, brokerVars, consumerVars, batchVars
<1>23. CASE Revoke
  <2>1. /\ pc = "poll" /\ pc' = pc /\ joined /\ ~joined'
        /\ UNCHANGED <<committed, acc, final, lastEpoch>>
    BY <1>23 DEF Revoke, dirVars, brokerVars
  <2>2. ASSUME NEW m \in WellFormed, m[2] < committed[m[1]]
        PROVE  Holds(acc, m)
    <3>1. m[1] \in Partitions /\ m[2] \in Int
        BY <1>v DEF Msgs, Offsets
    <3>2. committed[m[1]] <= position[m[1]]
        BY <2>1, <3>1
    <3>3. m[2] < position[m[1]]
        BY <2>2, <3>1, <3>2 DEF TypeInv, TypeOK
    <3> QED
        BY <2>1, <3>3 DEF Holds
  <2>3. CommittedIsDurable' /\ LastIsLatest' /\ RestoredIsComplete'
    BY <1>d, <1>l, <2>1, <2>2
  <2> QED
    BY <1>t, <2>1, <2>3 DEF EpochIsNewer
<1>24. CASE CleanupFails
    BY <1>24, <1>b DEF CleanupFails, CleanupInterrupted, brokerVars
<1>25. CASE RestoreFails
    BY <1>25, <1>b DEF RestoreFails, RestoreInterrupted, dirVars, brokerVars
<1> QED
    BY <1>1, <1>2, <1>3, <1>4, <1>5, <1>6, <1>7, <1>8, <1>9, <1>10, <1>11,
       <1>12, <1>13, <1>14, <1>15, <1>16, <1>17, <1>18, <1>19, <1>20, <1>21,
       <1>22, <1>23, <1>24, <1>25
       DEF Next, Task, Failure

LEMMA LossInvariant ==
    ASSUME NoLoss
    PROVE  Spec => []LossInv
<1>1. LossInv /\ [Next]_vars => LossInv'
    BY LossNext
<1> QED
    BY <1>1, LossInit, PTL DEF Spec

\* Outside the step between commit and rename, what the broker will not deliver
\* again is in the checkpoint a restart reads, whatever partitions the batches
\* came from: if no poll fails, and the process does not die or fail between
\* the two.
THEOREM CommittedDurable ==
    ASSUME NoLoss
    PROVE  Spec => []CommittedIsDurable
<1>1. LossInv => CommittedIsDurable
    BY DEF LossInv
<1> QED
    BY <1>1, LossInvariant, PTL

\* Under the same conditions the view misses nothing the consumer has passed,
\* through crashes, stops, restarts and replays.
THEOREM NothingIsSkipped ==
    ASSUME NoLoss
    PROVE  Spec => []NothingSkipped
<1>1. LossInv => NothingSkipped
    BY DEF LossInv
<1> QED
    BY <1>1, LossInvariant, PTL
-----------------------------------------------------------------------------
(***************************************************************************)
(* Backpressure.  The consumer that is halted is above the high watermark, *)
(* and nothing it does while it is halted changes the view: it can only    *)
(* poll nothing, so the depth never falls below the low watermark.         *)
(***************************************************************************)
LEMMA MsgsFinite == IsFiniteSet(Msgs)
<1>1. IsFiniteSet(Offsets)
    BY KafkaAssumption, FS_Interval DEF Offsets
<1> QED
    BY <1>1, KafkaAssumption, FS_Product DEF Msgs

LEMMA RowsFinite ==
    ASSUME NEW v
    PROVE  IsFiniteSet(Rows(v)) /\ Cardinality(Rows(v)) \in Nat
<1>1. Rows(v) \in SUBSET Msgs
    BY DEF Rows, Inserts, WellFormed
<1> QED
    BY <1>1, MsgsFinite, FS_Subset, FS_CardinalityType

Stalled ==
    /\ halted => joined /\ paused /\ pc \in {"loop", "poll"}
    /\ halted => Depth > HighWatermark

LEMMA StalledNext == Stalled /\ [Next]_vars => Stalled'
<1> SUFFICES ASSUME Stalled, [Next]_vars PROVE Stalled'
    OBVIOUS
<1> USE DEF Stalled, brokerVars, consumerVars, batchVars, dirVars
<1>a. acc' = acc => Depth' = Depth
    BY DEF Depth, Rows, Removed
<1>b. EndTask => Stalled'
    BY DEF EndTask
<1>1. ASSUME NEW p \in Partitions, Produce(p) PROVE Stalled'
    BY <1>1, <1>a DEF Produce
<1>2. CASE Join
    BY <1>2, <1>a DEF Join
<1>3. CASE Start
    BY <1>3, <1>a DEF Start
<1>4. CASE Stop
    BY <1>4, <1>a DEF Stop
<1>5. CASE Cleanup
    BY <1>5, <1>a DEF Cleanup
<1>6. CASE Restore
    BY <1>6 DEF Restore
<1>7. CASE Connect
    BY <1>7 DEF Connect
<1>8. CASE LoopEnds
    BY <1>8, <1>b DEF LoopEnds
<1>9. CASE Backpressure
  <2>1. Depth \in Nat /\ Depth' = Depth
    BY <1>9, <1>a, RowsFinite DEF Backpressure, Depth
  <2> QED
    BY <1>9, <2>1, KafkaAssumption
       DEF Backpressure, PauseRequest, PauseFails, ResumeRequest, ResumeFails,
           NoRequest, MustPause, MayResume
<1>10. CASE PollMessages
    BY <1>10 DEF PollMessages, Polled
<1>11. CASE PollNothing
    BY <1>11, <1>a DEF PollNothing
<1>12. CASE PollFails
    BY <1>12, <1>a DEF PollFails
<1>13. CASE Apply
    BY <1>13 DEF Apply
<1>14. CASE SavePhase
    BY <1>14 DEF SavePhase
<1>15. CASE SaveFails
    BY <1>15, <1>b DEF SaveFails
<1>16. CASE CommitPhase
    BY <1>16 DEF CommitPhase
<1>17. CASE CommitFails
    BY <1>17, <1>b DEF CommitFails
<1>18. CASE ConfirmPhase
    BY <1>18 DEF ConfirmPhase
<1>19. CASE ConfirmFails
    BY <1>19, <1>b DEF ConfirmFails
<1>20. CASE ConnectFails
    BY <1>20, <1>b DEF ConnectFails
<1>21. CASE Crash
    BY <1>21, <1>b DEF Crash
<1>22. CASE UNCHANGED vars
    BY <1>22, <1>a DEF vars
<1>23. CASE Revoke
    BY <1>23 DEF Revoke
<1>24. CASE CleanupFails
    BY <1>24, <1>b DEF CleanupFails
<1>25. CASE RestoreFails
    BY <1>25, <1>b DEF RestoreFails
<1> QED
    BY <1>1, <1>2, <1>3, <1>4, <1>5, <1>6, <1>7, <1>8, <1>9, <1>10, <1>11,
       <1>12, <1>13, <1>14, <1>15, <1>16, <1>17, <1>18, <1>19, <1>20, <1>21,
       <1>22, <1>23, <1>24, <1>25
       DEF Next, Task, Failure

LEMMA StalledStays ==
    ASSUME Stalled, [Next]_vars, halted, joined'
    PROVE  halted'
<1> USE DEF Stalled, consumerVars
<1>1. CASE Backpressure
  <2>1. Depth \in Nat
    BY RowsFinite DEF Depth
  <2>2. paused /\ ~(Depth < LowWatermark)
    BY <2>1, KafkaAssumption
  <2> QED
    BY <1>1, <2>2
       DEF Backpressure, PauseRequest, PauseFails, ResumeRequest, ResumeFails,
           NoRequest, MustPause, MayResume
<1>2. CASE PollMessages
    BY <1>2 DEF PollMessages, Polled
<1>3. CASE Failure
    BY <1>3
       DEF Failure, CleanupFails, RestoreFails, ConnectFails, PollFails,
           SaveFails, CommitFails, ConfirmFails, Crash, EndTask
<1>4. CASE Revoke
    BY <1>4 DEF Revoke
<1>5. CASE /\ [Next]_vars /\ ~Backpressure /\ ~PollMessages /\ ~Failure
           /\ ~Revoke
    BY <1>5
       DEF Next, Task, Produce, Join, Start, Stop, Cleanup, Restore, Connect,
           LoopEnds, EndTask, PollNothing, Apply, SavePhase, CommitPhase,
           ConfirmPhase, vars
<1> QED
    BY <1>1, <1>2, <1>3, <1>4, <1>5

\* A consumer that is halted stays halted until its task ends or the group takes
\* its partitions away, whatever else happens in the system: the low watermark
\* that should resume it is never reached, because the view shrinks only by what
\* the consumer delivers.
THEOREM HaltedForLife == Spec => HaltIsForLife
<1>1. Init => Stalled
    BY DEF Init, Stalled
<1>2. Stalled /\ [Next]_vars => [halted /\ joined' => halted']_vars
    BY StalledStays
<1> QED
    BY <1>1, <1>2, StalledNext, PTL DEF Spec, HaltIsForLife

(***************************************************************************)
(* The bound.  A message that is applied once more touches at most two     *)
(* rows: the one it inserts, and the one it deletes.                       *)
(***************************************************************************)
Touched(S) == {m \in Inserts :
                    m \in S \/ \E d \in DOMAIN Removal : d \in S /\ Removal[d] = m}

LEMMA TouchedBound ==
    ASSUME NEW S \in SUBSET Msgs
    PROVE  /\ IsFiniteSet(Touched(S))
           /\ Cardinality(Touched(S)) <= 2 * Cardinality(S)
<1> DEFINE D == S \cap DOMAIN Removal
           deleted == [d \in D |-> Removal[d]]
           Deleted == {deleted[d] : d \in D}
           Both == S \cup Deleted
<1>1. IsFiniteSet(S) /\ D \in SUBSET S
    BY MsgsFinite, FS_Subset
<1>2. IsFiniteSet(D) /\ Cardinality(D) <= Cardinality(S)
    BY <1>1, FS_Subset
<1>3. deleted \in Surjection(D, Deleted)
    BY DEF Surjection
<1>4. IsFiniteSet(Deleted) /\ Cardinality(Deleted) <= Cardinality(D)
    BY <1>2, <1>3, FS_Surjection
<1>5. /\ IsFiniteSet(Both) /\ IsFiniteSet(S \cap Deleted)
      /\ Cardinality(Both) = Cardinality(S) + Cardinality(Deleted)
                                - Cardinality(S \cap Deleted)
    BY <1>1, <1>4, FS_Union, FS_Intersection
<1>6. Touched(S) \in SUBSET Both
    BY DEF Touched
<1>7. IsFiniteSet(Touched(S)) /\ Cardinality(Touched(S)) <= Cardinality(Both)
    BY <1>5, <1>6, FS_Subset
<1>8. /\ Cardinality(S) \in Nat /\ Cardinality(D) \in Nat
      /\ Cardinality(Deleted) \in Nat /\ Cardinality(S \cap Deleted) \in Nat
      /\ Cardinality(Both) \in Nat /\ Cardinality(Touched(S)) \in Nat
    BY <1>1, <1>2, <1>4, <1>5, <1>7, FS_CardinalityType
<1> HIDE DEF D, deleted, Deleted, Both
<1> QED
    BY <1>2, <1>4, <1>5, <1>7, <1>8

LEMMA RowsOfPlus ==
    ASSUME NEW v \in Views, NEW S \in SUBSET Msgs
    PROVE  Rows(Plus(v, S)) \subseteq Rows(v) \cup Touched(S)
<1> SUFFICES ASSUME NEW m \in Rows(Plus(v, S)), m \notin Touched(S)
             PROVE  m \in Rows(v)
    OBVIOUS
<1>1. /\ m \in Msgs /\ m \in Inserts
      /\ Plus(v, S)[m] # Removed(Plus(v, S), m)
    BY DEF Rows, Inserts, WellFormed
<1>2. Plus(v, S)[m] = v[m]
    BY <1>1 DEF Plus, Touched
<1>3. Removed(Plus(v, S), m) = Removed(v, m)
  <2> DEFINE d == CHOOSE d \in DOMAIN Removal : Removal[d] = m
  <2>1. CASE \E e \in DOMAIN Removal : Removal[e] = m
    <3>1. d \in DOMAIN Removal /\ Removal[d] = m
        BY <2>1
    <3>2. d \in Msgs /\ d \notin S
        BY <1>1, <3>1, KafkaAssumption DEF Touched
    <3>3. Plus(v, S)[d] = v[d]
        BY <3>2 DEF Plus
    <3> QED
        BY <2>1, <3>3 DEF Removed
  <2>2. CASE ~\E e \in DOMAIN Removal : Removal[e] = m
    BY <2>2 DEF Removed
  <2> QED
    BY <2>1, <2>2
<1> QED
    BY <1>1, <1>2, <1>3 DEF Rows

\* Applying a set of messages adds at most two rows for each.
LEMMA DepthOfPlus ==
    ASSUME NEW v \in Views, NEW S \in SUBSET Msgs
    PROVE  Cardinality(Rows(Plus(v, S))) <= Cardinality(Rows(v)) + 2 * Cardinality(S)
<1> DEFINE U == Rows(v) \cup Touched(S)
<1>1. /\ IsFiniteSet(Rows(v)) /\ Cardinality(Rows(v)) \in Nat
      /\ Cardinality(Rows(Plus(v, S))) \in Nat
    BY RowsFinite
<1>2. /\ IsFiniteSet(Touched(S))
      /\ Cardinality(Touched(S)) <= 2 * Cardinality(S)
    BY TouchedBound
<1>3. IsFiniteSet(S) /\ Cardinality(S) \in Nat /\ Cardinality(Touched(S)) \in Nat
    BY <1>2, MsgsFinite, FS_Subset, FS_CardinalityType
<1>4. /\ IsFiniteSet(U) /\ IsFiniteSet(Rows(v) \cap Touched(S))
      /\ Cardinality(U) = Cardinality(Rows(v)) + Cardinality(Touched(S))
                            - Cardinality(Rows(v) \cap Touched(S))
    BY <1>1, <1>2, FS_Union, FS_Intersection
<1>5. Cardinality(Rows(v) \cap Touched(S)) \in Nat /\ Cardinality(U) \in Nat
    BY <1>4, FS_CardinalityType
<1>6. Rows(Plus(v, S)) \in SUBSET U
    BY RowsOfPlus
<1>7. Cardinality(Rows(Plus(v, S))) <= Cardinality(U)
    BY <1>4, <1>6, FS_Subset
<1> HIDE DEF U
<1> QED
    BY <1>1, <1>2, <1>3, <1>4, <1>5, <1>7

(***************************************************************************)
(* While the loop's flag never says more than is so, a consumer that may   *)
(* deliver was let through with a view that is not above the high          *)
(* watermark.  The bound of the view is one of the checkpoints as well,    *)
(* because a restart goes on from one.                                     *)
(***************************************************************************)
PausesHold == paused => halted

MaxDepth == HighWatermark + 2 * MaxPoll

CopiesAreBounded ==
    \A e \in Epochs : final[e] # NoFile => Cardinality(Rows(final[e])) <= MaxDepth

BoundInv ==
    /\ TypeInv
    /\ joined => pc \notin {"idle", "cleanup", "restore", "connect"}
    /\ Stalled
    /\ pc = "poll" /\ ~halted => Depth <= HighWatermark
    /\ pc = "apply" => Depth <= HighWatermark /\ Cardinality(delta) <= MaxPoll
    /\ Depth <= MaxDepth
    /\ CopiesAreBounded

LEMMA BoundNext ==
    ASSUME BoundInv, PausesHold, PausesHold', [Next]_vars
    PROVE  BoundInv'
<1>t. TypeInv' /\ Stalled'
    BY TypeNext, StalledNext DEF BoundInv
<1>n. /\ HighWatermark \in Nat /\ MaxPoll \in Nat
      /\ Depth \in Nat /\ Depth' \in Nat
    BY KafkaAssumption, RowsFinite DEF Depth
<1>s. halted => joined /\ paused /\ pc \in {"loop", "poll"}
    BY DEF BoundInv, Stalled
<1> USE DEF BoundInv, PausesHold, MaxDepth, brokerVars, consumerVars, batchVars,
            dirVars
<1>a. acc' = acc => Depth' = Depth
    BY DEF Depth, Rows, Removed
<1>f. final' = final => CopiesAreBounded'
    BY DEF CopiesAreBounded
<1>b. EndTask /\ final' = final /\ (acc' = acc \/ acc' = Zero) => BoundInv'
  <2>1. Cardinality(Rows(Zero)) = 0
    <3>1. Rows(Zero) = {}
        BY KafkaAssumption DEF Rows, Zero, Removed, Inserts, WellFormed
    <3> QED
        BY <3>1, FS_EmptySet
  <2>2. acc' = Zero => Depth' = 0
    BY <2>1 DEF Depth, Rows, Removed
  <2> QED
    BY <1>a, <1>f, <1>n, <1>s, <1>t, <2>2 DEF EndTask
<1>1. ASSUME NEW p \in Partitions, Produce(p) PROVE BoundInv'
    BY <1>1, <1>a, <1>f, <1>s, <1>t DEF Produce
<1>2. CASE Join
    BY <1>2, <1>a, <1>f, <1>s, <1>t DEF Join
<1>3. CASE Start
    BY <1>3, <1>a, <1>f, <1>s, <1>t DEF Start
<1>4. CASE Stop
    BY <1>4, <1>a, <1>f, <1>s, <1>t DEF Stop
<1>5. CASE Cleanup
    BY <1>5, <1>a, <1>f, <1>s, <1>t DEF Cleanup, CleanupUncommitted
<1>6. CASE Restore
  <2>1. /\ pc = "restore" /\ pc' = "connect" /\ final' = final
        /\ UNCHANGED <<joined, halted, paused>>
    BY <1>6 DEF Restore, RestoreLatest, RestoreNothing
  <2>2. CASE RestoreLatest /\ acc' = final[LatestEpoch]
    <3>1. LatestEpoch \in Epochs /\ final[LatestEpoch] # NoFile
        BY <2>2, LatestIsView, FilesAssumption DEF RestoreLatest
    <3>2. Cardinality(Rows(final[LatestEpoch])) <= MaxDepth
        BY <3>1 DEF CopiesAreBounded
    <3>3. Depth' <= MaxDepth
        BY <2>2, <3>2 DEF Depth, Rows, Removed
    <3> QED
        BY <1>f, <1>n, <1>s, <1>t, <2>1, <3>3
  <2>3. CASE acc' = acc
    BY <1>a, <1>f, <1>s, <1>t, <2>1, <2>3
  <2> QED
    BY <1>6, <2>2, <2>3 DEF Restore
<1>7. CASE Connect
    BY <1>7, <1>a, <1>f, <1>s, <1>t DEF Connect
<1>8. CASE LoopEnds
    BY <1>8, <1>b DEF LoopEnds
<1>9. CASE Backpressure
  <2>1. /\ pc = "loop" /\ pc' = "poll" /\ joined' = joined
        /\ UNCHANGED <<acc, final>>
    BY <1>9 DEF Backpressure
  <2>2. ~halted' => Depth <= HighWatermark
    <3>1. CASE MustPause
        BY <1>9, <3>1
           DEF Backpressure, PauseRequest, PauseFails, ResumeRequest,
               ResumeFails, NoRequest, MustPause, MayResume
    <3>2. CASE MayResume
        BY <1>n, <3>2, KafkaAssumption DEF MayResume
    <3>3. CASE NoRequest
        BY <1>n, <3>3 DEF NoRequest, MustPause
    <3> QED
        BY <1>9, <3>1, <3>2, <3>3
           DEF Backpressure, PauseRequest, PauseFails, ResumeRequest,
               ResumeFails
  <2> QED
    BY <1>a, <1>f, <1>n, <1>t, <2>1, <2>2
<1>10. CASE PollMessages
  <2> PICK pos \in [Partitions -> 0..MaxOffset], q \in Partitions :
        LET S == Between(pos) \cap WellFormed IN
        /\ Polled(pos, q)
        /\ Cardinality(Between(pos)) <= MaxPoll
        /\ \/ delta' = S /\ pc' = "apply" /\ acc' = acc
           \/ acc' = Plus(acc, S) /\ pc' = "loop"
    BY <1>10 DEF PollMessages
  <2> DEFINE S == Between(pos) \cap WellFormed
  <2>1. /\ pc = "poll" /\ ~halted /\ final' = final
        /\ UNCHANGED <<joined, halted, paused>>
    BY <1>10 DEF PollMessages, Polled
  <2>2. Between(pos) \in SUBSET Msgs /\ S \in SUBSET Between(pos)
    BY DEF Between
  <2>3. IsFiniteSet(Between(pos))
    BY <2>2, MsgsFinite, FS_Subset
  <2>4. /\ Cardinality(S) \in Nat /\ Cardinality(Between(pos)) \in Nat
        /\ Cardinality(S) <= Cardinality(Between(pos))
    BY <2>2, <2>3, FS_Subset, FS_CardinalityType
  <2>5. Cardinality(S) <= MaxPoll
    BY <1>n, <2>4
  <2>6. Depth' <= Depth + 2 * Cardinality(S) \/ acc' = acc
    BY <2>2, DepthOfPlus DEF Depth, TypeInv, TypeOK
  <2> HIDE DEF S
  <2>7. \/ delta' = S /\ pc' = "apply" /\ acc' = acc
        \/ acc' = Plus(acc, S) /\ pc' = "loop"
    BY DEF S
  <2> QED
    BY <1>a, <1>f, <1>n, <1>s, <1>t, <2>1, <2>4, <2>5, <2>6, <2>7
<1>11. CASE PollNothing
    BY <1>11, <1>a, <1>f, <1>s, <1>t DEF PollNothing
<1>12. CASE PollFails
    BY <1>12, <1>a, <1>f, <1>s, <1>t DEF PollFails
<1>13. CASE Apply
  <2>1. delta \in SUBSET Msgs /\ IsFiniteSet(delta)
    BY MsgsFinite, FS_Subset DEF TypeInv, TypeOK, WellFormed
  <2>2. Cardinality(delta) \in Nat
    BY <2>1, FS_CardinalityType
  <2>3. Depth' <= Depth + 2 * Cardinality(delta)
    BY <1>13, <2>1, DepthOfPlus DEF Apply, Depth, TypeInv, TypeOK
  <2> QED
    BY <1>13, <1>f, <1>n, <1>s, <1>t, <2>2, <2>3 DEF Apply
<1>14. CASE SavePhase
    BY <1>14, <1>a, <1>f, <1>s, <1>t DEF SavePhase, SaveTmp
<1>15. CASE SaveFails
    BY <1>15, <1>b DEF SaveFails, SaveTmpInterrupted
<1>16. CASE CommitPhase
    BY <1>16, <1>a, <1>f, <1>s, <1>t DEF CommitPhase
<1>17. CASE CommitFails
    BY <1>17, <1>b DEF CommitFails
<1>18. CASE ConfirmPhase
  <2>1. tmp[epoch] = acc /\ final' = [final EXCEPT ![epoch] = acc]
    BY <1>18 DEF ConfirmPhase, Confirm, TypeInv, SavedView
  <2>2. CopiesAreBounded'
    BY <2>1 DEF CopiesAreBounded, Depth, Rows, Removed, TypeInv, TypeOK
  <2> QED
    BY <1>18, <1>a, <1>s, <1>t, <2>2 DEF ConfirmPhase
<1>19. CASE ConfirmFails
    BY <1>19, <1>b DEF ConfirmFails
<1>20. CASE ConnectFails
    BY <1>20, <1>b DEF ConnectFails
<1>21. CASE Crash
    BY <1>21, <1>b DEF Crash
<1>22. CASE UNCHANGED vars
    BY <1>22, <1>a, <1>f, <1>s, <1>t DEF vars
<1>23. CASE Revoke
    BY <1>23, <1>a, <1>f, <1>s, <1>t DEF Revoke
<1>24. CASE CleanupFails
    BY <1>24, <1>b DEF CleanupFails, CleanupInterrupted
<1>25. CASE RestoreFails
    BY <1>25, <1>b DEF RestoreFails, RestoreInterrupted
<1> QED
    BY <1>1, <1>2, <1>3, <1>4, <1>5, <1>6, <1>7, <1>8, <1>9, <1>10, <1>11,
       <1>12, <1>13, <1>14, <1>15, <1>16, <1>17, <1>18, <1>19, <1>20, <1>21,
       <1>22, <1>23, <1>24, <1>25
       DEF Next, Task, Failure

\* The view is never larger than the high watermark and what one poll can add to
\* it, two rows per message, in every behaviour in which no pause fails, comes
\* too early or is undone by a rebalance: for any watermarks, poll size, other
\* faults, and any mixture of inserts, deletes and updates.
THEOREM ViewIsBounded == Spec => BackpressureBoundsView
<1>1. Init => BoundInv
  <2> SUFFICES ASSUME Init PROVE BoundInv
    OBVIOUS
  <2>1. Rows(acc) = {}
    BY KafkaAssumption DEF Init, Rows, Zero, Removed, Inserts, WellFormed
  <2>2. Depth = 0
    BY <2>1, FS_EmptySet DEF Depth
  <2>3. CopiesAreBounded
    BY DEF Init, CopiesAreBounded, EmptyDir
  <2>4. HighWatermark \in Nat /\ MaxPoll \in Nat
    BY KafkaAssumption
  <2> QED
    BY <2>2, <2>3, <2>4, TypeInit DEF Init, BoundInv, MaxDepth, Stalled
<1>2. BoundInv /\ PausesHold /\ PausesHold' /\ [Next]_vars => BoundInv'
    BY BoundNext
<1>3. BoundInv => Depth <= HighWatermark + 2 * MaxPoll
    BY DEF BoundInv, MaxDepth
<1>4. PausesHold <=> (paused => halted)
    BY DEF PausesHold
<1> QED
    BY <1>1, <1>2, <1>3, <1>4, PTL DEF Spec, BackpressureBoundsView
=============================================================================
