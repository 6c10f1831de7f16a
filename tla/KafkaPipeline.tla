--------------------------- MODULE KafkaPipeline ---------------------------
(***************************************************************************)
(* One pipeline fed by a Kafka topic: PipelineScheduler::start and         *)
(* run_kafka_loop (crates/runtime/src/scheduler.rs), the KafkaCdcConnector *)
(* they drive (crates/connectors/kafka_cdc/src), and the checkpoint        *)
(* directory of CheckpointManager.                                         *)
(*                                                                         *)
(* The scheduler's task is sequential; pc names the await it is about to   *)
(* execute.  Between two of its steps messages arrive, an operator stops   *)
(* the pipeline, the consumer group hands over its partitions or takes     *)
(* them away, and the process may die.  A change is a message; the view    *)
(* counts, per message, how often the message has been applied (what       *)
(* operators make of it is the business of ViewMaintenance).               *)
(*                                                                         *)
(* One task per pipeline: Start is taken when the previous task has ended. *)
(***************************************************************************)
EXTENDS CheckpointManager, FiniteSets

CONSTANTS
    Partitions,         \* partitions of the topic
    MaxOffset,          \* bound: messages produced per partition
    Malformed,          \* messages without effect: dead letters, unknown ops
    Removal,            \* Removal[d]: the message whose row message d deletes
    Updates,            \* the messages of these that insert a row as well
    MaxPoll,            \* max_messages of poll_batch
    CheckpointInterval, \* checkpoint_interval_epochs
    HighWatermark,      \* queue depth above which the consumer is paused
    LowWatermark,       \* queue depth below which it is resumed
    Faults,             \* kinds of faults that may happen in a run
    MaxFaults           \* bound: number of faults in a run

Offsets == 0..(MaxOffset - 1)
Msgs == Partitions \X Offsets

ASSUME KafkaAssumption ==
    /\ IsFiniteSet(Partitions)
    /\ MaxOffset \in Nat \ {0}
    /\ Epochs = Offsets
    /\ Malformed \subseteq Msgs
    /\ DOMAIN Removal \subseteq Msgs \ Malformed
    /\ \A d, e \in DOMAIN Removal : Removal[d] = Removal[e] => d = e
    /\ Updates \subseteq DOMAIN Removal
    /\ MaxPoll \in Nat /\ CheckpointInterval \in Nat /\ MaxFaults \in Nat
    /\ HighWatermark \in Nat /\ LowWatermark \in Nat
    /\ LowWatermark <= HighWatermark

WellFormed == Msgs \ Malformed

Views == [Msgs -> Nat]
Zero == [m \in Msgs |-> 0]

\* view with the messages of S applied once more.
Plus(view, S) == [m \in Msgs |-> IF m \in S THEN view[m] + 1 ELSE view[m]]

(***************************************************************************)
(* The rows of the Z-set a view stands for.  A message inserts a row of    *)
(* its own (op "c"), deletes the row of another (op "d"), or does both (op *)
(* "u"); a row is present if its weight is not zero, a negative one too.   *)
(***************************************************************************)
Removed(view, m) ==
    IF \E d \in DOMAIN Removal : Removal[d] = m
       THEN view[CHOOSE d \in DOMAIN Removal : Removal[d] = m]
       ELSE 0

Inserts == WellFormed \ (DOMAIN Removal \ Updates)

Rows(view) == {m \in Inserts : view[m] # Removed(view, m)}

\* delta.is_empty() for the delta of the messages in S.
EmptyDelta(S) == Rows(Plus(Zero, S)) = {}

ASSUME FilesAssumption ==
    /\ NoFile \notin Views
    /\ Torn \notin Views
    /\ NoFile # Torn

VARIABLES
    log,        \* log[p]: messages produced to partition p
    committed,  \* committed[p]: offset the group has committed
    running,    \* the scheduler's running flag
    pc,         \* the step the scheduler's task is about to take
    joined,     \* the consumer has been assigned its partitions
    halted,     \* the consumer's assignment is paused
    paused,     \* the loop's local variable of that name
    position,   \* position[p]: next offset the consumer reads
    delta,      \* the messages of the batch in flight
    epoch,      \* its epoch: the offset of the message read last
    acc,        \* pipeline.accumulated
    faults      \* faults so far

brokerVars == <<log, committed>>
consumerVars == <<joined, halted, position>>
batchVars == <<delta, epoch>>
vars == <<brokerVars, running, pc, consumerVars, paused, batchVars, acc,
          dirVars, lastEpoch, faults>>

PCs == {"idle", "cleanup", "restore", "connect", "loop", "poll", "apply",
        "save", "commit", "confirm"}

NoOffsets == [p \in Partitions |-> 0]

\* queue_depth: pipeline.accumulated.len().
Depth == Cardinality(Rows(acc))

Init ==
    /\ log = NoOffsets
    /\ committed = NoOffsets
    /\ running = FALSE
    /\ pc = "idle"
    /\ joined = FALSE /\ halted = FALSE /\ paused = FALSE
    /\ position = NoOffsets
    /\ delta = {} /\ epoch = 0
    /\ acc = Zero
    /\ final = EmptyDir /\ tmp = EmptyDir /\ lastEpoch = 0
    /\ faults = 0

-----------------------------------------------------------------------------
\* The broker.

Produce(p) ==
    /\ log[p] < MaxOffset
    /\ log' = [log EXCEPT ![p] = @ + 1]
    /\ UNCHANGED <<committed, running, pc, consumerVars, paused, batchVars,
                   acc, dirVars, lastEpoch, faults>>

JoinAtEnd ==
    /\ pc \in {"loop", "poll"}
    /\ ~joined
    /\ joined' = TRUE
    /\ position' = [p \in Partitions |->
                        IF committed[p] = 0 THEN log[p] ELSE committed[p]]
    /\ UNCHANGED <<brokerVars, running, pc, halted, paused, batchVars, acc,
                   dirVars, lastEpoch, faults>>

\* The group assigns the consumer its partitions, which are not paused:
\* auto.offset.reset = earliest makes one without a committed offset start at 0.
Join ==
    /\ pc \in {"loop", "poll"}
    /\ ~joined
    /\ joined' = TRUE
    /\ position' = committed
    /\ UNCHANGED <<brokerVars, running, pc, halted, paused, batchVars, acc,
                   dirVars, lastEpoch, faults>>

Fault(kind) ==
    /\ kind \in Faults
    /\ faults < MaxFaults
    /\ faults' = faults + 1

\* The group takes the partitions away again (its session timed out, a member
\* came or went), which the consumer learns while it is polled.  The loop is
\* not told: its view and its flag stay as they are.
Revoke ==
    /\ pc = "poll"
    /\ joined
    /\ Fault("rebalance")
    /\ joined' = FALSE /\ halted' = FALSE
    /\ position' = NoOffsets
    /\ UNCHANGED <<brokerVars, running, pc, paused, batchVars, acc, dirVars,
                   lastEpoch>>

-----------------------------------------------------------------------------
(***************************************************************************)
(* Coming up.                                                              *)
(***************************************************************************)

\* What the task leaves behind when start() returns, with or without an
\* error: the consumer and the locals are dropped, running is not reset.
EndTask ==
    /\ pc' = "idle"
    /\ joined' = FALSE /\ halted' = FALSE /\ paused' = FALSE
    /\ position' = NoOffsets
    /\ delta' = {} /\ epoch' = 0

\* The API handler starts a pipeline whose status is not Running.
Start ==
    /\ pc = "idle"
    /\ ~running
    /\ running' = TRUE
    /\ pc' = "cleanup"
    /\ UNCHANGED <<brokerVars, consumerVars, paused, batchVars, acc, dirVars,
                   lastEpoch, faults>>

Cleanup ==
    /\ pc = "cleanup"
    /\ CleanupUncommitted
    /\ pc' = "restore"
    /\ UNCHANGED <<brokerVars, running, consumerVars, paused, batchVars, acc,
                   lastEpoch, faults>>

CleanupFails ==
    /\ pc = "cleanup"
    /\ Fault("cleanup")
    /\ CleanupInterrupted
    /\ EndTask
    /\ UNCHANGED <<brokerVars, running, acc, lastEpoch>>

RestoreKeepsView ==
    /\ pc = "restore"
    /\ RestoreLatest \/ RestoreNothing
    /\ acc' = acc
    /\ pc' = "connect"
    /\ UNCHANGED <<brokerVars, running, consumerVars, paused, batchVars,
                   faults>>
Restore ==
    /\ pc = "restore"
    /\ \/ RestoreLatest /\ acc' = final[LatestEpoch]
       \/ RestoreNothing /\ UNCHANGED acc
    /\ pc' = "connect"
    /\ UNCHANGED <<brokerVars, running, consumerVars, paused, batchVars,
                   faults>>

RestoreFails ==
    /\ pc = "restore"
    /\ Fault("restore")
    /\ RestoreInterrupted
    /\ EndTask
    /\ UNCHANGED <<brokerVars, running, acc>>

Connect ==
    /\ pc = "connect"
    /\ pc' = "loop"
    /\ UNCHANGED <<brokerVars, running, consumerVars, paused, batchVars, acc,
                   dirVars, lastEpoch, faults>>

ConnectFails ==
    /\ pc = "connect"
    /\ Fault("connect")
    /\ EndTask
    /\ UNCHANGED <<brokerVars, running, acc, dirVars, lastEpoch>>

-----------------------------------------------------------------------------
(***************************************************************************)
(* The loop of run_kafka_loop.                                             *)
(***************************************************************************)

LoopEnds ==
    /\ pc = "loop"
    /\ ~running
    /\ EndTask
    /\ UNCHANGED <<brokerVars, running, acc, dirVars, lastEpoch, faults>>

\* pause() and resume() act on the partitions assigned at that moment.  The
\* loop discards their errors: its flag follows the intent, so it may say
\* "paused" of a consumer that goes on delivering.
MustPause == ~paused /\ Depth > HighWatermark
ResumeAtHighWatermark == paused /\ Depth <= HighWatermark + 1
ResumeAlways == paused
MayResume == paused /\ Depth < LowWatermark

PauseRequest ==
    /\ MustPause
    /\ paused' = TRUE /\ halted' = joined
    /\ UNCHANGED faults
PauseFails ==
    /\ MustPause
    /\ Fault("pause")
    /\ paused' = TRUE /\ UNCHANGED halted
ResumeRequest ==
    /\ MayResume
    /\ paused' = FALSE /\ halted' = FALSE
    /\ UNCHANGED faults
ResumeFails ==
    /\ MayResume
    /\ Fault("pause")
    /\ paused' = FALSE /\ UNCHANGED halted
NoRequest ==
    /\ ~MustPause /\ ~MayResume
    /\ UNCHANGED <<paused, halted, faults>>

Backpressure ==
    /\ pc = "loop"
    /\ running
    /\ \/ PauseRequest \/ PauseFails
       \/ ResumeRequest \/ ResumeFails
       \/ NoRequest
    /\ pc' = "poll"
    /\ UNCHANGED <<brokerVars, running, joined, position, batchVars, acc,
                   dirVars, lastEpoch>>

\* A poll moved the consumer from position to pos and read q's last message
\* last.
Polled(pos, q) ==
    /\ joined /\ ~halted
    /\ \A p \in Partitions : position[p] <= pos[p] /\ pos[p] <= log[p]
    /\ position[q] < pos[q]

Between(pos) == {m \in Msgs : position[m[1]] <= m[2] /\ m[2] < pos[m[1]]}

\* poll_batch returns messages.  A batch whose delta is empty (nothing well
\* formed, or inserts and deletes that cancel out) is not processed; the view
\* counts its messages as applied, which leaves every row's weight as it is.
PollMessages ==
    /\ pc = "poll"
    /\ \E pos \in [Partitions -> 0..MaxOffset], q \in Partitions :
        LET S == Between(pos) \cap WellFormed IN
        /\ Polled(pos, q)
        /\ Cardinality(Between(pos)) <= MaxPoll
        /\ position' = pos
        /\ \/ /\ ~EmptyDelta(S)
              /\ delta' = S
              /\ epoch' = pos[q] - 1
              /\ pc' = "apply"
              /\ UNCHANGED acc
           \/ /\ EmptyDelta(S)
              /\ acc' = Plus(acc, S)
              /\ pc' = "loop"
              /\ UNCHANGED batchVars
    /\ UNCHANGED <<brokerVars, running, joined, halted, paused, dirVars,
                   lastEpoch, faults>>

\* No message within the timeout: an empty batch.
PollNothing ==
    /\ pc = "poll"
    /\ pc' = "loop"
    /\ UNCHANGED <<brokerVars, running, consumerVars, paused, batchVars, acc,
                   dirVars, lastEpoch, faults>>

\* The stream yields an error: poll_batch returns it and drops what it had
\* read; the loop logs it and goes on.
PollFails ==
    /\ pc = "poll"
    /\ Fault("poll")
    /\ \/ UNCHANGED position
       \/ \E pos \in [Partitions -> 0..MaxOffset], q \in Partitions :
            /\ Polled(pos, q)
            /\ Cardinality(Between(pos)) < MaxPoll
            /\ position' = pos
    /\ pc' = "loop"
    /\ UNCHANGED <<brokerVars, running, joined, halted, paused, batchVars,
                   acc, dirVars, lastEpoch>>

\* process_batch up to the decision to checkpoint.
ApplyOverwrites ==
    /\ pc = "apply"
    /\ acc' = Plus(Zero, delta)
    /\ IF ShouldCheckpoint(epoch, CheckpointInterval)
          THEN pc' = "save" /\ UNCHANGED batchVars
          ELSE pc' = "loop" /\ delta' = {} /\ epoch' = 0
    /\ UNCHANGED <<brokerVars, running, consumerVars, paused, dirVars,
                   lastEpoch, faults>>
Apply ==
    /\ pc = "apply"
    /\ acc' = Plus(acc, delta)
    /\ IF ShouldCheckpoint(epoch, CheckpointInterval)
          THEN pc' = "save" /\ UNCHANGED batchVars
          ELSE pc' = "loop" /\ delta' = {} /\ epoch' = 0
    /\ UNCHANGED <<brokerVars, running, consumerVars, paused, dirVars,
                   lastEpoch, faults>>

-----------------------------------------------------------------------------
(***************************************************************************)
(* The two-phase checkpoint of process_batch: write the .tmp file, commit  *)
(* the offsets of the group, rename.  An error in any of them is returned  *)
(* through the loop and ends the task.                                     *)
(***************************************************************************)

SavePhase ==
    /\ pc = "save"
    /\ SaveTmp(acc, epoch)
    /\ pc' = "commit"
    /\ UNCHANGED <<brokerVars, running, consumerVars, paused, batchVars, acc,
                   faults>>

SaveFails ==
    /\ pc = "save"
    /\ Fault("save")
    /\ \/ UNCHANGED <<dirVars, lastEpoch>>
       \/ SaveTmpInterrupted(epoch)
    /\ EndTask
    /\ UNCHANGED <<brokerVars, running, acc>>

\* commit_consumer_state commits the offsets of everything handed out.
CommitNothing ==
    /\ pc = "commit"
    /\ UNCHANGED committed
    /\ pc' = "confirm"
    /\ UNCHANGED <<log, running, consumerVars, paused, batchVars, acc,
                   dirVars, lastEpoch, faults>>
CommitPhase ==
    /\ pc = "commit"
    /\ committed' = position
    /\ pc' = "confirm"
    /\ UNCHANGED <<log, running, consumerVars, paused, batchVars, acc,
                   dirVars, lastEpoch, faults>>

\* The commit returns an error; the broker may have recorded it all the same.
CommitFails ==
    /\ pc = "commit"
    /\ Fault("commit")
    /\ committed' \in {committed, position}
    /\ EndTask
    /\ UNCHANGED <<log, running, acc, dirVars, lastEpoch>>

ConfirmPhase ==
    /\ pc = "confirm"
    /\ Confirm(epoch)
    /\ pc' = "loop"
    /\ delta' = {} /\ epoch' = 0
    /\ UNCHANGED <<brokerVars, running, consumerVars, paused, acc, faults>>

ConfirmFails ==
    /\ pc = "confirm"
    /\ Fault("confirm")
    /\ EndTask
    /\ UNCHANGED <<brokerVars, running, acc, dirVars, lastEpoch>>

-----------------------------------------------------------------------------
\* The API handler stops the pipeline: the task notices at the top of its loop.
Stop ==
    /\ running
    /\ Fault("stop")
    /\ running' = FALSE
    /\ UNCHANGED <<brokerVars, pc, consumerVars, paused, batchVars, acc,
                   dirVars, lastEpoch>>

\* The process dies; a write in progress leaves its .tmp file torn.  Between
\* the source commit and the rename the fault is called "window".
Crash ==
    /\ Fault(IF pc = "confirm" THEN "window" ELSE "crash")
    /\ EndTask
    /\ running' = FALSE
    /\ acc' = Zero
    /\ lastEpoch' = 0
    /\ \/ UNCHANGED tmp
       \/ pc = "save" /\ tmp' = [tmp EXCEPT ![epoch] = Torn]
    /\ UNCHANGED <<brokerVars, final>>

-----------------------------------------------------------------------------
Task ==
    \/ Cleanup \/ Restore \/ Connect
    \/ LoopEnds \/ Backpressure
    \/ PollMessages \/ PollNothing
    \/ Apply \/ SavePhase \/ CommitPhase \/ ConfirmPhase

Failure ==
    \/ CleanupFails \/ RestoreFails \/ ConnectFails \/ PollFails
    \/ SaveFails \/ CommitFails \/ ConfirmFails
    \/ Crash

Next ==
    \/ \E p \in Partitions : Produce(p)
    \/ Join \/ Revoke
    \/ Start \/ Stop
    \/ Task
    \/ Failure

Spec == Init /\ [][Next]_vars

(***************************************************************************)
(* Fairness.  The task's steps are taken by the runtime as soon as they    *)
(* are possible; the broker assigns partitions and, polled again and again *)
(* while it has messages, eventually answers within the poll's timeout; an *)
(* operator restarts a pipeline that is down.                              *)
(***************************************************************************)
Fairness ==
    /\ WF_vars(Task)
    /\ WF_vars(Join)
    /\ SF_vars(PollMessages)
    /\ WF_vars(Start)

FairSpec == Spec /\ Fairness

-----------------------------------------------------------------------------
(***************************************************************************)
(* Properties.                                                             *)
(***************************************************************************)

\* Every variable holds a value of its type; in particular no file under a
\* final name is ever torn on this path, because only confirm creates one.
TypeOK ==
    /\ log \in [Partitions -> 0..MaxOffset]
    /\ committed \in [Partitions -> 0..MaxOffset]
    /\ running \in BOOLEAN
    /\ pc \in PCs
    /\ joined \in BOOLEAN /\ halted \in BOOLEAN /\ paused \in BOOLEAN
    /\ position \in [Partitions -> 0..MaxOffset]
    /\ delta \in SUBSET WellFormed
    /\ epoch \in Epochs
    /\ acc \in Views
    /\ final \in [Epochs -> Views \cup {NoFile}]
    /\ tmp \in [Epochs -> Views \cup {NoFile, Torn}]
    /\ lastEpoch \in Epochs
    /\ faults \in Nat

\* A checkpoint holds nothing the broker could deliver again: every message
\* in a promoted file lies below the committed offset of its partition.  This
\* is what "call this ONLY after the source has confirmed the epoch" of
\* confirm() is for.
CheckpointBehindCommit ==
    \A e \in Epochs, m \in Msgs :
        final[e] # NoFile /\ final[e][m] # 0 => m[2] < committed[m[1]]

\* The other direction: outside the step between the commit and the rename,
\* every message the broker will not deliver again is in the checkpoint a
\* restart reads.  process_batch commits after save_tmp to obtain it.
CommittedIsDurable ==
    pc # "confirm" =>
        \A m \in WellFormed :
            m[2] < committed[m[1]] => Saved # {} /\ Durable[m] # 0

\* The view never counts a message twice, however often the process crashes
\* and the topic is replayed to the view a checkpoint restored.
AtMostOnce == \A m \in Msgs : acc[m] <= 1

\* Every well-formed message the consumer has moved past is in the view, as
\* soon as the batch in flight has been applied.
Caught(m) == m[2] < position[m[1]] /\ ~(pc = "apply" /\ m \in delta)
NothingSkipped == joined => \A m \in WellFormed : Caught(m) => acc[m] # 0

\* A newer checkpoint never holds less than an older one, although the files
\* are ordered by the offset of the last message of a batch, whatever its
\* partition: what a restart would read only grows.
DurableGrows ==
    [][Saved # {} => /\ Saved' # {}
                     /\ \A m \in Msgs : Durable[m] <= Durable'[m]]_vars

\* A crash leaves at most one .tmp file behind, and the next start removes it
\* before another is written.
OneOrphan ==
    \A e, f \in Epochs : tmp[e] # NoFile /\ tmp[f] # NoFile => e = f

\* Pausing bounds the view to what one poll can add to the high watermark, two
\* rows per message, in every run whose pauses all take effect and last: none
\* fails, none is asked of a consumer still without partitions, and none is
\* undone by a rebalance.
BackpressureBoundsView ==
    [](paused => halted) => [](Depth <= HighWatermark + 2 * MaxPoll)

\* A consumer that is halted stays halted until its task ends or the group
\* takes its partitions away: the view that would have to fall below the low
\* watermark changes only by what the consumer delivers.
HaltIsForLife == [][halted /\ joined' => halted']_vars

\* At-least-once delivery (README, Connector Capability Matrix): what the
\* consumer has moved past is in the view, whatever failed on the way.
AtLeastOnce == NothingSkipped

\* Whatever faults a run has, as long as they stop, every well-formed message
\* that was produced ends up in the view for good.
Produced(m) == m[2] < log[m[1]]
EventuallyComplete ==
    <>[](\A m \in WellFormed : Produced(m) => acc[m] # 0)

(***************************************************************************)
(* The promise of RecoverableView.  The pipeline is live once it has       *)
(* restored; its durable copy is the newest file under a final name.       *)
(***************************************************************************)
Live == pc \notin {"idle", "cleanup", "restore"}

View == INSTANCE RecoverableView WITH
            Changes <- Msgs, NoCopy <- NoFile, BadCopy <- Torn,
            live <- Live, view <- acc, durable <- Durable

\* KafkaPipeline implements RecoverableView.
ImplementsRecoverableView == View!RVSpec
=============================================================================
