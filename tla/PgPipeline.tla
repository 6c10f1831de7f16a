----------------------------- MODULE PgPipeline -----------------------------
(***************************************************************************)
(* One pipeline fed by Postgres: PipelineScheduler::start with its         *)
(* snapshot bootstrap and run_pg_loop (crates/runtime/src/scheduler.rs),   *)
(* SnapshotConnector (crates/connectors/snapshot), WalStreamConnector with *)
(* its producer task (crates/connectors/pg_wal/src/stream_connector.rs),   *)
(* and the checkpoint directory of CheckpointManager.                      *)
(*                                                                         *)
(* The scheduler's task (pc) and the producer (prod) run concurrently and  *)
(* share a bounded channel; the producer reads the replication slot with   *)
(* pg_logical_slot_get_changes, which consumes what it returns.  Dropping  *)
(* the channel does not stop a producer: it lives on as an orphan until a  *)
(* send fails.                                                             *)
(*                                                                         *)
(* A change is a row change <<t, c>> of transaction t; the view counts how *)
(* often it has been applied, by the snapshot or from the WAL.  Positions  *)
(* of the slot are counted in transactions, their LSNs matter only for     *)
(* epochs and acknowledgements (module Lsn).                               *)
(***************************************************************************)
EXTENDS CheckpointManager, Lsn, Functions, Sequences

CONSTANTS
    MaxTxns,            \* bound: transactions of the source
    TxnEnd,             \* TxnEnd[t]: events up to the commit of transaction t
    TxnLsn,             \* TxnLsn[t]: the position after its commit
    CommitLsn,          \* CommitLsn[t]: the position of its commit record
    CommitFormat,       \* how the slot's plugin reports a commit
    MaxPoll,            \* bound: transactions one get_changes returns
    ChanCap,            \* CHANNEL_CAPACITY
    CheckpointInterval, \* checkpoint_interval_epochs
    Faults,             \* kinds of faults that may happen in a run
    MaxFaults           \* bound: number of faults in a run

Txns == 1..MaxTxns

\* A JSON plugin with nextlsn in its commit events, one without, and the plugin
\* the connectors create their slot with.
CommitFormats == {"json", "bare", "pgoutput"}

\* A transaction is its row changes, then its commit.
TxnSize(t) == TxnEnd[t] - TxnEnd[t - 1] - 1

Changes ==
    {ch \in Txns \X (1..TxnEnd[MaxTxns]) : ch[2] <= TxnSize(ch[1])}
Commits == Txns \X {0}

ASSUME PgAssumption ==
    /\ MaxTxns \in Nat \ {0}
    /\ TxnEnd \in [0..MaxTxns -> Nat] /\ TxnEnd[0] = 0
    /\ \A s, t \in 0..MaxTxns : s < t => TxnEnd[s] < TxnEnd[t]
    /\ TxnLsn \in [Txns -> Nat \ {0}]
    /\ \A t \in Txns \ {MaxTxns} : TxnLsn[t] < TxnLsn[t + 1]
    /\ CommitLsn \in [Txns -> Nat]
    /\ \A t \in Txns : CommitLsn[t] < TxnLsn[t]
    /\ \A t \in Txns \ {MaxTxns} : TxnLsn[t] <= CommitLsn[t + 1]
    /\ CommitFormat \in CommitFormats
    /\ MaxPoll \in Nat \ {0} /\ ChanCap \in Nat \ {0}
    /\ CheckpointInterval \in Nat /\ MaxFaults \in Nat

\* The epoch of a transaction's batch: the lsn of its commit event.
TxnEpoch(t) ==
    CASE CommitFormat = "json" -> EpochOfNextLsn(TxnLsn[t])
      [] CommitFormat = "bare" -> 0
      [] CommitFormat = "pgoutput" -> EpochOfCommitMessage(CommitLsn[t], TxnLsn[t])

ASSUME PgEpochs == Epochs = {0} \cup {TxnEpoch(t) : t \in Txns}

Views == [Changes -> Nat]
Zero == [ch \in Changes |-> 0]
Plus(view, S) == [ch \in Changes |-> IF ch \in S THEN view[ch] + 1 ELSE view[ch]]

ASSUME FilesAssumption ==
    /\ NoFile \notin Views
    /\ Torn \notin Views
    /\ NoFile # Torn

VARIABLES
    wal,        \* transactions committed at the source
    slot,       \* transactions the slot is past, or NoSlot
    running,    \* the scheduler's running flag
    pc,         \* the step the scheduler's task is about to take
    prod,       \* the producer: "none", "connecting", "polling"
    link,       \* its connection works
    buf,        \* events it has read and not yet sent
    chan,       \* events in the channel
    orphans,    \* producers whose channel has been dropped, still polling
    pending,    \* pending_delta
    txn,        \* transaction of the commit event being handled, or 0
    acc,        \* pipeline.accumulated
    confirmed,  \* confirmed_lsn of the connector
    snapPos,    \* history: newest transaction a table copy has seen
    faults      \* faults so far

NoSlot == -1

sourceVars == <<wal, slot>>
prodVars == <<prod, link, buf, chan>>
taskVars == <<pending, txn, confirmed>>
vars == <<sourceVars, running, pc, prodVars, orphans, taskVars, acc, snapPos,
          dirVars, lastEpoch, faults>>

PCs == {"idle", "cleanup", "restore", "slot", "copy", "save0", "connect",
        "loop", "apply", "save", "commit", "confirm", "ack"}

\* Event i of the source: a change <<t, c>>, or the commit <<t, 0>>.
EventTxn(i) == CHOOSE t \in Txns : TxnEnd[t - 1] < i /\ i <= TxnEnd[t]
Event(i) ==
    LET t == EventTxn(i)
    IN <<t, IF i = TxnEnd[t] THEN 0 ELSE i - TxnEnd[t - 1]>>

\* The events of transactions from + 1 .. to.
Events(from, to) ==
    [i \in 1..(TxnEnd[to] - TxnEnd[from]) |-> Event(TxnEnd[from] + i)]

Init ==
    /\ wal = 0 /\ slot = NoSlot
    /\ running = FALSE /\ pc = "idle"
    /\ prod = "none" /\ link = FALSE /\ buf = <<>> /\ chan = <<>>
    /\ orphans = 0
    /\ pending = {} /\ txn = 0 /\ confirmed = 0
    /\ acc = Zero
    /\ snapPos = 0
    /\ final = EmptyDir /\ tmp = EmptyDir /\ lastEpoch = 0
    /\ faults = 0

-----------------------------------------------------------------------------
\* The source.

TxnCommit ==
    /\ wal < MaxTxns
    /\ wal' = wal + 1
    /\ UNCHANGED <<slot, running, pc, prodVars, orphans, taskVars, acc,
                   snapPos, dirVars, lastEpoch, faults>>

Fault(kind) ==
    /\ kind \in Faults
    /\ faults < MaxFaults
    /\ faults' = faults + 1

(***************************************************************************)
(* start() returns, with or without an error: the stream and the           *)
(* connector are dropped.  A producer with events in hand finds out when   *)
(* it sends the next; one that is connecting or between polls goes on.     *)
(***************************************************************************)
EndTask ==
    /\ pc' = "idle"
    /\ prod' = "none" /\ link' = FALSE /\ buf' = <<>> /\ chan' = <<>>
    /\ orphans' = orphans + (IF \/ prod = "connecting"
                                \/ prod = "polling" /\ link /\ buf = <<>>
                             THEN 1 ELSE 0)
    /\ pending' = {} /\ txn' = 0 /\ confirmed' = 0

-----------------------------------------------------------------------------
(***************************************************************************)
(* Coming up.                                                              *)
(***************************************************************************)

Start ==
    /\ pc = "idle"
    /\ ~running
    /\ running' = TRUE
    /\ pc' = "cleanup"
    /\ UNCHANGED <<sourceVars, prodVars, orphans, taskVars, acc, snapPos,
                   dirVars, lastEpoch, faults>>

Cleanup ==
    /\ pc = "cleanup"
    /\ CleanupUncommitted
    /\ pc' = "restore"
    /\ UNCHANGED <<sourceVars, running, prodVars, orphans, taskVars, acc,
                   snapPos, lastEpoch, faults>>

CleanupFails ==
    /\ pc = "cleanup"
    /\ Fault("cleanup")
    /\ CleanupInterrupted
    /\ EndTask
    /\ UNCHANGED <<sourceVars, running, acc, snapPos, lastEpoch>>

\* A restored pipeline goes on with the WAL; without a checkpoint it first
\* bootstraps from a copy of the table.
RestoreKeepsView ==
    /\ pc = "restore"
    /\ \/ RestoreLatest /\ UNCHANGED acc /\ pc' = "connect"
       \/ RestoreNothing /\ UNCHANGED acc /\ pc' = "slot"
    /\ UNCHANGED <<sourceVars, running, prodVars, orphans, taskVars, snapPos,
                   faults>>
Restore ==
    /\ pc = "restore"
    /\ \/ RestoreLatest /\ acc' = final[LatestEpoch] /\ pc' = "connect"
       \/ RestoreNothing /\ UNCHANGED acc /\ pc' = "slot"
    /\ UNCHANGED <<sourceVars, running, prodVars, orphans, taskVars, snapPos,
                   faults>>

\* The newest file is torn: every start fails here.
RestoreFails ==
    /\ pc = "restore"
    /\ RestoreUnreadable
    /\ EndTask
    /\ UNCHANGED <<sourceVars, running, acc, snapPos, faults>>

RestoreErrs ==
    /\ pc = "restore"
    /\ Fault("restore")
    /\ RestoreInterrupted
    /\ EndTask
    /\ UNCHANGED <<sourceVars, running, acc, snapPos>>

\* create_slot_or_get_existing_lsn: a new slot starts at the end of the WAL.
BootSlot ==
    /\ pc = "slot"
    /\ slot' = IF slot = NoSlot THEN wal ELSE slot
    /\ pc' = "copy"
    /\ UNCHANGED <<wal, running, prodVars, orphans, taskVars, acc, snapPos,
                   dirVars, lastEpoch, faults>>

\* copy_table_snapshot sees every transaction committed by now; start merges
\* the copy into whatever the view holds.
BootCopy ==
    /\ pc = "copy"
    /\ acc' = Plus(acc, {ch \in Changes : ch[1] <= wal})
    /\ snapPos' = wal
    /\ pc' = "save0"
    /\ UNCHANGED <<sourceVars, running, prodVars, orphans, taskVars, dirVars,
                   lastEpoch, faults>>

BootFails ==
    /\ pc \in {"slot", "copy"}
    /\ Fault("boot")
    /\ EndTask
    /\ UNCHANGED <<sourceVars, running, acc, snapPos, dirVars, lastEpoch>>

Save0BeforeMerge ==
    /\ pc = "save0"
    /\ Save(Zero, 0)
    /\ pc' = "connect"
    /\ UNCHANGED <<sourceVars, running, prodVars, orphans, taskVars, acc,
                   snapPos, faults>>
Save0 ==
    /\ pc = "save0"
    /\ Save(acc, 0)
    /\ pc' = "connect"
    /\ UNCHANGED <<sourceVars, running, prodVars, orphans, taskVars, acc,
                   snapPos, faults>>

Save0Fails ==
    /\ pc = "save0"
    /\ Fault("save")
    /\ \/ UNCHANGED <<dirVars, lastEpoch>>
       \/ SaveInterrupted(0)
    /\ EndTask
    /\ UNCHANGED <<sourceVars, running, acc, snapPos>>

\* WalStreamConnector::new and the first stream_events, which spawns the
\* producer and returns at once.
Connect ==
    /\ pc = "connect"
    /\ slot' = IF slot = NoSlot THEN wal ELSE slot
    /\ prod' = "connecting"
    /\ pc' = "loop"
    /\ UNCHANGED <<wal, running, link, buf, chan, orphans, taskVars, acc,
                   snapPos, dirVars, lastEpoch, faults>>

ConnectFails ==
    /\ pc = "connect"
    /\ Fault("connect")
    /\ EndTask
    /\ UNCHANGED <<sourceVars, running, acc, snapPos, dirVars, lastEpoch>>

-----------------------------------------------------------------------------
(***************************************************************************)
(* The producer spawned by stream_events.                                  *)
(***************************************************************************)

ProdConnect ==
    /\ prod = "connecting"
    /\ prod' = "polling"
    /\ link' = TRUE
    /\ UNCHANGED <<sourceVars, running, pc, buf, chan, orphans, taskVars, acc,
                   snapPos, dirVars, lastEpoch, faults>>

\* The error is given to a send that is never awaited: the channel just closes.
ProdConnectFails ==
    /\ prod = "connecting"
    /\ Fault("dial")
    /\ prod' = "none"
    /\ UNCHANGED <<sourceVars, running, pc, link, buf, chan, orphans,
                   taskVars, acc, snapPos, dirVars, lastEpoch>>

\* get_changes returns whole transactions and moves the slot past them.
ProdPeek ==
    /\ prod = "polling" /\ link /\ buf = <<>>
    /\ slot < wal
    /\ \E to \in (slot + 1)..wal :
        /\ to - slot <= MaxPoll
        /\ buf' = Events(slot, to)
    /\ UNCHANGED <<sourceVars, running, pc, prod, link, chan, orphans,
                   taskVars, acc, snapPos, dirVars, lastEpoch, faults>>
ProdPoll ==
    /\ prod = "polling" /\ link /\ buf = <<>>
    /\ slot < wal
    /\ \E to \in (slot + 1)..wal :
        /\ to - slot <= MaxPoll
        /\ slot' = to
        /\ buf' = Events(slot, to)
    /\ UNCHANGED <<wal, running, pc, prod, link, chan, orphans, taskVars, acc,
                   snapPos, dirVars, lastEpoch, faults>>

\* The connection breaks, perhaps between the server's consuming a poll and
\* the client's receiving it.  From now on every query fails, the error is
\* given to a send that is never awaited, and the producer polls on.
LinkBreaks ==
    /\ prod = "polling" /\ link
    /\ Fault("link")
    /\ link' = FALSE
    /\ \/ UNCHANGED slot
       \/ /\ buf = <<>> /\ slot < wal
          /\ \E to \in (slot + 1)..wal : to - slot <= MaxPoll /\ slot' = to
    /\ UNCHANGED <<wal, running, pc, prod, buf, chan, orphans, taskVars, acc,
                   snapPos, dirVars, lastEpoch>>

\* tx.send waits while the channel is full.
ProdSend ==
    /\ buf # <<>>
    /\ Len(chan) < ChanCap
    /\ chan' = Append(chan, Head(buf))
    /\ buf' = Tail(buf)
    /\ UNCHANGED <<sourceVars, running, pc, prod, link, orphans, taskVars,
                   acc, snapPos, dirVars, lastEpoch, faults>>

\* A producer whose channel is gone polls once more: it consumes what it gets
\* and ends when it tries to send it.
OrphanPoll ==
    /\ orphans > 0
    /\ 0 <= slot /\ slot < wal
    /\ \E to \in (slot + 1)..wal : to - slot <= MaxPoll /\ slot' = to
    /\ orphans' = orphans - 1
    /\ UNCHANGED <<wal, running, pc, prodVars, taskVars, acc, snapPos,
                   dirVars, lastEpoch, faults>>

-----------------------------------------------------------------------------
(***************************************************************************)
(* The loop of run_pg_loop.  The check of running and the receive are one  *)
(* step: a stop between them is a stop just after the receive.  A timeout  *)
(* changes nothing.                                                        *)
(***************************************************************************)

LoopEnds ==
    /\ pc = "loop"
    /\ ~running
    /\ EndTask
    /\ UNCHANGED <<sourceVars, running, acc, snapPos, dirVars, lastEpoch,
                   faults>>

\* An event arrives: changes wait for the commit of their transaction.
RecvAppliesEarly ==
    /\ pc = "loop"
    /\ running
    /\ chan # <<>>
    /\ chan' = Tail(chan)
    /\ txn' = Head(chan)[1]
    /\ IF Head(chan)[2] # 0
          THEN pending' = {Head(chan)} /\ pc' = "apply"
          ELSE pending' = pending /\ pc' = "ack"
    /\ UNCHANGED <<sourceVars, running, prod, link, buf, orphans, confirmed,
                   acc, snapPos, dirVars, lastEpoch, faults>>
Recv ==
    /\ pc = "loop"
    /\ running
    /\ chan # <<>>
    /\ chan' = Tail(chan)
    /\ LET ev == Head(chan) IN
       IF ev[2] # 0
          THEN pending' = pending \cup {ev} /\ UNCHANGED <<pc, txn>>
          ELSE /\ txn' = ev[1]
               /\ pc' = IF pending # {} THEN "apply" ELSE "ack"
               /\ UNCHANGED pending
    /\ UNCHANGED <<sourceVars, running, prod, link, buf, orphans, confirmed,
                   acc, snapPos, dirVars, lastEpoch, faults>>

StreamEndsLoop ==
    /\ pc = "loop"
    /\ running
    /\ chan = <<>> /\ prod = "none"
    /\ EndTask
    /\ UNCHANGED <<sourceVars, running, acc, snapPos, dirVars, lastEpoch,
                   faults>>

\* The channel is closed and drained: a new producer is spawned.
StreamEnds ==
    /\ pc = "loop"
    /\ running
    /\ chan = <<>> /\ prod = "none"
    /\ prod' = "connecting"
    /\ UNCHANGED <<sourceVars, running, pc, link, buf, chan, orphans,
                   taskVars, acc, snapPos, dirVars, lastEpoch, faults>>

-----------------------------------------------------------------------------
(***************************************************************************)
(* process_batch, and the acknowledgement of every commit event.           *)
(***************************************************************************)

Apply ==
    /\ pc = "apply"
    /\ acc' = Plus(acc, pending)
    /\ pending' = {}
    /\ pc' = IF ShouldCheckpoint(TxnEpoch(txn), CheckpointInterval)
                THEN "save" ELSE "ack"
    /\ UNCHANGED <<sourceVars, running, prodVars, orphans, txn, confirmed,
                   snapPos, dirVars, lastEpoch, faults>>

SavePhase ==
    /\ pc = "save"
    /\ SaveTmp(acc, TxnEpoch(txn))
    /\ pc' = "commit"
    /\ UNCHANGED <<sourceVars, running, prodVars, orphans, taskVars, acc,
                   snapPos, faults>>

SaveFails ==
    /\ pc = "save"
    /\ Fault("save")
    /\ \/ UNCHANGED <<dirVars, lastEpoch>>
       \/ SaveTmpInterrupted(TxnEpoch(txn))
    /\ EndTask
    /\ UNCHANGED <<sourceVars, running, acc, snapPos>>

(***************************************************************************)
(* acknowledge_lsn: nothing to do for a position that is not newer than    *)
(* confirmed_lsn; otherwise pg_replication_slot_advance, which fails for a *)
(* position the slot is past, and never goes beyond the end of the WAL.    *)
(***************************************************************************)
SlotLsn == IF slot = 0 THEN 0 ELSE TxnLsn[slot]

NothingToAck == TxnEpoch(txn) <= confirmed

AckRefused ==
    \/ ~AckAccepted(TxnEpoch(txn))
    \/ AckTarget(TxnEpoch(txn)) < SlotLsn

AdvancesTo(to) ==
    /\ to \in slot..wal
    /\ \A t \in Txns : t <= to /\ t > slot => TxnLsn[t] <= AckTarget(TxnEpoch(txn))
    /\ to < wal => TxnLsn[to + 1] > AckTarget(TxnEpoch(txn))

AcknowledgeLsn ==
    \/ /\ NothingToAck
       /\ UNCHANGED <<slot, confirmed>>
    \/ /\ ~NothingToAck /\ ~AckRefused
       /\ \E to \in slot..wal : AdvancesTo(to) /\ slot' = to
       /\ confirmed' = TxnEpoch(txn)

\* connector.commit inside the two-phase checkpoint.
CommitPhase ==
    /\ pc = "commit"
    /\ AcknowledgeLsn
    /\ pc' = "confirm"
    /\ UNCHANGED <<wal, running, prodVars, orphans, pending, txn, acc,
                   snapPos, dirVars, lastEpoch, faults>>

ConfirmPhase ==
    /\ pc = "confirm"
    /\ Confirm(TxnEpoch(txn))
    /\ pc' = "ack"
    /\ UNCHANGED <<sourceVars, running, prodVars, orphans, taskVars, acc,
                   snapPos, faults>>

ConfirmFails ==
    /\ pc = "confirm"
    /\ Fault("confirm")
    /\ EndTask
    /\ UNCHANGED <<sourceVars, running, acc, snapPos, dirVars, lastEpoch>>

\* connector.commit after every commit event.
Ack ==
    /\ pc = "ack"
    /\ AcknowledgeLsn
    /\ txn' = 0
    /\ pc' = "loop"
    /\ UNCHANGED <<wal, running, prodVars, orphans, pending, acc, snapPos,
                   dirVars, lastEpoch, faults>>

\* Postgres refuses the position, or the query fails (the slot is in use by
\* the producer's query, the connection is lost): the error ends the task.
AckFails ==
    /\ pc \in {"commit", "ack"}
    /\ ~NothingToAck
    /\ \/ AckRefused /\ UNCHANGED faults
       \/ Fault("ack")
    /\ EndTask
    /\ UNCHANGED <<sourceVars, running, acc, snapPos, dirVars, lastEpoch>>

-----------------------------------------------------------------------------
Stop ==
    /\ running
    /\ Fault("stop")
    /\ running' = FALSE
    /\ UNCHANGED <<sourceVars, pc, prodVars, orphans, taskVars, acc, snapPos,
                   dirVars, lastEpoch>>

\* The process dies, and every producer with it; the write in progress is
\* torn, under its final name if it is the bootstrap's.
Crash ==
    /\ Fault("crash")
    /\ running' = FALSE /\ pc' = "idle"
    /\ prod' = "none" /\ link' = FALSE /\ buf' = <<>> /\ chan' = <<>>
    /\ orphans' = 0
    /\ pending' = {} /\ txn' = 0 /\ confirmed' = 0
    /\ acc' = Zero
    /\ lastEpoch' = 0
    /\ \/ UNCHANGED dirVars
       \/ /\ pc = "save"
          /\ tmp' = [tmp EXCEPT ![TxnEpoch(txn)] = Torn]
          /\ UNCHANGED final
       \/ /\ pc = "save0"
          /\ final' = [final EXCEPT ![0] = Torn]
          /\ UNCHANGED tmp
    /\ UNCHANGED <<sourceVars, snapPos>>

-----------------------------------------------------------------------------
Task ==
    \/ Cleanup \/ Restore \/ RestoreFails
    \/ BootSlot \/ BootCopy \/ Save0 \/ Connect
    \/ LoopEnds \/ Recv \/ StreamEnds
    \/ Apply \/ SavePhase \/ CommitPhase \/ ConfirmPhase \/ Ack

Producer == ProdConnect \/ ProdPoll \/ ProdSend

Failure ==
    \/ CleanupFails \/ RestoreErrs
    \/ BootFails \/ Save0Fails \/ ConnectFails
    \/ ProdConnectFails \/ LinkBreaks
    \/ SaveFails \/ ConfirmFails \/ AckFails
    \/ Crash

Next ==
    \/ TxnCommit
    \/ Start \/ Stop
    \/ Task
    \/ Producer \/ OrphanPoll
    \/ Failure

Spec == Init /\ [][Next]_vars

(***************************************************************************)
(* Fairness.  The scheduler's task and the producer are tasks of a         *)
(* multi-threaded runtime, each scheduled as soon as it can go on; an      *)
(* operator restarts a pipeline that is down.                              *)
(***************************************************************************)
Fairness ==
    /\ WF_vars(Task)
    /\ WF_vars(ProdConnect)
    /\ WF_vars(ProdPoll)
    /\ WF_vars(ProdSend)
    /\ WF_vars(OrphanPoll)
    /\ WF_vars(Start)

FairSpec == Spec /\ Fairness

-----------------------------------------------------------------------------
(***************************************************************************)
(* Properties.                                                             *)
(***************************************************************************)

\* Every variable holds a value of its type; only the bootstrap's checkpoint
\* can be torn under its final name.
TypeOK ==
    /\ wal \in 0..MaxTxns
    /\ slot \in {NoSlot} \cup 0..wal
    /\ running \in BOOLEAN
    /\ pc \in PCs
    /\ prod \in {"none", "connecting", "polling"}
    /\ link \in BOOLEAN
    /\ buf \in Seq(Changes \cup Commits)
    /\ chan \in Seq(Changes \cup Commits) /\ Len(chan) <= ChanCap
    /\ orphans \in Nat
    /\ pending \subseteq Changes
    /\ txn \in 0..MaxTxns
    /\ acc \in Views
    /\ confirmed \in Epochs
    /\ snapPos \in 0..MaxTxns
    /\ final \in [Epochs -> Views \cup {NoFile, Torn}]
    /\ \A e \in Epochs \ {0} : final[e] # Torn
    /\ tmp \in [Epochs -> Views \cup {NoFile, Torn}]
    /\ lastEpoch \in Epochs
    /\ faults \in 0..MaxFaults

\* A view holds a transaction completely or not at all, in memory, on disk and
\* in the batch about to be applied: events are flushed on commit (README,
\* Postgres WAL streaming mode), also across reconnects and restarts.
Whole(view) ==
    \A a, b \in Changes : a[1] = b[1] => view[a] = view[b]
TransactionAtomicity ==
    /\ Whole(acc)
    /\ \A e \in Epochs : final[e] \in Views => Whole(final[e])

\* A transaction no table copy has seen is applied at most once: the slot is
\* consumed as it is read, so neither a crash nor an orphan replays it.
WalAppliedAtMostOnce ==
    \A ch \in Changes : ch[1] > snapPos => acc[ch] <= 1

(***************************************************************************)
(* The promise of RecoverableView.                                         *)
(***************************************************************************)
Live == pc \notin {"idle", "cleanup", "restore", "slot", "copy", "save0"}

View == INSTANCE RecoverableView WITH
            NoCopy <- NoFile, BadCopy <- Torn,
            live <- Live, view <- acc, durable <- Durable

\* What a restart would read only grows, until the bootstrap's file is torn.
DurableGrows ==
    [][View!Readable => /\ View!Readable'
                        /\ View!Covers(Durable', Durable)]_vars

\* PgPipeline implements RecoverableView.
ImplementsRecoverableView == View!RVSpec

\* Every committed transaction ends up in the view for good.
EventuallyComplete ==
    <>[](\A ch \in Changes : ch[1] <= wal => acc[ch] # 0)

\* At-least-once delivery by LSN replay (README, Connector Capability Matrix):
\* what the slot will not deliver again is in the view, in a checkpoint a
\* restart reads, or still on its way to the view.
InFlight == Range(buf) \cup Range(chan) \cup pending
AtLeastOnce ==
    \A ch \in Changes : ch[1] <= slot /\ Live =>
        acc[ch] # 0 \/ ch \in InFlight

\* The handoff from the table copy to the WAL leaves no gap: the slot starts no
\* later than the copy, and what a copy has seen is in the view of every task
\* that reads the slot, also after crashes between the steps of the bootstrap.
HandoffLeavesNoGap ==
    /\ pc = "save0" => slot <= snapPos
    /\ Live => \A ch \in Changes : ch[1] <= snapPos => acc[ch] # 0

\* Errors trigger automatic reconnect (README, Postgres WAL streaming mode).
Reconnects == [](prod = "polling" /\ ~link => <>(link \/ ~running))
=============================================================================
