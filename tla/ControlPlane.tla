---------------------------- MODULE ControlPlane ----------------------------
(***************************************************************************)
(* The REST control plane (crates/api/src/handlers.rs, state.rs) and the   *)
(* tasks it spawns.  Every handler runs under the write lock of the        *)
(* pipeline map, so it is one step; start_pipeline releases the lock and   *)
(* only then spawns PipelineScheduler::start, whose first statement sets   *)
(* the running flag.  Between the two, and between a stop and the end of   *)
(* the loop that notices it, every other handler may run.                  *)
(*                                                                         *)
(* A scheduler is created with its pipeline's entry and shared by every    *)
(* task started for the entry; schedulers are numbered, because a pipeline *)
(* deleted and created again has a new one, with the same directory.  Of a *)
(* task only its lifecycle and the .tmp file of the checkpoint it is about *)
(* to confirm are modelled: what it does in its loop is the business of    *)
(* KafkaPipeline and PgPipeline.  A .tmp file is named by its directory    *)
(* and its epoch, so two tasks of one directory may use the same file; a   *)
(* file written twice is the later writer's.                               *)
(***************************************************************************)
EXTENDS Integers, FiniteSets

CONSTANTS
    Names,          \* pipeline names
    MaxSchedulers,  \* bound: schedulers created in a run
    MaxTasks,       \* bound: tasks spawned in a run
    NoEntry,        \* there is no pipeline of that name
    TasksMayFail,   \* start() may return an error
    Epochs          \* the epochs checkpoints are saved at; only equality matters

Schedulers == 1..MaxSchedulers
Tasks == 1..MaxTasks

ASSUME ControlAssumption ==
    /\ MaxSchedulers \in Nat /\ MaxTasks \in Nat
    /\ TasksMayFail \in BOOLEAN
    /\ 0 \notin Epochs
    /\ IsFiniteSet(Names)
    /\ NoEntry \notin Names \cup {"Stopped", "Running"}

VARIABLES
    status,     \* status[n]: PipelineEntry.status, or NoEntry
    sched,      \* sched[n]: the entry's scheduler, or 0
    owner,      \* owner[s]: the name scheduler s was created for, or NoEntry
    flag,       \* flag[s]: the running flag of scheduler s
    gauge,      \* PIPELINE_STATUS, "Number of currently running pipelines"
    task,       \* task[t]: where task t is
    schedOf,    \* schedOf[t]: the scheduler task t runs, or 0
    pending,    \* pending[t]: the epoch task t is about to confirm, or 0
    tmp         \* tmp[<<d, e>>]: the task that wrote directory d's .tmp file of
                \* epoch e last, or 0 when there is no such file

entryVars == <<status, sched, gauge>>
taskVars == <<task, schedOf>>
fileVars == <<pending, tmp>>
vars == <<entryVars, owner, flag, taskVars, fileVars>>

\* A task is spawned, comes up, checks the flag at the top of its loop,
\* processes a batch, perhaps saves a checkpoint, and is done.
LiveStates == {"spawned", "starting", "looping", "batch", "saved"}
TaskStates == LiveStates \cup {"unused", "done"}

TasksOf(s) == {t \in Tasks : schedOf[t] = s}
LiveTasks(s) == {t \in TasksOf(s) : task[t] \in LiveStates}
DirOf(t) == owner[schedOf[t]]

\* checkpoint_epoch_{epoch}.parquet.tmp in the pipeline's directory.
TmpFiles == Names \X Epochs
TmpOf(t) == <<DirOf(t), pending[t]>>

\* What cleanup_uncommitted leaves of the .tmp files when it runs in directory d.
CleanedUp(d) == [f \in TmpFiles |-> IF f[1] = d THEN 0 ELSE tmp[f]]

Init ==
    /\ status = [n \in Names |-> NoEntry]
    /\ sched = [n \in Names |-> 0]
    /\ owner = [s \in Schedulers |-> NoEntry]
    /\ flag = [s \in Schedulers |-> FALSE]
    /\ gauge = 0
    /\ task = [t \in Tasks |-> "unused"]
    /\ schedOf = [t \in Tasks |-> 0]
    /\ pending = [t \in Tasks |-> 0]
    /\ tmp = [f \in TmpFiles |-> 0]

-----------------------------------------------------------------------------
(***************************************************************************)
(* The handlers.  A request that finds nothing to do (404, 409, or a start *)
(* of a running pipeline) changes nothing.                                 *)
(***************************************************************************)

\* update_running_gauge, on the map the handler has just changed.
UpdateRunningGauge ==
    gauge' = Cardinality({n \in Names : status'[n] = "Running"})

CreateWithoutScheduler(n) ==
    /\ status[n] = NoEntry
    /\ status' = [status EXCEPT ![n] = "Stopped"]
    /\ UNCHANGED <<sched, owner, gauge, flag, taskVars, fileVars>>
CreatePipeline(n) ==
    /\ status[n] = NoEntry
    /\ \E s \in Schedulers :
        /\ owner[s] = NoEntry
        /\ \A r \in Schedulers : r < s => owner[r] # NoEntry
        /\ owner' = [owner EXCEPT ![s] = n]
        /\ sched' = [sched EXCEPT ![n] = s]
    /\ status' = [status EXCEPT ![n] = "Stopped"]
    /\ UNCHANGED <<gauge, flag, taskVars, fileVars>>

DeleteAnyPipeline(n) ==
    /\ status[n] # NoEntry
    /\ status' = [status EXCEPT ![n] = NoEntry]
    /\ sched' = [sched EXCEPT ![n] = 0]
    /\ UNCHANGED <<gauge, owner, flag, taskVars, fileVars>>
DeletePipeline(n) ==
    /\ status[n] \notin {NoEntry, "Running"}
    /\ status' = [status EXCEPT ![n] = NoEntry]
    /\ sched' = [sched EXCEPT ![n] = 0]
    /\ UNCHANGED <<gauge, owner, flag, taskVars, fileVars>>

StartPipeline(n) ==
    /\ status[n] \notin {NoEntry, "Running"}
    /\ \E t \in Tasks :
        /\ task[t] = "unused"
        /\ \A r \in Tasks : r < t => task[r] # "unused"
        /\ task' = [task EXCEPT ![t] = "spawned"]
        /\ schedOf' = [schedOf EXCEPT ![t] = sched[n]]
    /\ status' = [status EXCEPT ![n] = "Running"]
    /\ UpdateRunningGauge
    /\ UNCHANGED <<sched, owner, flag, fileVars>>

StopPipeline(n) ==
    /\ status[n] # NoEntry
    /\ flag' = [flag EXCEPT ![sched[n]] = FALSE]
    /\ status' = [status EXCEPT ![n] = "Stopped"]
    /\ UpdateRunningGauge
    /\ UNCHANGED <<sched, owner, taskVars, fileVars>>

-----------------------------------------------------------------------------
(***************************************************************************)
(* A spawned task: start() of its scheduler.                               *)
(***************************************************************************)

SetRunning(t) ==
    /\ task[t] = "spawned"
    /\ flag' = [flag EXCEPT ![schedOf[t]] = TRUE]
    /\ task' = [task EXCEPT ![t] = "starting"]
    /\ UNCHANGED <<entryVars, owner, schedOf, fileVars>>

ComeUpSetsFlag(t) ==
    /\ task[t] = "starting"
    /\ flag' = [flag EXCEPT ![schedOf[t]] = TRUE]
    /\ tmp' = CleanedUp(DirOf(t))
    /\ task' = [task EXCEPT ![t] = "looping"]
    /\ UNCHANGED <<entryVars, owner, schedOf, pending>>

ComeUpCleansAll(t) ==
    /\ task[t] = "starting"
    /\ tmp' = [f \in TmpFiles |-> 0]
    /\ task' = [task EXCEPT ![t] = "looping"]
    /\ UNCHANGED <<entryVars, owner, flag, schedOf, pending>>

\* cleanup_uncommitted removes every .tmp file of the directory; then the
\* task restores, connects and enters its loop.
ComeUp(t) ==
    /\ task[t] = "starting"
    /\ tmp' = CleanedUp(DirOf(t))
    /\ task' = [task EXCEPT ![t] = "looping"]
    /\ UNCHANGED <<entryVars, owner, flag, schedOf, pending>>

LoopContinues(t) ==
    /\ task[t] = "looping"
    /\ flag[schedOf[t]]
    /\ task' = [task EXCEPT ![t] = "batch"]
    /\ UNCHANGED <<entryVars, owner, flag, schedOf, fileVars>>

\* The batch ends with the first phase of a checkpoint, or without one.
ProcessBatch(t) ==
    /\ task[t] = "batch"
    /\ \/ /\ task' = [task EXCEPT ![t] = "looping"]
          /\ UNCHANGED fileVars
       \/ \E e \in Epochs :
            /\ task' = [task EXCEPT ![t] = "saved"]
            /\ pending' = [pending EXCEPT ![t] = e]
            /\ tmp' = [tmp EXCEPT ![<<DirOf(t), e>>] = t]
    /\ UNCHANGED <<entryVars, owner, flag, schedOf>>

\* The rename takes the file of that name, whoever wrote it; it fails, and ends
\* the task, if there is none.
Confirm(t) ==
    /\ task[t] = "saved"
    /\ task' = [task EXCEPT ![t] = IF tmp[TmpOf(t)] = 0 THEN "done" ELSE "looping"]
    /\ pending' = [pending EXCEPT ![t] = 0]
    /\ tmp' = [tmp EXCEPT ![TmpOf(t)] = 0]
    /\ UNCHANGED <<entryVars, owner, flag, schedOf>>

LoopEnds(t) ==
    /\ task[t] = "looping"
    /\ ~flag[schedOf[t]]
    /\ task' = [task EXCEPT ![t] = "done"]
    /\ UNCHANGED <<entryVars, owner, flag, schedOf, fileVars>>

\* start() returns an error: it is logged, and neither the flag nor the status
\* is touched.
TaskFailsClean(t) ==
    /\ TasksMayFail
    /\ task[t] \in LiveStates \ {"spawned"}
    /\ task' = [task EXCEPT ![t] = "done"]
    /\ pending' = [pending EXCEPT ![t] = 0]
    /\ flag' = [flag EXCEPT ![schedOf[t]] = FALSE]
    /\ UNCHANGED <<entryVars, owner, schedOf, tmp>>
TaskFails(t) ==
    /\ TasksMayFail
    /\ task[t] \in LiveStates \ {"spawned"}
    /\ task' = [task EXCEPT ![t] = "done"]
    /\ pending' = [pending EXCEPT ![t] = 0]
    /\ UNCHANGED <<entryVars, owner, flag, schedOf, tmp>>

TaskStep(t) ==
    \/ SetRunning(t) \/ ComeUp(t)
    \/ LoopContinues(t) \/ ProcessBatch(t) \/ Confirm(t) \/ LoopEnds(t)

Next ==
    \/ \E n \in Names :
        \/ CreatePipeline(n) \/ DeletePipeline(n)
        \/ StartPipeline(n) \/ StopPipeline(n)
    \/ \E t \in Tasks : TaskStep(t) \/ TaskFails(t)

Spec == Init /\ [][Next]_vars

\* The runtime schedules every task; requests come when they come.
Fairness == \A t \in Tasks : WF_vars(TaskStep(t))

FairSpec == Spec /\ Fairness

-----------------------------------------------------------------------------
(***************************************************************************)
(* Properties.                                                             *)
(***************************************************************************)

\* Every variable holds a value of its type, and entries own their scheduler.
TypeOK ==
    /\ status \in [Names -> {NoEntry, "Stopped", "Running"}]
    /\ sched \in [Names -> 0..MaxSchedulers]
    /\ owner \in [Schedulers -> Names \cup {NoEntry}]
    /\ flag \in [Schedulers -> BOOLEAN]
    /\ gauge \in 0..Cardinality(Names)
    /\ task \in [Tasks -> TaskStates]
    /\ schedOf \in [Tasks -> 0..MaxSchedulers]
    /\ pending \in [Tasks -> Epochs \cup {0}]
    /\ tmp \in [TmpFiles -> 0..MaxTasks]
    /\ \A n \in Names :
        status[n] # NoEntry => sched[n] # 0 /\ owner[sched[n]] = n

\* The gauge counts the entries whose status is Running, although two of the
\* four handlers that change the map never set it: a deleted pipeline is never
\* a running one.
GaugeCountsStatuses ==
    gauge = Cardinality({n \in Names : status[n] = "Running"})

\* A pipeline reported Running is enabled, or the task that enables it is on
\* its way, whatever other tasks of the same scheduler do meanwhile.
RunningIsEnabled ==
    \A n \in Names : status[n] = "Running" =>
        \/ flag[sched[n]]
        \/ \E t \in TasksOf(sched[n]) : task[t] = "spawned"

\* A deleted pipeline does not come back: once its scheduler is without an
\* entry, its flag is down and no task of it is about to set it, all of this
\* stays so, although the name may be created and started again.
Dead(s) ==
    /\ owner[s] # NoEntry
    /\ \A n \in Names : sched[n] # s
    /\ ~flag[s]
    /\ \A t \in TasksOf(s) : task[t] # "spawned"
DeletedStaysDown == [][\A s \in Schedulers : Dead(s) => Dead(s)']_vars

\* A stop that finds every task of its scheduler past its first statement
\* takes effect: the tasks end, unless the pipeline is started again.
StopDrains ==
    \A s \in Schedulers :
        (~flag[s] /\ \A t \in TasksOf(s) : task[t] # "spawned")
            ~> (LiveTasks(s) = {} \/ \E t \in TasksOf(s) : task[t] = "spawned")

\* "Stop pipeline" (README, API endpoints): a stopped pipeline ends its tasks,
\* unless it is started again or deleted.
StopTakesEffect ==
    \A n \in Names :
        (status[n] = "Stopped") ~>
            (status[n] # "Stopped" \/ LiveTasks(sched[n]) = {})

\* The .tmp file a task is about to rename is the one it wrote before it
\* committed to the source, for as long as no other task of the directory is up:
\* whatever files earlier starts left behind, whatever is deleted and created
\* again, and whatever the tasks of other directories write, rename or clean up.
\* (Two tasks of one directory that are up together do take each other's files:
\* the second one's cleanup_uncommitted, or a save at the same epoch.)
Alone(t) ==
    \A r \in Tasks \ {t} :
        task[t] = "saved" /\ task[r] \in LiveStates \ {"spawned"} =>
            DirOf(r) # DirOf(t)
FileIsOwn(t) == task[t] = "saved" => tmp[TmpOf(t)] = t
SavedFileIsOwn ==
    [][\A t \in Tasks :
        Alone(t) /\ Alone(t)' /\ FileIsOwn(t) => FileIsOwn(t)']_vars
=============================================================================
