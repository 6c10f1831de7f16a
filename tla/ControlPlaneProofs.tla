------------------------- MODULE ControlPlaneProofs -------------------------
(***************************************************************************)
(* Theorems about ControlPlane, for any set of pipeline names and any      *)
(* number of schedulers and tasks.                                         *)
(***************************************************************************)
EXTENDS ControlPlane, FiniteSetTheorems, TLAPS

\* The entries the gauge counts.
RunningNames == {n \in Names : status[n] = "Running"}

\* A set of pipelines has a cardinality the gauge can show.
LEMMA GaugeRange ==
    ASSUME NEW S \in SUBSET Names
    PROVE  Cardinality(S) \in 0..Cardinality(Names)
<1>1. IsFiniteSet(Names)
    BY ControlAssumption
<1>2. Cardinality(S) <= Cardinality(Names) /\ IsFiniteSet(S)
    BY <1>1, FS_Subset
<1>3. Cardinality(S) \in Nat /\ Cardinality(Names) \in Nat
    BY <1>1, <1>2, FS_CardinalityType
<1> QED
    BY <1>2, <1>3

\* A task's own step moves that task only, to a state no request puts it in.
LEMMA OneTaskMoves ==
    ASSUME TypeOK, NEW t \in Tasks, TaskStep(t) \/ TaskFails(t)
    PROVE  /\ task[t] \in LiveStates
           /\ \E st \in TaskStates \ {"unused", "spawned"} :
                task' = [task EXCEPT ![t] = st]
<1>1. CASE SetRunning(t) \/ ComeUp(t) \/ LoopContinues(t) \/ LoopEnds(t)
    BY <1>1 DEF SetRunning, ComeUp, LoopContinues, LoopEnds, LiveStates,
                TaskStates
<1>2. CASE ProcessBatch(t)
    BY <1>2 DEF ProcessBatch, LiveStates, TaskStates
<1>3. CASE Confirm(t)
    BY <1>3 DEF Confirm, LiveStates, TaskStates
<1>4. CASE TaskFails(t)
    BY <1>4 DEF TaskFails, LiveStates, TaskStates
<1> QED
    BY <1>1, <1>2, <1>3, <1>4 DEF TaskStep

\* Every reachable state is well typed, and an entry owns the scheduler it
\* refers to: no two pipelines share one, whatever was deleted and created
\* again in between.
THEOREM TypeCorrect == Spec => []TypeOK
<1>1. Init => TypeOK
  <2> SUFFICES ASSUME Init PROVE TypeOK
    OBVIOUS
  <2>1. 0 \in 0..Cardinality(Names)
    BY GaugeRange, ControlAssumption, FS_EmptySet
  <2>2. 0 \in 0..MaxSchedulers /\ 0 \in 0..MaxTasks
    BY ControlAssumption
  <2> QED
    BY <2>1, <2>2, ControlAssumption DEF Init, TypeOK, TaskStates
<1>2. TypeOK /\ [Next]_vars => TypeOK'
  <2> SUFFICES ASSUME TypeOK, [Next]_vars PROVE TypeOK'
    OBVIOUS
  <2> USE ControlAssumption DEF TypeOK, fileVars
  <2>1. ASSUME NEW n \in Names, CreatePipeline(n) PROVE TypeOK'
    <3> PICK s \in Schedulers :
            /\ owner[s] = NoEntry
            /\ owner' = [owner EXCEPT ![s] = n]
            /\ sched' = [sched EXCEPT ![n] = s]
        BY <2>1 DEF CreatePipeline
    <3> USE <2>1 DEF CreatePipeline, taskVars, Schedulers
    <3>1. /\ status' \in [Names -> {NoEntry, "Stopped", "Running"}]
          /\ sched' \in [Names -> 0..MaxSchedulers]
          /\ owner' \in [Schedulers -> Names \cup {NoEntry}]
        OBVIOUS
    <3>2. ASSUME NEW m \in Names, status'[m] # NoEntry
          PROVE  sched'[m] # 0 /\ owner'[sched'[m]] = m
        BY <3>2
    <3> QED
        BY <3>1, <3>2
  <2>2. ASSUME NEW n \in Names, DeletePipeline(n) PROVE TypeOK'
    BY <2>2 DEF DeletePipeline, taskVars
  <2>3. ASSUME NEW n \in Names, StartPipeline(n) PROVE TypeOK'
    <3> PICK t \in Tasks :
            /\ task' = [task EXCEPT ![t] = "spawned"]
            /\ schedOf' = [schedOf EXCEPT ![t] = sched[n]]
        BY <2>3 DEF StartPipeline
    <3>1. gauge' \in 0..Cardinality(Names)
        BY <2>3, GaugeRange DEF StartPipeline, UpdateRunningGauge
    <3> QED
        BY <2>3, <3>1 DEF StartPipeline, TaskStates, LiveStates
  <2>4. ASSUME NEW n \in Names, StopPipeline(n) PROVE TypeOK'
    <3>1. gauge' \in 0..Cardinality(Names)
        BY <2>4, GaugeRange DEF StopPipeline, UpdateRunningGauge
    <3> QED
        BY <2>4, <3>1 DEF StopPipeline, taskVars
  <2>5. ASSUME NEW t \in Tasks, TaskStep(t) PROVE TypeOK'
    <3>1. CASE SetRunning(t) \/ LoopContinues(t) \/ LoopEnds(t)
        BY <2>5, <3>1 DEF SetRunning, LoopContinues, LoopEnds, entryVars,
                          TaskStates, LiveStates
    <3>2. CASE ComeUp(t)
        BY <3>2 DEF ComeUp, CleanedUp, entryVars, TaskStates, LiveStates
    <3>3. CASE ProcessBatch(t)
      <4>1. t \in 0..MaxTasks
        BY DEF Tasks
      <4>2. /\ pending' \in [Tasks -> Epochs \cup {0}]
            /\ tmp' \in [TmpFiles -> 0..MaxTasks]
        BY <3>3, <4>1 DEF ProcessBatch
      <4>3. task' \in [Tasks -> TaskStates]
        BY <2>5, OneTaskMoves
      <4> QED
        BY <3>3, <4>2, <4>3 DEF ProcessBatch, entryVars
    <3>4. CASE Confirm(t)
      <4>1. pending' \in [Tasks -> Epochs \cup {0}]
        BY <3>4 DEF Confirm
      <4>2. tmp' = [tmp EXCEPT ![TmpOf(t)] = 0] /\ 0 \in 0..MaxTasks
        BY <3>4 DEF Confirm
      <4>3. tmp' \in [TmpFiles -> 0..MaxTasks]
        BY <4>2
      <4>4. task' \in [Tasks -> TaskStates]
        BY <2>5, OneTaskMoves
      <4> QED
        BY <3>4, <4>1, <4>3, <4>4 DEF Confirm, entryVars
    <3> QED
        BY <2>5, <3>1, <3>2, <3>3, <3>4 DEF TaskStep
  <2>6. ASSUME NEW t \in Tasks, TaskFails(t) PROVE TypeOK'
    BY <2>6 DEF TaskFails, entryVars, TaskStates
  <2>7. CASE UNCHANGED vars
    BY <2>7 DEF vars, entryVars, taskVars
  <2> QED
    BY <2>1, <2>2, <2>3, <2>4, <2>5, <2>6, <2>7 DEF Next
<1> QED
    BY <1>1, <1>2, PTL DEF Spec

\* The gauge shows the number of entries whose status is Running, although
\* create_pipeline and delete_pipeline never set it.
THEOREM GaugeCorrect == Spec => []GaugeCountsStatuses
<1>1. Init => GaugeCountsStatuses
  <2> SUFFICES ASSUME Init PROVE GaugeCountsStatuses
    OBVIOUS
  <2>1. {n \in Names : status[n] = "Running"} = {}
    BY ControlAssumption DEF Init
  <2> QED
    BY <2>1, FS_EmptySet DEF Init, GaugeCountsStatuses
<1>2. TypeOK /\ GaugeCountsStatuses /\ [Next]_vars => GaugeCountsStatuses'
  <2> SUFFICES ASSUME TypeOK, GaugeCountsStatuses, [Next]_vars
               PROVE  GaugeCountsStatuses'
    OBVIOUS
  <2>1. ASSUME RunningNames' = RunningNames, gauge' = gauge
        PROVE  GaugeCountsStatuses'
    BY <2>1 DEF GaugeCountsStatuses, RunningNames
  <2>2. ASSUME NEW n \in Names, CreatePipeline(n) PROVE GaugeCountsStatuses'
    BY <2>1, <2>2, ControlAssumption
       DEF CreatePipeline, RunningNames, TypeOK
  <2>3. ASSUME NEW n \in Names, DeletePipeline(n) PROVE GaugeCountsStatuses'
    BY <2>1, <2>3, ControlAssumption
       DEF DeletePipeline, RunningNames, TypeOK
  <2>4. ASSUME NEW n \in Names, StartPipeline(n) \/ StopPipeline(n)
        PROVE  GaugeCountsStatuses'
    BY <2>4 DEF StartPipeline, StopPipeline, UpdateRunningGauge,
                GaugeCountsStatuses
  <2>5. ASSUME NEW t \in Tasks, TaskStep(t) \/ TaskFails(t)
        PROVE  GaugeCountsStatuses'
    BY <2>1, <2>5 DEF TaskStep, SetRunning, ComeUp, LoopContinues,
                      ProcessBatch, Confirm, LoopEnds, TaskFails, entryVars,
                      RunningNames
  <2>6. CASE UNCHANGED vars
    BY <2>1, <2>6 DEF vars, entryVars, RunningNames
  <2> QED
    BY <2>2, <2>3, <2>4, <2>5, <2>6 DEF Next
<1> QED
    BY <1>1, <1>2, TypeCorrect, PTL DEF Spec

\* What enables the pipeline called n: its scheduler's flag, or a task that is
\* about to set it.
Enabled(n) ==
    \/ flag[sched[n]]
    \/ \E t \in TasksOf(sched[n]) : task[t] = "spawned"

\* A pipeline that is reported Running is enabled or about to be, with any
\* number of tasks of earlier starts still around.
THEOREM RunningEnabled == Spec => []RunningIsEnabled
<1>1. Init => RunningIsEnabled
    BY ControlAssumption DEF Init, RunningIsEnabled
<1>2. TypeOK /\ RunningIsEnabled /\ [Next]_vars => RunningIsEnabled'
  <2> SUFFICES ASSUME TypeOK, RunningIsEnabled, [Next]_vars,
                      NEW m \in Names, status'[m] = "Running"
               PROVE  Enabled(m)'
    BY DEF RunningIsEnabled, Enabled
  <2> USE ControlAssumption DEF TypeOK
  <2>1. status[m] = "Running" => Enabled(m)
    BY DEF RunningIsEnabled, Enabled
  <2>2. status[m] = "Running" => sched[m] \in Schedulers
    BY DEF Schedulers
  <2>3. ASSUME NEW n \in Names, CreatePipeline(n) PROVE Enabled(m)'
    <3>1. m # n /\ status[m] = "Running"
        BY <2>3 DEF CreatePipeline
    <3>2. sched'[m] = sched[m]
        BY <2>3, <3>1 DEF CreatePipeline
    <3> QED
        BY <2>1, <2>3, <3>1, <3>2 DEF CreatePipeline, taskVars, Enabled, TasksOf
  <2>4. ASSUME NEW n \in Names, DeletePipeline(n) PROVE Enabled(m)'
    <3>1. m # n /\ status[m] = "Running"
        BY <2>4 DEF DeletePipeline
    <3>2. sched'[m] = sched[m]
        BY <2>4, <3>1 DEF DeletePipeline
    <3> QED
        BY <2>1, <2>4, <3>1, <3>2 DEF DeletePipeline, taskVars, Enabled, TasksOf
  <2>5. ASSUME NEW n \in Names, StartPipeline(n) PROVE Enabled(m)'
    <3> PICK t \in Tasks :
            /\ task[t] = "unused"
            /\ task' = [task EXCEPT ![t] = "spawned"]
            /\ schedOf' = [schedOf EXCEPT ![t] = sched[n]]
        BY <2>5 DEF StartPipeline
    <3>1. CASE m = n
        BY <2>5, <3>1 DEF StartPipeline, Enabled, TasksOf
    <3>2. CASE m # n
      <4>1. Enabled(m)
        BY <2>1, <2>5, <3>2 DEF StartPipeline
      <4> QED
        BY <2>5, <4>1 DEF StartPipeline, Enabled, TasksOf
    <3> QED
        BY <3>1, <3>2
  <2>6. ASSUME NEW n \in Names, StopPipeline(n) PROVE Enabled(m)'
    <3>1. m # n /\ status[m] = "Running"
        BY <2>6 DEF StopPipeline
    <3>2. sched[m] # sched[n]
        BY <2>6, <3>1 DEF StopPipeline
    <3> QED
        BY <2>1, <2>2, <2>6, <3>1, <3>2
           DEF StopPipeline, taskVars, Enabled, TasksOf
  <2>7. ASSUME NEW t \in Tasks, SetRunning(t) PROVE Enabled(m)'
    <3>1. status[m] = "Running"
        BY <2>7 DEF SetRunning, entryVars
    <3> QED
        BY <2>1, <2>2, <2>7, <3>1 DEF SetRunning, entryVars, Enabled, TasksOf
  <2>8. ASSUME NEW t \in Tasks,
               \/ ComeUp(t) \/ LoopContinues(t) \/ ProcessBatch(t)
               \/ Confirm(t) \/ LoopEnds(t) \/ TaskFails(t)
        PROVE  Enabled(m)'
    <3>1. status[m] = "Running" /\ flag' = flag /\ sched' = sched
        BY <2>8 DEF ComeUp, LoopContinues, ProcessBatch, Confirm, LoopEnds,
                    TaskFails, entryVars
    <3>2. \A r \in Tasks : task[r] = "spawned" => task'[r] = "spawned"
        BY <2>8 DEF ComeUp, LoopContinues, ProcessBatch, Confirm, LoopEnds,
                    TaskFails
    <3>3. schedOf' = schedOf
        BY <2>8 DEF ComeUp, LoopContinues, ProcessBatch, Confirm, LoopEnds,
                    TaskFails
    <3> QED
        BY <2>1, <3>1, <3>2, <3>3 DEF Enabled, TasksOf
  <2>9. CASE UNCHANGED vars
    BY <2>1, <2>9 DEF vars, entryVars, taskVars, Enabled, TasksOf
  <2> QED
    BY <2>3, <2>4, <2>5, <2>6, <2>7, <2>8, <2>9 DEF Next, TaskStep
<1> QED
    BY <1>1, <1>2, TypeCorrect, PTL DEF Spec

\* A deleted pipeline stays dead: no request and no task revives a scheduler
\* that has no entry, its flag down and no task about to set it.
THEOREM DeletedIsDown == Spec => DeletedStaysDown
<1>1. ASSUME TypeOK, [Next]_vars, NEW s \in Schedulers, Dead(s)
      PROVE  Dead(s)'
  <2> USE <1>1, ControlAssumption DEF TypeOK
  <2>1. ASSUME NEW n \in Names, CreatePipeline(n) PROVE Dead(s)'
    <3> PICK r \in Schedulers :
            /\ owner[r] = NoEntry
            /\ owner' = [owner EXCEPT ![r] = n]
            /\ sched' = [sched EXCEPT ![n] = r]
        BY <2>1 DEF CreatePipeline
    <3>1. r # s
        BY DEF Dead
    <3> QED
        BY <2>1, <3>1 DEF CreatePipeline, taskVars, Dead, TasksOf
  <2>2. ASSUME NEW n \in Names, DeletePipeline(n) PROVE Dead(s)'
    BY <2>2 DEF DeletePipeline, taskVars, Dead, TasksOf, Schedulers
  <2>3. ASSUME NEW n \in Names, StartPipeline(n) PROVE Dead(s)'
    BY <2>3 DEF StartPipeline, Dead, TasksOf
  <2>4. ASSUME NEW n \in Names, StopPipeline(n) PROVE Dead(s)'
    BY <2>4 DEF StopPipeline, taskVars, Dead, TasksOf
  <2>5. ASSUME NEW t \in Tasks, SetRunning(t) PROVE Dead(s)'
    BY <2>5 DEF SetRunning, entryVars, Dead, TasksOf
  <2>6. ASSUME NEW t \in Tasks,
               \/ ComeUp(t) \/ LoopContinues(t) \/ ProcessBatch(t)
               \/ Confirm(t) \/ LoopEnds(t) \/ TaskFails(t)
        PROVE  Dead(s)'
    <3>1. UNCHANGED <<sched, owner, flag, schedOf>>
        BY <2>6 DEF ComeUp, LoopContinues, ProcessBatch, Confirm, LoopEnds,
                    TaskFails, entryVars
    <3>2. \A r \in Tasks : task'[r] = "spawned" => task[r] = "spawned"
        BY <2>6, OneTaskMoves DEF TaskStep
    <3> QED
        BY <3>1, <3>2 DEF Dead, TasksOf
  <2>7. CASE UNCHANGED vars
    BY <2>7 DEF vars, entryVars, taskVars, Dead, TasksOf
  <2> QED
    BY <2>1, <2>2, <2>3, <2>4, <2>5, <2>6, <2>7 DEF Next, TaskStep
<1>2. TypeOK /\ [Next]_vars => \A s \in Schedulers : Dead(s) => Dead(s)'
    BY <1>1
<1> QED
    BY <1>2, TypeCorrect, PTL DEF Spec, DeletedStaysDown

\* A task that is not unused runs a scheduler that was created.
SchedulerOwned ==
    \A t \in Tasks : task[t] # "unused" =>
        schedOf[t] \in Schedulers /\ owner[schedOf[t]] # NoEntry

LEMMA DirectoriesStay ==
    ASSUME TypeOK, SchedulerOwned, [Next]_vars
    PROVE  /\ SchedulerOwned'
           /\ \A t \in Tasks : task[t] # "unused" => DirOf(t)' = DirOf(t)
<1> USE ControlAssumption DEF TypeOK, SchedulerOwned, DirOf
<1>1. ASSUME NEW n \in Names, CreatePipeline(n)
      PROVE  \A s \in Schedulers : owner[s] # NoEntry => owner'[s] = owner[s]
    BY <1>1 DEF CreatePipeline
<1>2. ASSUME NEW n \in Names, StartPipeline(n)
      PROVE  SchedulerOwned' /\ \A t \in Tasks : task[t] # "unused" =>
                schedOf'[t] = schedOf[t] /\ task'[t] = task[t]
  <2>1. sched[n] \in Schedulers /\ owner[sched[n]] # NoEntry
    BY <1>2 DEF StartPipeline, Schedulers
  <2> QED
    BY <1>2, <2>1 DEF StartPipeline
<1>3. ASSUME NEW t \in Tasks, TaskStep(t) \/ TaskFails(t)
      PROVE  /\ owner' = owner /\ schedOf' = schedOf
             /\ task[t] # "unused"
             /\ \A r \in Tasks : r # t => task'[r] = task[r]
    BY <1>3 DEF TaskStep, SetRunning, ComeUp, LoopContinues, ProcessBatch,
                Confirm, LoopEnds, TaskFails, LiveStates
<1>4. ASSUME NEW n \in Names, DeletePipeline(n) \/ StopPipeline(n)
      PROVE  UNCHANGED <<owner, schedOf, task>>
    BY <1>4 DEF DeletePipeline, StopPipeline, taskVars
<1>5. CASE \E n \in Names : CreatePipeline(n)
    BY <1>1, <1>5 DEF CreatePipeline, taskVars
<1>6. CASE \E n \in Names : StartPipeline(n)
    BY <1>2, <1>6 DEF StartPipeline
<1>7. CASE \E t \in Tasks : TaskStep(t) \/ TaskFails(t)
    BY <1>3, <1>7
<1>8. CASE \E n \in Names : DeletePipeline(n) \/ StopPipeline(n)
    BY <1>4, <1>8
<1>9. CASE UNCHANGED vars
    BY <1>9 DEF vars, taskVars
<1> QED
    BY <1>5, <1>6, <1>7, <1>8, <1>9 DEF Next

\* A directory is a pipeline's.
LEMMA DirIsName ==
    ASSUME TypeOK, SchedulerOwned, NEW t \in Tasks, task[t] # "unused"
    PROVE  DirOf(t) \in Names
BY DEF TypeOK, SchedulerOwned, DirOf

\* A task that has saved has a checkpoint to confirm.
PendingIsSet == \A t \in Tasks : task[t] = "saved" => pending[t] \in Epochs

\* A step of another task leaves alone the .tmp file of a task that is alone in
\* its directory: what cleanup_uncommitted, a save or a rename touches is in
\* another directory.
LEMMA OthersKeepOut ==
    ASSUME TypeOK, SchedulerOwned, PendingIsSet,
           NEW t \in Tasks, task[t] = "saved", Alone(t),
           NEW r \in Tasks \ {t}, TaskStep(r) \/ TaskFails(r)
    PROVE  tmp'[TmpOf(t)] = tmp[TmpOf(t)] /\ TmpOf(t)' = TmpOf(t)
<1> USE ControlAssumption DEF TypeOK
<1>1. TmpOf(t)' = TmpOf(t)
    BY DEF TaskStep, SetRunning, ComeUp, LoopContinues, ProcessBatch, Confirm,
           LoopEnds, TaskFails, TmpOf, DirOf, fileVars
<1>2. TmpOf(t) \in TmpFiles /\ TmpOf(t)[1] = DirOf(t)
    BY DirIsName DEF PendingIsSet, TmpOf, TmpFiles
<1>3. CASE SetRunning(r) \/ LoopContinues(r) \/ LoopEnds(r) \/ TaskFails(r)
    BY <1>1, <1>3 DEF SetRunning, LoopContinues, LoopEnds, TaskFails, fileVars
<1>4. CASE ComeUp(r) \/ ProcessBatch(r) \/ Confirm(r)
  <2>1. DirOf(r) \in Names /\ DirOf(r) # DirOf(t)
    BY <1>4, DirIsName DEF ComeUp, ProcessBatch, Confirm, Alone, LiveStates
  <2>2. CASE ComeUp(r)
    BY <1>1, <1>2, <2>1, <2>2 DEF ComeUp, CleanedUp
  <2>3. CASE ProcessBatch(r)
    BY <1>1, <1>2, <2>1, <2>3 DEF ProcessBatch, TmpOf, fileVars
  <2>4. CASE Confirm(r)
    BY <1>1, <1>2, <2>1, <2>4 DEF Confirm, TmpOf
  <2> QED
    BY <1>4, <2>2, <2>3, <2>4
<1> QED
    BY <1>3, <1>4 DEF TaskStep

\* One step keeps the file of a task that is alone its own.
LEMMA AloneKeepsFile ==
    ASSUME TypeOK, SchedulerOwned, PendingIsSet, [Next]_vars,
           NEW t \in Tasks, Alone(t), FileIsOwn(t)
    PROVE  FileIsOwn(t)'
<1> SUFFICES ASSUME task'[t] = "saved" PROVE (tmp[TmpOf(t)])' = t
    BY DEF FileIsOwn
<1> USE ControlAssumption DEF TypeOK
<1>1. CASE \E n \in Names : \/ CreatePipeline(n) \/ DeletePipeline(n)
                            \/ StartPipeline(n) \/ StopPipeline(n)
  <2>1. UNCHANGED fileVars /\ task[t] = "saved"
    BY <1>1 DEF CreatePipeline, DeletePipeline, StartPipeline, StopPipeline,
                taskVars, fileVars
  <2>2. TmpOf(t)' = TmpOf(t)
    BY <2>1, DirectoriesStay DEF TmpOf, fileVars
  <2> QED
    BY <2>1, <2>2 DEF FileIsOwn, fileVars
<1>2. ASSUME NEW r \in Tasks \ {t}, TaskStep(r) \/ TaskFails(r)
      PROVE  (tmp[TmpOf(t)])' = t
  <2>1. task[t] = "saved"
    BY <1>2, OneTaskMoves
  <2> QED
    BY <1>2, <2>1, OthersKeepOut DEF FileIsOwn
<1>3. CASE TaskStep(t) \/ TaskFails(t)
  <2>1. PICK e \in Epochs :
            /\ task[t] = "batch"
            /\ pending' = [pending EXCEPT ![t] = e]
            /\ tmp' = [tmp EXCEPT ![<<DirOf(t), e>>] = t]
            /\ UNCHANGED <<owner, schedOf>>
    BY <1>3 DEF TaskStep, SetRunning, ComeUp, LoopContinues, ProcessBatch,
                Confirm, LoopEnds, TaskFails
  <2>2. <<DirOf(t), e>> \in TmpFiles
    BY <2>1, DirIsName DEF TmpFiles
  <2>3. TmpOf(t)' = <<DirOf(t), e>>
    BY <2>1 DEF TmpOf, DirOf
  <2> QED
    BY <2>1, <2>2, <2>3
<1>4. CASE UNCHANGED vars
    BY <1>4 DEF vars, taskVars, fileVars, TmpOf, DirOf, FileIsOwn
<1> QED
    BY <1>1, <1>2, <1>3, <1>4 DEF Next

LEMMA FileInvariants == Spec => [](SchedulerOwned /\ PendingIsSet)
<1>1. Init => SchedulerOwned /\ PendingIsSet
    BY DEF Init, SchedulerOwned, PendingIsSet
<1>2. TypeOK /\ SchedulerOwned /\ PendingIsSet /\ [Next]_vars
        => SchedulerOwned' /\ PendingIsSet'
  <2> SUFFICES ASSUME TypeOK, SchedulerOwned, PendingIsSet, [Next]_vars
               PROVE  PendingIsSet'
    BY DirectoriesStay
  <2> USE DEF TypeOK, PendingIsSet
  <2>1. ASSUME NEW n \in Names,
               \/ CreatePipeline(n) \/ DeletePipeline(n)
               \/ StartPipeline(n) \/ StopPipeline(n)
        PROVE  PendingIsSet'
    BY <2>1 DEF CreatePipeline, DeletePipeline, StartPipeline, StopPipeline,
                taskVars, fileVars
  <2>2. ASSUME NEW t \in Tasks,
               \/ SetRunning(t) \/ ComeUp(t) \/ LoopContinues(t) \/ LoopEnds(t)
        PROVE  PendingIsSet'
    BY <2>2 DEF SetRunning, ComeUp, LoopContinues, LoopEnds, fileVars
  <2>3. ASSUME NEW t \in Tasks, ProcessBatch(t) PROVE PendingIsSet'
    BY <2>3 DEF ProcessBatch, fileVars
  <2>4. ASSUME NEW t \in Tasks, Confirm(t) \/ TaskFails(t) PROVE PendingIsSet'
    BY <2>4 DEF Confirm, TaskFails
  <2>5. CASE UNCHANGED vars
    BY <2>5 DEF vars, taskVars, fileVars
  <2> QED
    BY <2>1, <2>2, <2>3, <2>4, <2>5 DEF Next, TaskStep
<1> QED
    BY <1>1, <1>2, TypeCorrect, PTL DEF Spec

\* No step takes the .tmp file of a task that is alone in its directory, whatever
\* was stopped, deleted and created again before and whatever the tasks of other
\* directories do.
THEOREM FileIsTheTasksOwn == Spec => SavedFileIsOwn
<1>1. TypeOK /\ SchedulerOwned /\ PendingIsSet /\ [Next]_vars
        => \A t \in Tasks :
             Alone(t) /\ Alone(t)' /\ FileIsOwn(t) => FileIsOwn(t)'
    BY AloneKeepsFile
<1> QED
    BY <1>1, TypeCorrect, FileInvariants, PTL DEF Spec, SavedFileIsOwn

\* So a task that is never up together with another one of its directory renames
\* what it wrote: every checkpoint it confirms is its own, and no confirm of it
\* fails for want of the file.
THEOREM AloneConfirmsItsOwn ==
    ASSUME NEW t \in Tasks
    PROVE  Spec /\ []Alone(t) => []FileIsOwn(t)
<1>1. Init => FileIsOwn(t)
    BY DEF Init, FileIsOwn
<1>2. TypeOK /\ SchedulerOwned /\ PendingIsSet /\ Alone(t) /\ FileIsOwn(t)
        /\ [Next]_vars => FileIsOwn(t)'
    BY AloneKeepsFile
<1> QED
    BY <1>1, <1>2, TypeCorrect, FileInvariants, PTL DEF Spec
=============================================================================
