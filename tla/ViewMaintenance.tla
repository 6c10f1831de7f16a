-------------------------- MODULE ViewMaintenance --------------------------
(***************************************************************************)
(* What a pipeline makes of the batches it is given: Pipeline::new,        *)
(* apply_batch and apply_join_delta (crates/runtime/src/pipeline.rs), the  *)
(* execution of an SQL plan (crates/planner/src/executor.rs), and what a   *)
(* checkpoint, a restart and the copy of a table do to the view            *)
(* (crates/runtime/src/scheduler.rs).  When batches arrive and how a       *)
(* source replays them is the business of KafkaPipeline and PgPipeline:    *)
(* here a source that resumes from a checkpoint resumes exactly where the  *)
(* checkpoint was taken.                                                   *)
(***************************************************************************)
EXTENDS Planner

CONSTANTS
    Configs,        \* the configurations a pipeline can be created with
    LeftRows,       \* rows of the left input of a join,
    RightRows,      \* and of the right one
    MaxWeight,      \* bound: weight of a row in a source
    MaxDelta,       \* bound: rows of a batch
    JoinKey,        \* the column of join_key_fn, "id"
    NoSql,          \* a configuration without "sql"
    NoText          \* the empty row_json

\* A configuration (PipelineConfig): the rows its source can hold; kafka or
\* Postgres, and the topic; the SELECT; the list of operators, each with its
\* columns; saves says whether epochs advance far enough for a checkpoint.
\* No row, and no part of one, has an empty text.
ASSUME ViewAssumption ==
    /\ MaxWeight \in Nat /\ MaxDelta \in Nat
    /\ \A c \in Configs :
        /\ DOMAIN c = {"rows", "kafka", "topic", "sql", "ops", "saves"}
        /\ \A op \in Range(c.ops) :
            op.type \in {"filter", "aggregate_count", "aggregate_sum", "join"}
        /\ c.ops \in Seq(Range(c.ops))
        /\ c.sql # NoSql => c.sql.joins \in Seq(Range(c.sql.joins))
        /\ c.kafka \in BOOLEAN /\ c.saves \in BOOLEAN
        /\ \A row \in c.rows :
            /\ row # NoText
            /\ \A columns \in SUBSET DOMAIN row : Project(row, columns) # NoText

VARIABLES
    config,         \* pipeline.config; never changes
    acc,            \* pipeline.accumulated
    result,         \* AggregateState.result
    left_history,   \* JoinState.left_history
    right_history,  \* JoinState.right_history
    joined,         \* history: the sum of what apply_join_delta returned
    source,         \* history: the sum of the batches the view stands for
    saved           \* the checkpoint, with the value source had

joinVars == <<left_history, right_history, joined>>
vars == <<config, acc, result, left_history, right_history, joined, source, saved>>

\* The name apply_batch gives the batch.
SourceTable == IF config.kafka THEN config.topic ELSE "default"

\* new() keeps a plan if there is an SQL text and it can be planned; otherwise
\* the operators run, and nobody is told.
UsesSql == config.sql # NoSql /\ Plannable(config.sql)

\* All aggregates of a list share the state that new() makes for the first.
IsAggregateOp(op) == op.type \in {"aggregate_count", "aggregate_sum"}
FirstAggregate ==
    config.ops[Min({i \in DOMAIN config.ops : IsAggregateOp(config.ops[i])})]
StateKey(row) == Get(row, FirstAggregate.key_column)
StateValue(row) ==
    IF FirstAggregate.type = "aggregate_sum"
       THEN GetInt(row, FirstAggregate.value_column)
       ELSE 1

\* A filter compares what is printed: op.values are the values whose text is the
\* configured one, the text itself and, if there is one, the integer.
PassesFilter(op, row) == Get(row, op.column) \in op.values

\* One operator of the list; a join passes its input on.
RunOperator(state, op, order) ==
    LET z == state.out IN
    CASE op.type = "filter" ->
            [state EXCEPT !.out =
                Filter(z, {row \in DOMAIN z : PassesFilter(op, row)})]
      [] IsAggregateOp(op) ->
            ApplyAggregate(state.result, z, Arrange(z, order),
                           [row \in DOMAIN z |-> StateKey(row)],
                           [row \in DOMAIN z |-> StateValue(row)])
      [] OTHER -> state

\* What apply_batch makes of a batch: the new aggregate, and its output.
Run(delta, order) ==
    IF UsesSql
       THEN Execute(PlanSelect(config.sql), [t \in {SourceTable} |-> delta],
                    result, order)
       ELSE FoldLeft(LAMBDA state, op : RunOperator(state, op, order),
                     [result |-> result, out |-> delta], config.ops)

-----------------------------------------------------------------------------
(***************************************************************************)
(* The view in a parquet file: a record for every row; a record with an    *)
(* empty text stands for a view without rows, and is passed over.          *)
(***************************************************************************)
Records(z) ==
    IF DOMAIN z = {}
       THEN {[row_json |-> NoText, weight |-> 0]}
       ELSE {[row_json |-> row, weight |-> z[row]] : row \in DOMAIN z}

ReadRecords(records) ==
    FoldSet(LAMBDA record, z : Insert(z, record.row_json, record.weight), Empty,
            {record \in records : record.row_json # NoText})

\* Nothing has been saved: there is no file.
NoSave == [view |-> {}, source |-> Empty]

-----------------------------------------------------------------------------
\* The changes a source can send when it has sent z: no row is deleted that is
\* not there.
Deltas(rows, z) ==
    {d \in UNION {[S -> (-MaxWeight..MaxWeight) \ {0}] :
                    S \in {S \in SUBSET rows : IsFiniteSet(S) /\ Cardinality(S) <= MaxDelta}} :
        \A r \in DOMAIN d : Weight(z, r) + d[r] \in 0..MaxWeight}

Init ==
    /\ config \in Configs
    /\ acc = Empty
    /\ result = NoGroups
    /\ left_history = Empty /\ right_history = Empty
    /\ joined = Empty
    /\ source = Empty
    /\ saved = NoSave

\* A Postgres pipeline gets no batch before the copy of the table is saved.
ApplyBatch(delta, order) ==
    /\ config.kafka \/ saved # NoSave
    /\ LET applied == Run(delta, order)
       IN /\ result' = applied.result
          /\ acc' = Merge(acc, applied.out)
    /\ source' = Merge(source, delta)
    /\ UNCHANGED <<config, joinVars, saved>>

\* new() makes a JoinState for a list of operators with a join.
HasJoin == ~UsesSql /\ \E op \in Range(config.ops) : op.type = "join"

ApplyJoinDeltaMergesFirst(left, right) ==
    /\ HasJoin
    /\ left_history' = Merge(left_history, left)
    /\ right_history' = Merge(right_history, right)
    /\ joined' = Merge(joined, JoinDelta(left_history', right_history',
                                         left, right, JoinKey))
    /\ UNCHANGED <<config, acc, result, source, saved>>

\* The output goes to the caller, not into the view.
ApplyJoinDelta(left, right) ==
    /\ HasJoin
    /\ joined' = Merge(joined, JoinDelta(left_history, right_history,
                                         left, right, JoinKey))
    /\ left_history' = Merge(left_history, left)
    /\ right_history' = Merge(right_history, right)
    /\ UNCHANGED <<config, acc, result, source, saved>>

\* A checkpoint holds the accumulated Z-set and nothing else.
Save ==
    /\ config.saves
    /\ config.kafka \/ saved # NoSave
    /\ saved' = [view |-> Records(acc), source |-> source]
    /\ UNCHANGED <<config, acc, result, joinVars, source>>

RestartKeepsView ==
    /\ result' = NoGroups
    /\ left_history' = Empty /\ right_history' = Empty /\ joined' = Empty
    /\ source' = IF saved = NoSave THEN Empty ELSE saved.source
    /\ UNCHANGED <<config, acc, saved>>

\* The process dies; a new one builds the pipeline and restores the view.
Restart ==
    /\ result' = NoGroups
    /\ left_history' = Empty /\ right_history' = Empty /\ joined' = Empty
    /\ IF saved = NoSave
          THEN acc' = Empty /\ source' = Empty
          ELSE acc' = ReadRecords(saved.view) /\ source' = saved.source
    /\ UNCHANGED <<config, saved>>

\* The pipeline is stopped and started: the same pipeline, the view restored.
Reload ==
    /\ saved # NoSave
    /\ acc' = ReadRecords(saved.view) /\ source' = saved.source
    /\ UNCHANGED <<config, result, joinVars, saved>>

\* start() of a Postgres pipeline that restored nothing merges the copy of the
\* table into the view, and saves it.
Bootstrap(rows) ==
    /\ ~config.kafka
    /\ saved = NoSave
    /\ acc' = Merge(acc, rows)
    /\ source' = rows
    /\ saved' = [view |-> Records(acc'), source |-> rows]
    /\ UNCHANGED <<config, result, joinVars>>

Next ==
    \/ \E delta \in Deltas(config.rows, source) :
        \E order \in SetToSeqs(DOMAIN delta) : ApplyBatch(delta, order)
    \/ \E left \in Deltas(LeftRows, left_history),
          right \in Deltas(RightRows, right_history) : ApplyJoinDelta(left, right)
    \/ Save \/ Restart \/ Reload
    \/ \E rows \in Deltas(config.rows, Empty) : Bootstrap(rows)

Spec == Init /\ [][Next]_vars

-----------------------------------------------------------------------------
(***************************************************************************)
(* Properties: the view against its definition, evaluated on everything    *)
(* the source has sent.                                                    *)
(***************************************************************************)

\* What the configuration asks for: which rows, of which group, with which
\* value.
Aggregating ==
    IF UsesSql THEN HasAggregate(config.sql)
               ELSE \E op \in Range(config.ops) : IsAggregateOp(op)
Selected(row) ==
    IF UsesSql
       THEN EvalPredicate(Range(config.sql.where), row)
       ELSE \A op \in Range(config.ops) : op.type = "filter" => PassesFilter(op, row)
GroupOf(row) ==
    IF UsesSql THEN GroupKey(config.sql.group_by, row) ELSE StateKey(row)
ValueOf(row) ==
    IF UsesSql
       THEN Contribution(Aggregates(config.sql), row)
       ELSE StateValue(row)

Total(group) ==
    SumOver([row \in DOMAIN source |-> ValueOf(row) * source[row]],
            {row \in DOMAIN source : Selected(row) /\ GroupOf(row) = group})

\* A view with an aggregate, kept by a plan or by a list of operators, has one
\* row with weight 1 for every group whose total is not 0, and nothing else:
\* every earlier value of a group has been retracted, whatever the order in
\* which the rows of a batch are visited.
AggregateViewExact ==
    Aggregating =>
        LET groups == {g \in {GroupOf(row) : row \in config.rows} : Total(g) # 0}
        IN acc = [row \in {OutputRow(g, Total(g)) : g \in groups} |-> 1]

\* A view without an aggregate holds the selected rows with their weights, the
\* weights of rows that project to the same row added, across checkpoints,
\* restarts, reloads and the copy of a table.  (A plan with a JOIN gets the
\* batches of one table only and joins nothing.)
Projected(row) ==
    IF ~UsesSql \/ ColumnNames(config.sql) = {}
       THEN row
       ELSE Project(row, ColumnNames(config.sql))
SelectedViewExact ==
    ~Aggregating /\ (UsesSql => config.sql.joins = <<>>) =>
        \A row \in {Projected(r) : r \in config.rows} :
            Weight(acc, row) =
                SumOver(source, {r \in DOMAIN source :
                                    Selected(r) /\ Projected(r) = row})

\* The weight of an output row in the join of two whole inputs, by the
\* definition of a join of multisets.
JoinWeight(row, left, right) ==
    SumOver([pair \in (DOMAIN left) \X (DOMAIN right) |->
                left[pair[1]] * right[pair[2]]],
            {pair \in (DOMAIN left) \X (DOMAIN right) :
                /\ Get(pair[1], JoinKey) = Get(pair[2], JoinKey)
                /\ JoinedRow(pair[1], pair[2]) = row})

\* The accumulated output of apply_join_delta is the join of everything it was
\* given, whatever mix of inserts and deletes on both sides led there.
JoinIsMaintained ==
    \A row \in {JoinedRow(l, r) : l \in LeftRows, r \in RightRows} :
        Weight(joined, row) = JoinWeight(row, left_history, right_history)

\* No row is kept with weight 0, in the view, the joins' histories or their
\* output: len() counts rows that exist (it is the queue depth backpressure is
\* decided by), and every stored row is written to the checkpoint.
NoRowOfWeightZero ==
    /\ Canonical(acc) /\ Canonical(joined)
    /\ Canonical(left_history) /\ Canonical(right_history)

\* The engine maintains "views (joins, aggregations, filters) incrementally over
\* change batches, and checkpoints state to Parquet", with "fault recovery"
\* (README, first paragraph): an aggregate view is what it would have been
\* without the restart.
ViewSurvivesRestart == AggregateViewExact
=============================================================================
