----------------------------- MODULE Operators -----------------------------
(***************************************************************************)
(* The incremental operators (crates/operators/src) on the Z-set of a      *)
(* batch.  A row is a function from column names to values, as in the      *)
(* program.  Epochs and watermarks, which the operators pass through, are  *)
(* left out.                                                               *)
(***************************************************************************)
EXTENDS ZSet, SequencesExt

CONSTANT Null       \* Value::Null

\* Row::get with the callers' unwrap_or(Value::Null), and Row::get_int.
Get(row, column) == IF column \in DOMAIN row THEN row[column] ELSE Null
GetInt(row, column) ==
    IF column \in DOMAIN row /\ row[column] \in Int THEN row[column] ELSE 0

\* The predicate is given as the set of rows that pass it.
Filter(z, passing) == Restrict(z, DOMAIN z \cap passing)

\* map: rows that become equal add their weights.
Map(z, f) == FoldSet(LAMBDA row, out : Insert(out, f[row], z[row]), Empty, DOMAIN z)

Project(row, columns) == Restrict(row, DOMAIN row \cap columns)

-----------------------------------------------------------------------------
(***************************************************************************)
(* AggregateState::apply_delta.  result maps the groups seen so far to     *)
(* their values; a group without an entry counts as 0, a group whose value *)
(* is 0 has no output row.  The delta is iterated in the given order.      *)
(***************************************************************************)
OutputRow(key, value) == [key |-> key, value |-> value]

NoGroups == Empty

\* A row of the output, unless its value is 0.
Emit(out, key, value, weight) ==
    IF value = 0 THEN out ELSE Insert(out, OutputRow(key, value), weight)

AggregateRow(state, key, contribution) ==
    LET old == Weight(state.result, key)
        new == old + contribution
    IN [result |-> [k \in DOMAIN state.result \cup {key} |->
                        IF k = key THEN new ELSE state.result[k]],
        out |-> Emit(Emit(state.out, key, old, -1), key, new, 1)]

\* The new result and the output delta; the rows of the delta come in the given
\* order; key and agg give the group of a row and what one of it contributes.
AggregateNoRetract(result, delta, order, key, agg) ==
    FoldLeft(LAMBDA state, row :
                LET next == AggregateRow(state, key[row], agg[row] * delta[row])
                IN IF row \in DOMAIN delta
                      THEN [next EXCEPT !.out =
                                Emit(state.out, key[row], next.result[key[row]], 1)]
                      ELSE state,
             [result |-> result, out |-> Empty], order)
ApplyAggregate(result, delta, order, key, agg) ==
    FoldLeft(LAMBDA state, row :
                IF row \in DOMAIN delta
                   THEN AggregateRow(state, key[row], agg[row] * delta[row])
                   ELSE state,
             [result |-> result, out |-> Empty], order)

-----------------------------------------------------------------------------
(***************************************************************************)
(* Joins.                                                                  *)
(***************************************************************************)

\* merged.extend(right): a column of both rows takes the right row's value.
JoinedRow(l, r) == r @@ l

\* Every pair of rows that match on the columns, with the product of their
\* weights (probe, probe_left_index, and the two loops of incremental_join).
Probe(left, right, leftKey, rightKey) ==
    FoldSet(LAMBDA pair, out :
                Insert(out, JoinedRow(pair[1], pair[2]),
                       left[pair[1]] * right[pair[2]]),
            Empty,
            {pair \in (DOMAIN left) \X (DOMAIN right) :
                Get(pair[1], leftKey) = Get(pair[2], rightKey)})

\* JoinState::apply_delta before the histories are updated.
JoinDelta(leftHistory, rightHistory, left, right, key) ==
    Merge(Merge(Probe(left, rightHistory, key, key),
                Probe(leftHistory, right, key, key)),
          Probe(left, right, key, key))

\* incremental_join, the join of SQL plans: no history.
IncrementalJoinOneKey(left, right, leftKey, rightKey) ==
    Probe(left, right, leftKey, leftKey)
IncrementalJoin(left, right, leftKey, rightKey) ==
    Probe(left, right, leftKey, rightKey)
=============================================================================
