------------------------------- MODULE Planner -------------------------------
(***************************************************************************)
(* The SQL planner (crates/planner/src): plan_select (parser.rs), which    *)
(* turns a SELECT into a plan or fails, and execute (executor.rs).         *)
(*                                                                         *)
(* A SELECT is what the sqlparser crate makes of its text: a record with   *)
(* the fields                                                              *)
(*   from      the table,                                                  *)
(*   joins     a sequence of [table, kind, left, right], left and right    *)
(*             being the columns compared in the ON of an inner join,      *)
(*   where     a sequence of conditions [column, op, type, literal] that   *)
(*             are joined by AND,                                          *)
(*   group_by  a sequence of columns,                                      *)
(*   items     a sequence of [kind, func, column, alias]: a column, a call *)
(*             of func, or "*".                                            *)
(* An expression that is none of these, in any of the places, is           *)
(* Expression.  Qualifiers of columns are dropped by the planner.          *)
(***************************************************************************)
EXTENDS Operators

CONSTANTS
    Expression,     \* any other expression
    NoAlias,        \* an item without AS
    Star            \* the key of the only group, the text "*"

\* A literal the planner takes: expr_to_sql_value, and for < and > expr_to_i64.
ConditionIsPlannable(c) ==
    /\ c.column # Expression
    /\ \/ c.op = "=" /\ c.type \in {"int", "text", "bool"}
       \/ c.op \in {"<", ">"} /\ c.type = "int"

\* sql_to_plan is Ok.
Plannable(select) ==
    /\ \A join \in Range(select.joins) :
        /\ join.kind = "inner_eq"
        /\ Expression \notin {join.left, join.right}
    /\ \A c \in Range(select.where) : ConditionIsPlannable(c)
    /\ Expression \notin Range(select.group_by)

\* parse_agg_expr is Ok.
IsAggregate(item) ==
    /\ item.kind = "call"
    /\ item.func \in {"COUNT", "SUM", "MIN", "MAX"}
    /\ item.column # Expression
Aggregates(select) == SelectSeq(select.items, IsAggregate)

\* A plan with GROUP BY, or with a call that has no alias, aggregates.
HasAggregate(select) ==
    \/ select.group_by # <<>>
    \/ \E item \in Range(select.items) : item.kind = "call" /\ item.alias = NoAlias

Named(item) ==
    \/ item.alias # NoAlias
    \/ item.kind = "column" /\ item.column # Expression
ColumnNames(select) ==
    {IF item.alias # NoAlias THEN item.alias ELSE item.column :
        item \in {item \in Range(select.items) : Named(item)}}

AggregateOrProject(select) ==
    IF HasAggregate(select)
       THEN <<[node |-> "aggregate", group_by |-> select.group_by,
               aggregates |-> Aggregates(select)]>>
       ELSE IF ColumnNames(select) = {}
               THEN <<>>
               ELSE <<[node |-> "project", columns |-> ColumnNames(select)]>>

\* The nodes of the plan, from the scan upwards.
PlanSelect(select) ==
    <<[node |-> "scan", table |-> select.from]>>
    \o [i \in DOMAIN select.joins |->
            [node |-> "join", table |-> select.joins[i].table,
             left_key |-> select.joins[i].left, right_key |-> select.joins[i].right]]
    \o (IF select.where = <<>>
           THEN <<>>
           ELSE <<[node |-> "filter", predicate |-> Range(select.where)]>>)
    \o AggregateOrProject(select)

-----------------------------------------------------------------------------
(***************************************************************************)
(* execute.                                                                *)
(***************************************************************************)

\* eval_predicate; a row without the column, or with a value of another type,
\* does not pass.
Passes(c, row) ==
    /\ c.column \in DOMAIN row
    /\ CASE c.op = "=" -> row[c.column] = c.literal
         [] c.op = ">" -> row[c.column] \in Int /\ row[c.column] > c.literal
         [] c.op = "<" -> row[c.column] \in Int /\ row[c.column] < c.literal
EvalPredicate(predicate, row) == \A c \in predicate : Passes(c, row)

\* The key of a group: of several columns, the text of their values, which
\* tells a missing column from Null.
GroupKey(group_by, row) ==
    CASE group_by = <<>> -> Star
      [] Len(group_by) = 1 -> Get(row, group_by[1])
      [] OTHER -> Project(row, Range(group_by))

\* What a row contributes to its group: only the first aggregate counts.
Contribution(aggregates, row) ==
    IF aggregates # <<>> /\ Head(aggregates).func = "SUM"
       THEN GetInt(row, Head(aggregates).column)
       ELSE 1

\* sources.get(table).
Scan(table, sources) == IF table \in DOMAIN sources THEN sources[table] ELSE Empty

\* An order of the rows of a Z-set: the given one, if they are among its rows.
Arrange(z, order) ==
    IF DOMAIN z \subseteq Range(order) THEN order ELSE SetToSeq(DOMAIN z)

\* One node applied to the output of the node below it.
ExecuteNode(state, node, sources, order) ==
    LET z == state.out IN
    CASE node.node = "scan" -> [state EXCEPT !.out = Scan(node.table, sources)]
      [] node.node = "join" ->
            [state EXCEPT !.out = IncrementalJoin(z, Scan(node.table, sources),
                                                  node.left_key, node.right_key)]
      [] node.node = "filter" ->
            [state EXCEPT !.out =
                Filter(z, {row \in DOMAIN z : EvalPredicate(node.predicate, row)})]
      [] node.node = "project" ->
            [state EXCEPT !.out =
                Map(z, [row \in DOMAIN z |-> Project(row, node.columns)])]
      [] node.node = "aggregate" ->
            ApplyAggregate(state.result, z, Arrange(z, order),
                           [row \in DOMAIN z |-> GroupKey(node.group_by, row)],
                           [row \in DOMAIN z |->
                                Contribution(node.aggregates, row)])

\* The output of a plan and the state of its aggregate, which starts as result.
Execute(plan, sources, result, order) ==
    FoldLeft(LAMBDA state, node : ExecuteNode(state, node, sources, order),
             [result |-> result, out |-> Empty], plan)
=============================================================================
