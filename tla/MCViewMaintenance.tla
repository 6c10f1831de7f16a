------------------------- MODULE MCViewMaintenance -------------------------
(***************************************************************************)
(* Instances of ViewMaintenance for TLC: orders of two customers, with     *)
(* amounts that can cancel out, under several configurations at once; for  *)
(* the join, customers one of which occurs twice on the same key, with a   *)
(* name column on both sides.                                              *)
(***************************************************************************)
EXTENDS ViewMaintenance

CONSTANTS
    k1, k2, a, b,
    two             \* the text "2"

Orders == [customer_id : {k1}, amount : {-1, 1, 2}]
            \cup [customer_id : {k2}, amount : {1, 2}]
FewOrders == [customer_id : {k1, k2}, amount : {1, 2}]
\* A column may be missing, Null, or not an integer.
OddOrders == [customer_id : {k1}, amount : {2, Null, a}] \cup [customer_id : {k1, k2}]

Column(name) == [kind |-> "column", func |-> "", column |-> name, alias |-> NoAlias]
Call(f, name) == [kind |-> "call", func |-> f, column |-> name, alias |-> NoAlias]
Condition(name, op, value) ==
    [column |-> name, op |-> op, literal |-> value,
     type |-> IF value \in Int THEN "int" ELSE "text"]

Select ==
    [from |-> "orders", joins |-> <<>>, where |-> <<>>, group_by |-> <<>>,
     items |-> <<[kind |-> "*", func |-> "", column |-> "", alias |-> NoAlias]>>]

\* SELECT customer_id, SUM(amount) FROM orders WHERE amount < 2 GROUP BY customer_id
SumOfCustomer ==
    [Select EXCEPT !.items = <<Column("customer_id"), Call("SUM", "amount")>>,
                   !.where = <<Condition("amount", "<", 2)>>,
                   !.group_by = <<"customer_id">>]

Kafka(rows, select, operators) ==
    [rows |-> rows, kafka |-> TRUE, topic |-> "orders", sql |-> select,
     ops |-> operators, saves |-> FALSE]

FilterOp(name, values) == [type |-> "filter", column |-> name, values |-> values]
CountOp(name) == [type |-> "aggregate_count", key_column |-> name]
SumOp(name, value) ==
    [type |-> "aggregate_sum", key_column |-> name, value_column |-> value]

SqlSum == Kafka(Orders, SumOfCustomer, <<>>)

\* SELECT COUNT( * ) FROM orders GROUP BY customer_id, amount, and without it.
SqlCount ==
    Kafka(OddOrders, [Select EXCEPT !.items = <<Call("COUNT", "*")>>,
                                    !.group_by = <<"customer_id", "amount">>], <<>>)
SqlTotal == [SqlCount EXCEPT !.sql.group_by = <<>>]

\* value: "2" lets the number 2 and the text "2" pass.
FilterThenCount ==
    Kafka(FewOrders \cup [customer_id : {k1}, amount : {two}], NoSql,
          <<FilterOp("amount", {2, two}), CountOp("customer_id")>>)

\* An SQL text that is not planned: the operators run.
SumInstead ==
    Kafka(OddOrders,
          [Select EXCEPT !.where = <<[Condition("amount", "<>", 0)
                                        EXCEPT !.type = "int"]>>],
          <<SumOp("customer_id", "amount")>>)

\* SELECT customer_id FROM orders WHERE customer_id = 'k1' AND amount > 0, with
\* checkpoints.
SqlColumns ==
    [Kafka([customer_id : {k1}, amount : {1, 2}]
                \cup [customer_id : {k2}, amount : {1}],
           [Select EXCEPT !.items = <<Column("customer_id")>>,
                          !.where = <<Condition("customer_id", "=", k1),
                                      Condition("amount", ">", 0)>>],
           <<>>) EXCEPT !.saves = TRUE]

\* A Postgres source without a plan, starting from a copy of the table.
TableCopy == [Kafka(FewOrders, NoSql, <<>>) EXCEPT !.kafka = FALSE, !.saves = TRUE]

JoinOnly == Kafka({}, NoSql, <<[type |-> "join"]>>)

\* SELECT * FROM orders JOIN customers ON ..., in a pipeline over orders.
JoinPlan ==
    Kafka(FewOrders,
          [Select EXCEPT !.joins = <<[table |-> "customers", kind |-> "inner_eq",
                                      left |-> "customer_id", right |-> "id"]>>],
          <<>>)

AllConfigs == {SqlSum, SqlCount, SqlTotal, FilterThenCount, SumInstead, SqlColumns,
               TableCopy, JoinOnly, JoinPlan}

\* A plan with an aggregate, with checkpoints.
SavedSum == {[SqlSum EXCEPT !.saves = TRUE]}

MCLeftRows == {[id |-> k1, name |-> a], [id |-> k1, name |-> b],
               [id |-> k2, name |-> a]}
MCRightRows == {[id |-> k1, name |-> b], [id |-> k2]}
=============================================================================
