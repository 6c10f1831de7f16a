---------------------------- MODULE MCSqlEndpoint ----------------------------
(***************************************************************************)
(* Requests to SqlEndpoint for TLC: short lists of orders, some of them    *)
(* taken back, and of customers, under one query of every shape.           *)
(***************************************************************************)
EXTENDS SqlEndpoint

CONSTANTS c1, c2, eu

SomeOrders == {[customer_id |-> c1, amount |-> 1], [customer_id |-> c1, amount |-> 2],
               [customer_id |-> c2, amount |-> 1]}
Customers == {[id |-> c1, region |-> eu], [id |-> c2]}

OrderLists == SeqOf([fields : SomeOrders, weight : {-1, 1, 2}], 2)
CustomerLists ==
    {<<>>} \cup {<<[fields |-> c, weight |-> 1]>> : c \in Customers}
           \cup {<<[fields |-> c, weight |-> 1], [fields |-> d, weight |-> 1]>> :
                    c \in Customers, d \in Customers}

Item(kind, f, column, alias) ==
    [kind |-> kind, func |-> f, column |-> column, alias |-> alias]
EveryColumn == Item("*", "", "", NoAlias)
Where(column, op, value) ==
    <<[column |-> column, op |-> op, type |-> "int", literal |-> value]>>
Join(table, left, right) ==
    [table |-> table, kind |-> "inner_eq", left |-> left, right |-> right]

From(joins, conditions, groups, items) ==
    [from |-> "orders", joins |-> joins, where |-> conditions,
     group_by |-> groups, items |-> items]

WithCustomers == <<Join("customers", "customer_id", "id")>>

Queries ==
    {From(<<>>, Where("amount", ">", 1), <<>>, <<EveryColumn>>),
     From(<<>>, <<>>, <<>>, <<Item("column", "", "customer_id", NoAlias)>>),
     From(<<>>, Where("amount", "=", 1), <<"customer_id">>,
          <<Item("column", "", "customer_id", NoAlias),
            Item("call", "SUM", "amount", "total")>>),
     From(WithCustomers, <<>>, <<"region">>,
          <<Item("call", "COUNT", "*", NoAlias)>>),
     From(WithCustomers, Where("amount", "<", 2), <<>>, <<EveryColumn>>),
     From(<<Join("orders", "customer_id", "customer_id")>>
            \o WithCustomers, <<>>, <<>>,
          <<Item("call", "SUM", "amount", NoAlias)>>),
     From(<<>>, <<>>, <<Expression>>, <<EveryColumn>>)}

AllRequests ==
    [sql : Queries,
     sources : [orders : OrderLists, customers : CustomerLists]]
=============================================================================
