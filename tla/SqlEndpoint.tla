----------------------------- MODULE SqlEndpoint -----------------------------
(***************************************************************************)
(* The endpoint that runs a query on the rows it is sent: sql_execute      *)
(* (crates/api/src/sql_handlers.rs).  It plans and executes queries with   *)
(* the code the pipelines use, keeps nothing between requests, and drops   *)
(* the weights of its answer.                                              *)
(***************************************************************************)
EXTENDS Planner

CONSTANTS
    Requests,   \* [sql, sources]: sources gives tables lists of [fields, weight]
    BadRequest, \* 400, with the planner's error
    NoResponse  \* nothing has been asked

ASSUME RequestAssumption ==
    \A request \in Requests :
        /\ DOMAIN request = {"sql", "sources"}
        /\ request.sql.joins \in Seq(Range(request.sql.joins))
        /\ IsFiniteSet(DOMAIN request.sources)
        /\ \A table \in DOMAIN request.sources :
            /\ request.sources[table] \in Seq(Range(request.sources[table]))
            /\ \A row \in Range(request.sources[table]) : row.weight \in Int

VARIABLE response   \* the last response, and the request

\* The batch of a source: the rows inserted one after the other.
SourceBatch(rows) ==
    FoldLeft(LAMBDA delta, row : Insert(delta, row.fields, row.weight), Empty, rows)

SqlExecute(request) ==
    IF ~Plannable(request.sql)
       THEN BadRequest
       ELSE DOMAIN Execute(PlanSelect(request.sql),
                           [t \in DOMAIN request.sources |->
                                SourceBatch(request.sources[t])],
                           NoGroups, <<>>).out

EndpointInit == response = NoResponse

\* Bound: one request.  Nothing is kept, so the next one finds the same.
EndpointNext ==
    /\ response = NoResponse
    /\ \E request \in Requests :
            response' = [request |-> request, answer |-> SqlExecute(request)]

EndpointSpec == EndpointInit /\ [][EndpointNext]_response

-----------------------------------------------------------------------------
(***************************************************************************)
(* The answer against the query's definition on whole tables.              *)
(***************************************************************************)

\* How often a row stands in a table.
Multiplicity(request, table, row) ==
    IF table \in DOMAIN request.sources
       THEN LET rows == request.sources[table] IN
            SumOver([i \in DOMAIN rows |-> rows[i].weight],
                    {i \in DOMAIN rows : rows[i].fields = row})
       ELSE 0

\* A combination takes a row of the table of FROM and of each of the first n
\* JOINs, and satisfies every ON with the columns of the rows before.
TableOf(select, i) == IF i = 0 THEN select.from ELSE select.joins[i].table
Joined(combination, n) ==
    LET row[i \in 0..n] ==
            IF i = 0 THEN combination[0] ELSE JoinedRow(row[i - 1], combination[i])
    IN row[n]
RowsOf(request) ==
    UNION {{r.fields : r \in Range(request.sources[t])} : t \in DOMAIN request.sources}
Combinations(request, n) ==
    {c \in [0..n -> RowsOf(request)] :
        \A i \in 1..n : LET join == request.sql.joins[i] IN
            Get(Joined(c, i - 1), join.left) = Get(c[i], join.right)}
Occurrences(request, combination, n) ==
    LET times[i \in 0..n] ==
            LET m == Multiplicity(request, TableOf(request.sql, i), combination[i])
            IN IF i = 0 THEN m ELSE times[i - 1] * m
    IN times[n]

\* What is asked about a row of the whole: its group, or the columns of it.
Asked(select, row) ==
    IF HasAggregate(select)
       THEN GroupKey(select.group_by, row)
       ELSE IF ColumnNames(select) = {} THEN row ELSE Project(row, ColumnNames(select))
ValueOfRow(select, row) ==
    IF HasAggregate(select) THEN Contribution(Aggregates(select), row) ELSE 1

\* The combinations that WHERE lets through, and the total of those about which
\* the same is asked.
Answering(request) ==
    LET n == Len(request.sql.joins) IN
    {c \in Combinations(request, n) :
        EvalPredicate(Range(request.sql.where), Joined(c, n))}
QueryTotal(request, asked) ==
    LET n == Len(request.sql.joins) IN
    SumOver([c \in Answering(request) |->
                ValueOfRow(request.sql, Joined(c, n)) * Occurrences(request, c, n)],
            {c \in Answering(request) : Asked(request.sql, Joined(c, n)) = asked})

Query(request) ==
    LET select == request.sql
        all == {Asked(select, Joined(c, Len(select.joins))) : c \in Answering(request)}
        present == {asked \in all : QueryTotal(request, asked) # 0}
    IN IF HasAggregate(select)
          THEN {OutputRow(g, QueryTotal(request, g)) : g \in present}
          ELSE present

\* A query is answered with its rows: the joins, filters and aggregates of a
\* plan, run on the Z-sets of the one request, give the query on whole tables.
\* Rows listed twice or taken back count with what remains; an aggregate gives
\* each group once, with its last value.
AnswerIsQuery ==
    response # NoResponse /\ response.answer # BadRequest =>
        response.answer = Query(response.request)
=============================================================================
