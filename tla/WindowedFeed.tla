----------------------------- MODULE WindowedFeed -----------------------------
(***************************************************************************)
(* A windowed aggregate over a change feed: WindowedAggregateState         *)
(* (crates/operators/src/aggregate.rs) is given the batches of a feed with *)
(* their watermarks, each one joined by union (crates/operators/src/       *)
(* union.rs) to rows of a second input that has no watermark.              *)
(***************************************************************************)
EXTENDS ChangeFeed, Bags

CONSTANTS
    WindowSize,     \* window_size_ms
    GroupColumn,    \* the aggregate's key
    OtherRows       \* rows of the second input

ASSUME WindowAssumption == WindowSize \in Nat

VARIABLES
    pending,        \* (event time, row, weight) of what waits, a bag
    watermark_ms,   \* the watermark
    totals,         \* inner.result, the aggregate of what has come due
    view,           \* the sum of the outputs
    other           \* history: the second input so far

windowVars == <<pending, watermark_ms, totals, view, other>>
windowedVars == <<feedVars, windowVars>>

\* The event time function, and the inner aggregate: rows counted by group.
EventTime(row) == GetInt(row, TimeColumn)
Group(row) == Get(row, GroupColumn)

\* union: the first watermark there is.
Union(a, b) ==
    [delta |-> Merge(a.delta, b.delta),
     watermark |-> IF a.watermark = None THEN b.watermark ELSE a.watermark]

\* apply_batch: the rows of the batch join those that wait, the watermark
\* moves on, and what has come due goes through the inner aggregate at once.
Arriving(delta) ==
    SetToBag({<<EventTime(row), row, delta[row]>> : row \in DOMAIN delta})
DueAfter(bag, cutoff) ==
    Restrict(bag, {entry \in DOMAIN bag : entry[1] + WindowSize < cutoff})
Due(bag, cutoff) ==
    Restrict(bag, {entry \in DOMAIN bag : entry[1] + WindowSize <= cutoff})
FlushDelta(bag) ==
    FoldSet(LAMBDA entry, out : Insert(out, entry[2], entry[3] * bag[entry]),
            Empty, DOMAIN bag)

CutoffOfBatch(batch) ==
    IF batch.watermark = None THEN watermark_ms ELSE batch.watermark
Cutoff(batch) ==
    IF batch.watermark = None
       THEN watermark_ms
       ELSE MaxOf(watermark_ms, batch.watermark)

ApplyWindow(batch) ==
    LET arrived == pending (+) Arriving(batch.delta)
        due == Due(arrived, Cutoff(batch))
        delta == FlushDelta(due)
        applied == ApplyAggregate(totals, delta, SetToSeq(DOMAIN delta),
                                  [row \in DOMAIN delta |-> Group(row)],
                                  [row \in DOMAIN delta |-> 1])
    IN /\ watermark_ms' = Cutoff(batch)
       /\ pending' = arrived (-) due
       /\ totals' = applied.result
       /\ view' = Merge(view, applied.out)

-----------------------------------------------------------------------------
WindowedInit ==
    /\ FeedInit
    /\ pending = EmptyBag
    /\ watermark_ms = 0
    /\ totals = NoGroups
    /\ view = Empty
    /\ other = Empty

\* The changes of the second input: its rows come and go.
OtherDeltas ==
    {Empty} \cup {[r \in {row} |-> 1 - 2 * Weight(other, row)] : row \in OtherRows}

PollAndApply(n, otherDelta) ==
    /\ Poll(n)
    /\ ApplyWindow(Union([delta |-> DeltaOf(n), watermark |-> BatchWatermark(n)],
                         [delta |-> otherDelta, watermark |-> None]))
    /\ other' = Merge(other, otherDelta)

WindowedNext ==
    \/ TableChanges /\ UNCHANGED windowVars
    \/ \E n \in PollSizes, otherDelta \in OtherDeltas : PollAndApply(n, otherDelta)

WindowedSpec == WindowedInit /\ [][WindowedNext]_windowedVars

-----------------------------------------------------------------------------
(***************************************************************************)
(* Properties.                                                             *)
(***************************************************************************)

\* The rows of both inputs whose window has closed, with their weights.
Closed == LET given == Merge(copy, other) IN
          Restrict(given, {row \in DOMAIN given :
                                EventTime(row) + WindowSize <= watermark_ms})

Count(group) ==
    SumOver(Closed, {row \in DOMAIN Closed : Group(row) = group})

\* The output of the windowed aggregate is the aggregate of exactly the rows
\* whose window has closed: each counted once, whether it waited or came late;
\* a row deleted or changed after its window closed is retracted; nothing of
\* an open window is in it.
WindowedViewExact ==
    LET groups == {g \in {Group(r) : r \in DOMAIN Closed} : Count(g) # 0}
    IN view = [row \in {OutputRow(g, Count(g)) : g \in groups} |-> 1]

\* What waits is exactly the rest: every row of an open window is pending with
\* its weight, and no entry whose window has closed is left behind.
PendingIsOpen ==
    /\ \A entry \in DOMAIN pending : entry[1] + WindowSize > watermark_ms
    /\ Merge(FlushDelta(pending), Closed) = Merge(copy, other)

\* ALLOWED_LATENESS_MS is what it is called: if no change is more than that
\* behind the newest one, a change never finds its window closed, wherever the
\* polls cut the stream, so that a published count changes only when a row is
\* deleted or changed.
NothingArrivesLate ==
    Disorder <= AllowedLateness =>
        \A i \in DOMAIN stream :
            stream[i].time + WindowSize > watermark_ms
=============================================================================
