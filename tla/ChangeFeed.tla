------------------------------ MODULE ChangeFeed ------------------------------
(***************************************************************************)
(* A table, the feed of its changes, and the copy of the table that the    *)
(* deltas of poll_batch add up to: KafkaCdcConnector::poll_batch           *)
(* (crates/connectors/kafka_cdc/src/kafka_impl.rs), and poll_batch of      *)
(* PgWalConnector and WalStreamConnector (crates/connectors/pg_wal/src).   *)
(* The kafka topic has one partition here; partitions, replay and failing  *)
(* polls are the business of KafkaPipeline and PgPipeline, and so are the  *)
(* epochs of batches.                                                      *)
(*                                                                         *)
(* The table and the writers of its feed (Debezium, Postgres) are outside  *)
(* the repository.  Its rows have a primary key and full replica identity: *)
(* a delete or an update carries the whole old row.                        *)
(***************************************************************************)
EXTENDS Decoding

CONSTANTS
    Feeds,          \* the formats, and the kinds of changes that occur in each
    TableRows,      \* the rows the table may hold
    Columns,        \* their columns, in the order of the table's definition
    KeyColumn,      \* the primary key
    TimeColumn,     \* the column with the time of a row
    MaxChanges,     \* bound: changes to the table
    MaxMessages,    \* max_messages of a poll
    AllowedLateness,\* ALLOWED_LATENESS_MS
    Disorder,       \* how far behind the newest change a change may be
    None            \* no watermark

Formats == {"debezium", "json_object", "json_array", "pgoutput"}

ASSUME FeedAssumption ==
    /\ \A f \in Feeds : /\ DOMAIN f = {"format", "changes"}
                        /\ f.format \in Formats
                        /\ f.changes \subseteq {"insert", "update", "delete"}
    /\ \A r \in TableRows : DOMAIN r = Range(Columns) /\ r[TimeColumn] \in Nat
    /\ Columns \in Seq(Range(Columns))
    /\ {KeyColumn, TimeColumn} \subseteq Range(Columns)
    /\ MaxChanges \in Nat /\ MaxMessages \in Nat \ {0}
    /\ AllowedLateness \in Nat /\ Disorder \in Nat

VARIABLES
    feed,       \* the feed's format and its kinds of changes; never changes
    table,      \* the rows of the table
    newest,     \* the time of its newest change
    changes,    \* changes so far
    stream,     \* the messages not yet polled, with the table each one reflects
    copy,       \* the sum of the deltas polled
    reflected   \* history: the table of the message polled last

feedVars == <<feed, table, newest, changes, stream, copy, reflected>>

-----------------------------------------------------------------------------
(***************************************************************************)
(* The writers.  change.old and change.new are rows; an insert has no old  *)
(* row, a delete no new one.                                               *)
(***************************************************************************)

\* Debezium: an envelope, which the snapshot marks "r"; a delete is followed
\* by a tombstone, a message without payload.
Tombstone == [op |-> "tombstone"]
DebeziumMessages(change) ==
    CASE change.kind = "insert" ->
            {<<[op |-> op, before |-> NullJson, after |-> Object(change.new)]>> :
                op \in {"c", "r"}}
      [] change.kind = "update" ->
            {<<[op |-> "u", before |-> Object(change.old),
                after |-> Object(change.new)]>>}
      [] change.kind = "delete" ->
            {<<[op |-> "d", before |-> Object(change.old), after |-> NullJson],
               Tombstone>>}

\* A row of the WAL as JSON, as an object or as an array of columns.
JsonOf(row) ==
    IF feed.format = "json_object"
       THEN Object(row)
       ELSE Array({[name |-> c, value |-> row[c]] : c \in DOMAIN row})
JsonMessages(change) ==
    LET columns == IF change.kind = "delete" THEN NullJson ELSE JsonOf(change.new)
        identity == IF change.kind = "insert" THEN NullJson ELSE JsonOf(change.old)
        action == CASE change.kind = "insert" -> "I"
                    [] change.kind = "update" -> "U"
                    [] change.kind = "delete" -> "D"
    IN {<<[action |-> "B"],
          [action |-> action, columns |-> columns, identity |-> identity],
          [action |-> "C"]>>}

\* A pgoutput transaction.  An update carries the old tuple (flag 'O') only if
\* the replica identity is full; the new tuple has the flag 'N'.
Tuple(row) ==
    <<Byte(0), Byte(Len(Columns))>> \o
        [i \in DOMAIN Columns |->
            IF row[Columns[i]] = Null THEN NullField ELSE Text(row[Columns[i]])]
PgOutputMessages(change) ==
    LET new == IF change.kind = "delete" THEN <<>>
                                         ELSE <<Byte(78)>> \o Tuple(change.new)
        old == IF change.kind = "insert" THEN <<>>
                                         ELSE <<Byte(79)>> \o Tuple(change.old)
        type == CASE change.kind = "insert" -> "I"
                  [] change.kind = "update" -> "U"
                  [] change.kind = "delete" -> "D"
    IN {<<[type |-> "B"], [type |-> "R"], [type |-> type, data |-> old \o new],
          [type |-> "C"]>>}

MessagesOf(change) ==
    CASE feed.format = "debezium" -> DebeziumMessages(change)
      [] feed.format \in {"json_object", "json_array"} -> JsonMessages(change)
      [] feed.format = "pgoutput" -> PgOutputMessages(change)

\* The messages of a change, as they lie in the stream: time is the message's
\* timestamp, last marks the end of a transaction, after is the table then.
Framed(messages, change, time, after) ==
    [i \in DOMAIN messages |->
        [msg |-> messages[i], time |-> time, last |-> i = Len(messages),
         after |-> after]]

MaxOf(a, b) == IF a < b THEN b ELSE a

ChangesOf(t) ==
    LET Clash(row) == \E r \in t : r[KeyColumn] = row[KeyColumn]
    IN {[kind |-> "insert", old |-> NoColumns, new |-> row] :
            row \in {row \in TableRows : ~Clash(row)}}
       \cup {[kind |-> "delete", old |-> row, new |-> NoColumns] : row \in t}
       \cup {[kind |-> "update", old |-> p[1], new |-> p[2]] :
                p \in {p \in t \X TableRows : /\ p[1] # p[2]
                                            /\ p[1][KeyColumn] = p[2][KeyColumn]}}

Change(change) ==
    LET after == (table \ {change.old}) \cup
                    (IF change.kind = "delete" THEN {} ELSE {change.new})
        time == IF change.kind = "delete" THEN newest ELSE change.new[TimeColumn]
    IN /\ change.kind \in feed.changes
       /\ changes < MaxChanges
       /\ time + Disorder >= newest
       /\ table' = after
       /\ newest' = MaxOf(newest, time)
       /\ changes' = changes + 1
       /\ \E messages \in MessagesOf(change) :
            stream' = stream \o Framed(messages, change, time, after)
       /\ UNCHANGED <<feed, copy, reflected>>

\* A message of the topic that is not an envelope, or of an unknown kind.
Noise == {[op |-> "malformed"], [op |-> "m"]}
NoiseArrives(msg) ==
    /\ feed.format = "debezium"
    /\ changes < MaxChanges
    /\ changes' = changes + 1
    /\ stream' = stream \o Framed(<<msg>>, NoColumns, newest, table)
    /\ UNCHANGED <<feed, table, newest, copy, reflected>>

-----------------------------------------------------------------------------
(***************************************************************************)
(* The pollers.                                                            *)
(***************************************************************************)

\* apply_cdc_payload for the payload, if there is one; a payload that is not
\* JSON becomes a dead letter.
ApplyMessage(delta, framed) ==
    IF feed.format = "debezium"
       THEN IF framed.msg.op \in {"malformed", "tombstone"}
               THEN delta
               ELSE ApplyCdc(delta, framed.msg)
       ELSE ApplyWalChange(delta, framed.msg)

DeltaOf(n) ==
    LET delta[i \in 0..n] ==
            IF i = 0 THEN Empty ELSE ApplyMessage(delta[i - 1], stream[i])
    IN delta[n]

\* The newest timestamp of the first n messages; 0 if they have none.
MaxEventTime(n) == Max({0} \cup {stream[i].time : i \in 1..n})

\* The watermark of a batch.
WatermarkEager(n) ==
    IF feed.format = "debezium" /\ MaxEventTime(n) > 0
       THEN MaxEventTime(n)
       ELSE None
BatchWatermark(n) ==
    IF feed.format = "debezium" /\ MaxEventTime(n) > 0
       THEN MaxOf(0, MaxEventTime(n) - AllowedLateness)
       ELSE None

\* How many messages a poll may return: of a topic any number up to the
\* limit, of a slot whole transactions.
PollSizes ==
    {n \in 1..Len(stream) :
        IF feed.format = "debezium" THEN n <= MaxMessages ELSE stream[n].last}

Poll(n) ==
    /\ n \in PollSizes
    /\ copy' = Merge(copy, DeltaOf(n))
    /\ reflected' = stream[n].after
    /\ stream' = SubSeq(stream, n + 1, Len(stream))
    /\ UNCHANGED <<feed, table, newest, changes>>

-----------------------------------------------------------------------------
FeedInit ==
    /\ feed \in Feeds
    /\ table = {} /\ newest = 0 /\ changes = 0
    /\ stream = <<>>
    /\ copy = Empty
    /\ reflected = {}

TableChanges ==
    \/ \E change \in ChangesOf(table) : Change(change)
    \/ \E msg \in Noise : NoiseArrives(msg)

-----------------------------------------------------------------------------
(***************************************************************************)
(* Properties.                                                             *)
(***************************************************************************)

\* A row as it should arrive: columns by name, or for pgoutput by number;
\* JSON numbers that are no i64 lost.
Arrived(row) ==
    IF feed.format = "pgoutput"
       THEN LET numbers == 0..(Len(Columns) - 1) IN
            [c \in {ColumnName(i) : i \in numbers} |->
                row[Columns[1 + CHOOSE i \in numbers : ColumnName(i) = c]]]
       ELSE [c \in DOMAIN row |-> IF row[c] = Fraction THEN 0 ELSE row[c]]

Image(t) ==
    [row \in {Arrived(r) : r \in t} |-> Cardinality({r \in t : Arrived(r) = row})]

\* The copy is, after every poll and however the messages are cut into
\* batches, exactly a state the table was in: the one after the last change
\* polled.  No row is missing, left over, or kept with a negative weight.
CopyIsPastTable == copy = Image(reflected)

\* "production-grade pgoutput message parsing used by both the polling and
\* streaming connectors" (crates/connectors/pg_wal/src/streaming.rs, module
\* comment): the copy of a table that is inserted into and updated is a state
\* of the table.
PgOutputIsParsed == feed.format = "pgoutput" => CopyIsPastTable
=============================================================================
