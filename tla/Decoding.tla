------------------------------- MODULE Decoding -------------------------------
(***************************************************************************)
(* What the connectors make of the messages of a change feed: the Debezium *)
(* envelopes of the Kafka connector (crates/connectors/kafka_cdc/src/      *)
(* lib.rs), and the JSON and pgoutput messages of the Postgres connectors  *)
(* (crates/connectors/pg_wal/src).                                         *)
(*                                                                         *)
(* JSON text is the value it stands for.  Where a row is expected, the     *)
(* value is a record whose shape tells an object from an array of columns. *)
(* A pgoutput message is a sequence of tokens: single bytes, and fields of *)
(* a tuple together with their lengths.                                    *)
(***************************************************************************)
EXTENDS Operators

CONSTANT
    Fraction    \* a number that is not an i64

NoColumns == [c \in {} |-> Null]

-----------------------------------------------------------------------------
(***************************************************************************)
(* JSON.                                                                   *)
(***************************************************************************)
NullJson == [shape |-> "null"]
Object(row) == [shape |-> "object", members |-> row]
Array(columns) == [shape |-> "array", members |-> columns]

\* json_value_to_typed: a number that is no i64 becomes 0.
JsonTyped(value) == IF value = Fraction THEN 0 ELSE value

\* json_to_row of the Kafka connector: anything but an object is an empty row.
ObjectRow(json) ==
    IF json.shape = "object"
       THEN [c \in DOMAIN json.members |-> JsonTyped(json.members[c])]
       ELSE NoColumns

\* json_to_row of the Postgres connectors also takes an array of columns, and
\* passes over those without a name or a value.
Complete(json) == {col \in json.members : {"name", "value"} \subseteq DOMAIN col}
WalRow(json) ==
    IF json.shape = "array"
       THEN [c \in {col.name : col \in Complete(json)} |->
                JsonTyped((CHOOSE col \in Complete(json) : col.name = c).value)]
       ELSE ObjectRow(json)

\* envelope[name]: null if there is no such member.
Member(envelope, name) ==
    IF name \in DOMAIN envelope THEN envelope[name] ELSE NullJson

-----------------------------------------------------------------------------
(***************************************************************************)
(* try_apply_cdc_payload.  A payload that is not JSON is a dead letter, a  *)
(* message without payload is passed over.                                 *)
(***************************************************************************)
CdcOp(envelope) == IF "op" \in DOMAIN envelope THEN envelope.op ELSE "c"

ApplyCdcKeepsOld(delta, envelope) ==
    LET before == ObjectRow(Member(envelope, "before"))
        after == ObjectRow(Member(envelope, "after"))
    IN CASE CdcOp(envelope) \in {"c", "r", "u"} -> Insert(delta, after, 1)
         [] CdcOp(envelope) = "d" -> Insert(delta, before, -1)
         [] OTHER -> delta
ApplyCdc(delta, envelope) ==
    LET before == ObjectRow(Member(envelope, "before"))
        after == ObjectRow(Member(envelope, "after"))
    IN CASE CdcOp(envelope) \in {"c", "r"} -> Insert(delta, after, 1)
         [] CdcOp(envelope) = "d" -> Insert(delta, before, -1)
         [] CdcOp(envelope) = "u" -> Insert(Insert(delta, before, -1), after, 1)
         [] OTHER -> delta

-----------------------------------------------------------------------------
(***************************************************************************)
(* parse_wal_data: the events in a row of pg_logical_slot_get_changes.     *)
(***************************************************************************)
JsonWalToEvents(envelope) ==
    LET columns == WalRow(Member(envelope, "columns"))
        identity == WalRow(Member(envelope, "identity"))
    IN CASE envelope.action = "I" -> <<[kind |-> "insert", row |-> columns]>>
         [] envelope.action = "D" -> <<[kind |-> "delete", row |-> identity]>>
         [] envelope.action = "U" ->
                <<[kind |-> "update", old_row |-> identity, new_row |-> columns]>>
         [] envelope.action = "C" -> <<[kind |-> "commit"]>>
         [] OTHER -> <<>>

Byte(value) == [kind |-> "byte", val |-> value]
Text(value) == [kind |-> "text", val |-> value]
NullField == [kind |-> "null"]
UnchangedField == [kind |-> "unchanged"]

\* parse_tuple_data_with_remainder: two bytes for the number of fields, then
\* one field after the other while there are any.  A byte in the place of a
\* field, like a field marked unchanged, gives no column.  (A text that reads
\* as an i64 becomes an integer: the two are one value here.)
ColumnName(i) == "col_" \o ToString(i)
ParseTuple(data) ==
    IF Len(data) < 2
       THEN [row |-> NoColumns, rest |-> data]
       ELSE LET count == Min({256 * data[1].val + data[2].val, Len(data) - 2})
                Field(i) == data[i + 3]
                present == {i \in 0..(count - 1) : Field(i).kind \in {"text", "null"}}
                name == [i \in present |-> ColumnName(i)]
            IN [row |-> [c \in {name[i] : i \in present} |->
                            LET i == CHOOSE j \in present : name[j] = c IN
                            IF Field(i).kind = "null" THEN Null ELSE Field(i).val],
                rest |-> SubSeq(data, count + 3, Len(data))]

\* parse_pgoutput_message: type, relation, flag, tuples.  An unknown type is
\* an error, and the message gives no event.
ParsePgOutput(msg) ==
    LET tuple == ParseTuple(SubSeq(msg.data, 2, Len(msg.data)))
    IN CASE msg.type = "I" -> <<[kind |-> "insert", row |-> tuple.row]>>
         [] msg.type = "D" -> <<[kind |-> "delete", row |-> tuple.row]>>
         [] msg.type = "U" -> <<[kind |-> "update", old_row |-> tuple.row,
                                 new_row |-> ParseTuple(tuple.rest).row]>>
         [] msg.type = "C" -> <<[kind |-> "commit"]>>
         [] msg.type = "R" -> <<[kind |-> "relation"]>>
         [] OTHER -> <<>>

ParseWalData(msg) ==
    IF "action" \in DOMAIN msg THEN JsonWalToEvents(msg) ELSE ParsePgOutput(msg)

\* events_to_zset, and the loop of apply_wal_change.
ApplyEvent(delta, event) ==
    CASE event.kind = "insert" -> Insert(delta, event.row, 1)
      [] event.kind = "delete" -> Insert(delta, event.row, -1)
      [] event.kind = "update" ->
            Insert(Insert(delta, event.old_row, -1), event.new_row, 1)
      [] OTHER -> delta

ApplyWalChange(delta, msg) == FoldLeft(ApplyEvent, delta, ParseWalData(msg))
=============================================================================
