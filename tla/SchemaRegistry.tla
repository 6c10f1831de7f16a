---------------------------- MODULE SchemaRegistry ----------------------------
(***************************************************************************)
(* Avro payloads and the schema registry (crates/formats/avro/src/lib.rs): *)
(* tasks that share a client decode payloads; a schema that is not in the  *)
(* cache is fetched, and while the task waits, others go on and the        *)
(* subject gets new schemas.                                               *)
(*                                                                         *)
(* A schema is the sequence of a record's fields, and an encoded record    *)
(* (a datum) the sequence of their values, of which 0 is the zero byte.    *)
(* The payload of a Confluent writer has a frame, a zero byte and the id   *)
(* of the schema.                                                          *)
(***************************************************************************)
EXTENDS Integers, SequencesExt

CONSTANTS
    Tasks,          \* the callers of decode_with_registry
    Schemas,        \* the schemas a subject may get
    FieldValues,    \* the values of fields
    MaxVersions,    \* bound: schemas of the subject
    Undecodable,    \* Err: the payload is not of the schema
    Unavailable     \* Err: the registry does not answer

ASSUME RegistryAssumption ==
    /\ MaxVersions \in Nat \ {0}
    /\ FieldValues \subseteq Nat
    /\ \A s \in Schemas : s \in Seq(Range(s)) \ {<<>>}

VARIABLES
    versions,       \* the registry: the schema of every id
    schema_cache,   \* the schemas fetched, by id
    call            \* every task's call: its step, payload, and answer

registryVars == <<versions, schema_cache, call>>

Ids == DOMAIN versions
Latest == versions[Len(versions)]

\* row_to_avro_value and to_avro_datum; from_avro_datum and avro_value_to_row,
\* which leaves what follows the last field alone.
Encode(row, schema) == [i \in DOMAIN schema |-> row[schema[i]]]
Decode(datum, schema) ==
    IF Len(datum) < Len(schema)
       THEN Undecodable
       ELSE [f \in Range(schema) |-> datum[CHOOSE i \in DOMAIN schema : schema[i] = f]]

\* What is written under a schema of the subject.
Payloads ==
    UNION {{[framed |-> framed, id |-> id, row |-> row,
             datum |-> Encode(row, versions[id])] :
                framed \in BOOLEAN, row \in [Range(versions[id]) -> FieldValues]} :
            id \in Ids}

\* A payload that begins with a zero byte is taken for a framed one, if it is
\* longer than a frame, as all records are here; without a frame, the bytes
\* that follow are some id.
LooksFramed(payload) == payload.framed \/ payload.datum[1] = 0
IdsRead(payload) == IF payload.framed THEN {payload.id} ELSE 1..(MaxVersions + 1)
Body(payload) == IF payload.framed THEN payload.datum ELSE Tail(payload.datum)

-----------------------------------------------------------------------------
Idle == [step |-> "idle"]

RegistryInit ==
    /\ versions \in {<<s>> : s \in Schemas}
    /\ schema_cache = [id \in {} |-> <<>>]
    /\ call = [t \in Tasks |-> Idle]

Answer(t, payload, answer) ==
    call' = [call EXCEPT ![t] = [step |-> "answered", payload |-> payload,
                                 answer |-> answer]]

\* decode_confluent, up to the request if one is needed.
DecodeConfluent(t, payload, id) ==
    /\ IF id \in DOMAIN schema_cache
          THEN Answer(t, payload, Decode(Body(payload), schema_cache[id]))
          ELSE call' = [call EXCEPT ![t] = [step |-> "by_id", payload |-> payload,
                                            id |-> id]]
    /\ UNCHANGED <<versions, schema_cache>>

DecodeWithRegistry(t, payload) ==
    /\ call[t].step \in {"idle", "answered"}
    /\ \/ /\ LooksFramed(payload)
          /\ \E id \in IdsRead(payload) : DecodeConfluent(t, payload, id)
       \/ /\ ~LooksFramed(payload)
          /\ call' = [call EXCEPT ![t] = [step |-> "latest", payload |-> payload]]
          /\ UNCHANGED <<versions, schema_cache>>

\* The registry has answered the request for a schema: by id it is cached.
SchemaUnderLatestId(t) ==
    /\ call[t].step = "by_id"
    /\ call[t].id \in Ids
    /\ schema_cache' = [id \in DOMAIN schema_cache \cup {call[t].id} |->
                            IF id = call[t].id THEN Latest ELSE schema_cache[id]]
    /\ Answer(t, call[t].payload, Decode(Body(call[t].payload), Latest))
    /\ UNCHANGED versions
SchemaById(t) ==
    /\ call[t].step = "by_id"
    /\ call[t].id \in Ids
    /\ schema_cache' = [id \in DOMAIN schema_cache \cup {call[t].id} |->
                            IF id = call[t].id THEN versions[id] ELSE schema_cache[id]]
    /\ Answer(t, call[t].payload, Decode(Body(call[t].payload), versions[call[t].id]))
    /\ UNCHANGED versions

FetchSchema(t) ==
    /\ call[t].step = "latest"
    /\ Answer(t, call[t].payload, Decode(call[t].payload.datum, Latest))
    /\ UNCHANGED <<versions, schema_cache>>

\* The request fails, or there is no such id.
RequestFails(t) ==
    /\ call[t].step \in {"by_id", "latest"}
    /\ Answer(t, call[t].payload, Unavailable)
    /\ UNCHANGED <<versions, schema_cache>>

\* The subject gets a schema it did not have.
Register(schema) ==
    /\ Len(versions) < MaxVersions
    /\ schema \notin Range(versions)
    /\ versions' = Append(versions, schema)
    /\ UNCHANGED <<schema_cache, call>>

RegistryNext ==
    \/ \E t \in Tasks : \/ \E payload \in Payloads : DecodeWithRegistry(t, payload)
                        \/ SchemaById(t) \/ FetchSchema(t) \/ RequestFails(t)
    \/ \E schema \in Schemas : Register(schema)

RegistrySpec == RegistryInit /\ [][RegistryNext]_registryVars

-----------------------------------------------------------------------------
(***************************************************************************)
(* Properties.                                                             *)
(***************************************************************************)

\* A framed payload is decoded as it was written, whichever schemas its subject
\* got before or while it was decoded, and whatever other tasks put into the
\* cache.  Without a frame that holds as long as the payload's schema is the
\* newest, and the payload does not happen to begin with a zero byte.
DecodedAsWritten ==
    \A t \in Tasks :
        /\ call[t].step = "answered"
        /\ \/ call[t].payload.framed
           \/ ~LooksFramed(call[t].payload) /\ call[t].payload.id = Len(versions)
        => call[t].answer \in {Unavailable, call[t].payload.row}
=============================================================================
