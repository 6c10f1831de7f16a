------------------------ MODULE SchemaRegistryProofs ------------------------
(***************************************************************************)
(* A theorem about SchemaRegistry, for any set of tasks, any schemas, and  *)
(* any number of them under one subject.                                   *)
(***************************************************************************)
EXTENDS SchemaRegistry, TLAPS

\* The registry forgets nothing and never changes what an id stands for.
VersionsType == versions \in Seq(Schemas) /\ Len(versions) > 0

\* What the cache holds under an id is the schema of that id.
CacheIsRegistry ==
    \A id \in DOMAIN schema_cache :
        id \in Ids /\ schema_cache[id] = versions[id]

\* A payload that was written under a schema of the subject.
Written(payload) ==
    /\ payload.framed \in BOOLEAN
    /\ payload.id \in Ids
    /\ payload.row \in [Range(versions[payload.id]) -> FieldValues]
    /\ payload.datum = Encode(payload.row, versions[payload.id])

\* A task waits for the schema its payload was framed with, or for the newest
\* one if the payload has no frame and does not look as if it had.
CallsAreWritten ==
    /\ call = [t \in Tasks |-> call[t]]
    /\ \A t \in Tasks :
        /\ call[t].step \in {"idle", "by_id", "latest", "answered"}
        /\ call[t].step # "idle" => Written(call[t].payload)
        /\ call[t].step = "by_id" =>
            /\ LooksFramed(call[t].payload)
            /\ call[t].payload.framed => call[t].id = call[t].payload.id
        /\ call[t].step = "latest" => ~LooksFramed(call[t].payload)

RegistryInv ==
    VersionsType /\ CacheIsRegistry /\ CallsAreWritten /\ DecodedAsWritten

-----------------------------------------------------------------------------
\* A record decoded with the schema it was encoded with is the record.
LEMMA RoundTrip ==
    ASSUME NEW s \in Schemas, NEW row \in [Range(s) -> FieldValues]
    PROVE  Decode(Encode(row, s), s) = row
<1>1. s \in Seq(Range(s))
    BY RegistryAssumption
<1>2. Encode(row, s) \in Seq(FieldValues) /\ Len(Encode(row, s)) = Len(s)
  <2>1. DOMAIN s = 1..Len(s) /\ Len(s) \in Nat
    BY <1>1
  <2>2. \A i \in DOMAIN s : row[s[i]] \in FieldValues
    BY DEF Range
  <2> QED
    BY <2>1, <2>2 DEF Encode
<1>3. \A f \in Range(s) :
        Encode(row, s)[CHOOSE i \in DOMAIN s : s[i] = f] = row[f]
    BY DEF Encode, Range
<1>4. Decode(Encode(row, s), s)
        = [f \in Range(s) |-> Encode(row, s)[CHOOSE i \in DOMAIN s : s[i] = f]]
    BY <1>1, <1>2 DEF Decode
<1> QED
    BY <1>3, <1>4

\* What is written is decoded with the schema of its id.
LEMMA WrittenIsDecoded ==
    ASSUME VersionsType, NEW payload, Written(payload)
    PROVE  Decode(payload.datum, versions[payload.id]) = payload.row
    BY RoundTrip DEF VersionsType, Written, Ids

\* The payloads tasks are called with are written.
LEMMA PayloadsAreWritten ==
    ASSUME NEW payload \in Payloads PROVE Written(payload)
    BY DEF Payloads, Written

\* A schema that is added takes the id after the last.
LEMMA RegisterKeeps ==
    ASSUME VersionsType, NEW schema \in Schemas, versions' = Append(versions, schema)
    PROVE  /\ VersionsType'
           /\ Len(versions') = Len(versions) + 1
           /\ \A id \in Ids : id \in Ids' /\ versions'[id] = versions[id]
           /\ \A payload : Written(payload) => Written(payload)' 
    BY DEF VersionsType, Ids, Written

-----------------------------------------------------------------------------
LEMMA RegistryInitial == RegistryInit => RegistryInv
<1> SUFFICES ASSUME RegistryInit PROVE RegistryInv
    OBVIOUS
<1>1. VersionsType
  <2>1. PICK s \in Schemas : versions = <<s>>
      BY DEF RegistryInit
  <2> QED
      BY <2>1 DEF VersionsType
<1>2. CacheIsRegistry
    BY DEF RegistryInit, CacheIsRegistry
<1>3. \A t \in Tasks : call[t].step = "idle"
    BY DEF RegistryInit, Idle
<1>4. call = [t \in Tasks |-> call[t]]
    BY DEF RegistryInit
<1> QED
    BY <1>1, <1>2, <1>3, <1>4 DEF RegistryInv, CallsAreWritten, DecodedAsWritten

\* One task's call changes, the registry does not: it is enough to look at
\* that call.
LEMMA OneCall ==
    ASSUME RegistryInv, versions' = versions, NEW t \in Tasks, NEW c,
           call' = [call EXCEPT ![t] = c],
           c.step \in {"by_id", "latest", "answered"},
           Written(c.payload),
           c.step = "by_id" =>
                /\ LooksFramed(c.payload)
                /\ c.payload.framed => c.id = c.payload.id,
           c.step = "latest" => ~LooksFramed(c.payload),
           /\ c.step = "answered"
           /\ \/ c.payload.framed
              \/ ~LooksFramed(c.payload) /\ c.payload.id = Len(versions)
           => c.answer \in {Unavailable, c.payload.row}
    PROVE  VersionsType' /\ CallsAreWritten' /\ DecodedAsWritten'
<1>1. VersionsType'
    BY DEF RegistryInv, VersionsType
<1>2. \A payload : Written(payload)' <=> Written(payload)
    BY DEF Written, Ids
<1>3. call' = [u \in Tasks |-> IF u = t THEN c ELSE call[u]]
    BY DEF RegistryInv, CallsAreWritten
<1>4. CallsAreWritten'
    BY <1>2, <1>3 DEF RegistryInv, CallsAreWritten
<1>5. DecodedAsWritten'
    BY <1>3 DEF RegistryInv, DecodedAsWritten
<1> QED
    BY <1>1, <1>4, <1>5

\* The answer to a payload that is decoded with the schema of an id.
LEMMA DecodedById ==
    ASSUME RegistryInv, NEW payload, Written(payload), LooksFramed(payload),
           NEW id \in Ids, payload.framed => id = payload.id
    PROVE  \/ payload.framed
           \/ ~LooksFramed(payload) /\ payload.id = Len(versions)
           => Decode(Body(payload), versions[id]) \in {Unavailable, payload.row}
    BY WrittenIsDecoded DEF RegistryInv, Body

LEMMA RegistryNextKeeps ==
    RegistryInv /\ [RegistryNext]_registryVars => RegistryInv'
<1> SUFFICES ASSUME RegistryInv, [RegistryNext]_registryVars PROVE RegistryInv'
    OBVIOUS
<1>1. CASE UNCHANGED registryVars
    BY <1>1 DEF registryVars, RegistryInv, VersionsType, CacheIsRegistry,
                CallsAreWritten, DecodedAsWritten, Written, Ids
<1>2. ASSUME NEW t \in Tasks, NEW payload \in Payloads,
             DecodeWithRegistry(t, payload)
      PROVE  RegistryInv'
  <2>1. Written(payload)
      BY PayloadsAreWritten
  <2>2. CacheIsRegistry' /\ versions' = versions
      BY <1>2 DEF DecodeWithRegistry, DecodeConfluent, RegistryInv,
                  CacheIsRegistry, Ids
  <2>3. CASE LooksFramed(payload)
    <3>1. PICK id \in IdsRead(payload) : DecodeConfluent(t, payload, id)
        BY <1>2, <2>3 DEF DecodeWithRegistry
    <3>2. payload.framed => id = payload.id
        BY <3>1 DEF IdsRead
    <3>3. CASE id \in DOMAIN schema_cache
      <4> DEFINE answer == Decode(Body(payload), schema_cache[id])
                 c == [step |-> "answered", payload |-> payload, answer |-> answer]
      <4>1. id \in Ids /\ schema_cache[id] = versions[id]
          BY <3>3 DEF RegistryInv, CacheIsRegistry
      <4>2. call' = [call EXCEPT ![t] = c]
          BY <3>1, <3>3 DEF DecodeConfluent, Answer
      <4>3. payload.framed => answer \in {Unavailable, payload.row}
          BY <2>1, <2>3, <3>2, <4>1, DecodedById
      <4>4. c.step = "answered" /\ c.payload = payload /\ c.answer = answer
          OBVIOUS
      <4> HIDE DEF c, answer
      <4> QED
          BY <2>1, <2>2, <2>3, <4>2, <4>3, <4>4, OneCall DEF RegistryInv
    <3>4. CASE id \notin DOMAIN schema_cache
      <4> DEFINE c == [step |-> "by_id", payload |-> payload, id |-> id]
      <4>1. call' = [call EXCEPT ![t] = c]
          BY <3>1, <3>4 DEF DecodeConfluent
      <4>2. c.step = "by_id" /\ c.payload = payload /\ c.id = id
          OBVIOUS
      <4> HIDE DEF c
      <4> QED
          BY <2>1, <2>2, <2>3, <3>2, <4>1, <4>2, OneCall DEF RegistryInv
    <3> QED
        BY <3>3, <3>4
  <2>4. CASE ~LooksFramed(payload)
    <3> DEFINE c == [step |-> "latest", payload |-> payload]
    <3>1. call' = [call EXCEPT ![t] = c]
        BY <1>2, <2>4 DEF DecodeWithRegistry
    <3>2. c.step = "latest" /\ c.payload = payload
        OBVIOUS
    <3> HIDE DEF c
    <3> QED
        BY <2>1, <2>2, <2>4, <3>1, <3>2, OneCall DEF RegistryInv
  <2> QED
      BY <2>3, <2>4
<1>3. ASSUME NEW t \in Tasks, SchemaById(t)
      PROVE  RegistryInv'
  <2> DEFINE payload == call[t].payload
             id == call[t].id
             answer == Decode(Body(payload), versions[id])
             c == [step |-> "answered", payload |-> payload, answer |-> answer]
  <2>1. /\ Written(payload) /\ LooksFramed(payload)
        /\ payload.framed => id = payload.id
        /\ id \in Ids
      BY <1>3 DEF SchemaById, RegistryInv, CallsAreWritten
  <2>2. versions' = versions /\ call' = [call EXCEPT ![t] = c]
      BY <1>3 DEF SchemaById, Answer
  <2>3. CacheIsRegistry'
      BY <1>3, <2>1, <2>2 DEF SchemaById, RegistryInv, CacheIsRegistry, Ids
  <2>4. payload.framed => answer \in {Unavailable, payload.row}
      BY <2>1, DecodedById
  <2>5. c.step = "answered" /\ c.payload = payload /\ c.answer = answer
      OBVIOUS
  <2> HIDE DEF c, answer
  <2> QED
      BY <2>1, <2>2, <2>3, <2>4, <2>5, OneCall DEF RegistryInv
<1>4. ASSUME NEW t \in Tasks, FetchSchema(t)
      PROVE  RegistryInv'
  <2> DEFINE payload == call[t].payload
             answer == Decode(payload.datum, Latest)
             c == [step |-> "answered", payload |-> payload, answer |-> answer]
  <2>1. Written(payload) /\ ~LooksFramed(payload)
      BY <1>4 DEF FetchSchema, RegistryInv, CallsAreWritten
  <2>2. versions' = versions /\ call' = [call EXCEPT ![t] = c]
      BY <1>4 DEF FetchSchema, Answer
  <2>3. CacheIsRegistry'
      BY <1>4, <2>2 DEF FetchSchema, RegistryInv, CacheIsRegistry, Ids
  <2>4. payload.id = Len(versions) => answer = payload.row
      BY <2>1, WrittenIsDecoded DEF RegistryInv, Latest
  <2>5. ~payload.framed
      BY <2>1 DEF LooksFramed
  <2>6. c.step = "answered" /\ c.payload = payload /\ c.answer = answer
      OBVIOUS
  <2> HIDE DEF c, answer
  <2> QED
      BY <2>1, <2>2, <2>3, <2>4, <2>5, <2>6, OneCall DEF RegistryInv
<1>5. ASSUME NEW t \in Tasks, RequestFails(t)
      PROVE  RegistryInv'
  <2> DEFINE payload == call[t].payload
             c == [step |-> "answered", payload |-> payload, answer |-> Unavailable]
  <2>1. Written(payload)
      BY <1>5 DEF RequestFails, RegistryInv, CallsAreWritten
  <2>2. versions' = versions /\ call' = [call EXCEPT ![t] = c]
      BY <1>5 DEF RequestFails, Answer
  <2>3. CacheIsRegistry'
      BY <1>5, <2>2 DEF RequestFails, RegistryInv, CacheIsRegistry, Ids
  <2>4. c.step = "answered" /\ c.payload = payload /\ c.answer = Unavailable
      OBVIOUS
  <2> HIDE DEF c
  <2> QED
      BY <2>1, <2>2, <2>3, <2>4, OneCall DEF RegistryInv
<1>6. ASSUME NEW schema \in Schemas, Register(schema)
      PROVE  RegistryInv'
  <2> Len(versions) \in Nat
      BY DEF RegistryInv, VersionsType
  <2>1. /\ VersionsType'
        /\ Len(versions') = Len(versions) + 1
        /\ \A id \in Ids : id \in Ids' /\ versions'[id] = versions[id]
        /\ \A payload : Written(payload) => Written(payload)'
      BY <1>6, RegisterKeeps DEF Register, RegistryInv
  <2>2. UNCHANGED <<schema_cache, call>>
      BY <1>6 DEF Register
  <2>3. CacheIsRegistry'
      BY <2>1, <2>2 DEF RegistryInv, CacheIsRegistry
  <2>4. CallsAreWritten'
      BY <2>1, <2>2 DEF RegistryInv, CallsAreWritten
  <2>5. ASSUME NEW t \in Tasks, call[t].step = "answered"
        PROVE  call[t].payload.id # Len(versions')
      BY <2>1, <2>5 DEF RegistryInv, CallsAreWritten, Written, Ids, VersionsType
  <2>6. DecodedAsWritten'
      BY <2>2, <2>5 DEF RegistryInv, DecodedAsWritten
  <2> QED
      BY <2>1, <2>3, <2>4, <2>6 DEF RegistryInv
<1> QED
    BY <1>1, <1>2, <1>3, <1>4, <1>5, <1>6 DEF RegistryNext

-----------------------------------------------------------------------------
\* A framed payload is always decoded as it was written, for any schemas and
\* tasks: what a task finds in the cache, or fetches after others have
\* registered new schemas, is the schema its frame names.
THEOREM DecodedCorrect == RegistrySpec => []DecodedAsWritten
<1>1. RegistryInv => DecodedAsWritten
    BY DEF RegistryInv
<1> QED
    BY <1>1, RegistryInitial, RegistryNextKeeps, PTL DEF RegistrySpec
=============================================================================
