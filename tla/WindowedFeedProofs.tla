------------------------- MODULE WindowedFeedProofs -------------------------
(***************************************************************************)
(* Theorems about WindowedFeed, for every table, format, size of polls,    *)
(* window and lateness: about the watermark, about what waits and what the *)
(* windowed aggregate outputs, and about the copy of the table.            *)
(***************************************************************************)
EXTENDS WindowedFeed, ZSetProofs, SequenceTheorems

-----------------------------------------------------------------------------
(***************************************************************************)
(* The times in the stream: none is later than the newest change, and none *)
(* is more than Disorder behind an earlier one.  A watermark that has      *)
(* moved lies AllowedLateness behind a message already polled, and so as   *)
(* far behind, but for Disorder, whatever is not polled yet.               *)
(***************************************************************************)
StreamType ==
    /\ feed \in Feeds
    /\ newest \in Nat /\ watermark_ms \in Nat
    /\ \E S : stream \in Seq(S)
    /\ \A i \in DOMAIN stream : stream[i].time \in Nat /\ stream[i].time <= newest

TimesAreOrdered ==
    \A i, j \in DOMAIN stream :
        i < j => stream[i].time <= stream[j].time + Disorder

WatermarkIsBehind ==
    watermark_ms # 0 =>
        /\ watermark_ms + AllowedLateness <= newest
        /\ \A i \in DOMAIN stream :
            watermark_ms + AllowedLateness <= stream[i].time + Disorder

TimeInv == StreamType /\ TimesAreOrdered /\ WatermarkIsBehind

\* The messages of a change are a sequence, in every format.
LEMMA MessagesAreSequences ==
    ASSUME feed \in Feeds, NEW change, NEW messages \in MessagesOf(change),
           change.kind \in {"insert", "update", "delete"}
    PROVE  \E S : messages \in Seq(S)
<1>1. \A m1, m2, m3, m4 : 
        /\ <<m1>> \in Seq({m1}) /\ <<m1, m2>> \in Seq({m1, m2})
        /\ <<m1, m2, m3>> \in Seq({m1, m2, m3})
        /\ <<m1, m2, m3, m4>> \in Seq({m1, m2, m3, m4})
    OBVIOUS
<1>2. CASE feed.format = "debezium"
  <2>1. messages \in DebeziumMessages(change)
      BY <1>2 DEF MessagesOf
  <2>2. CASE change.kind = "insert"
    <3>1. PICK op \in {"c", "r"} :
            messages = <<[op |-> op, before |-> NullJson, after |-> Object(change.new)]>>
        BY <2>1, <2>2 DEF DebeziumMessages
    <3> QED
        BY <1>1, <3>1
  <2>3. CASE change.kind = "update"
    <3>1. messages = <<[op |-> "u", before |-> Object(change.old),
                        after |-> Object(change.new)]>>
        BY <2>1, <2>3 DEF DebeziumMessages
    <3> QED
        BY <1>1, <3>1
  <2>4. CASE change.kind = "delete"
    <3>1. messages = <<[op |-> "d", before |-> Object(change.old),
                        after |-> NullJson], Tombstone>>
        BY <2>1, <2>4 DEF DebeziumMessages
    <3> QED
        BY <1>1, <3>1
  <2> QED
      BY <2>2, <2>3, <2>4
<1>3. CASE feed.format \in {"json_object", "json_array"}
  <2>1. messages \in JsonMessages(change)
      BY <1>3 DEF MessagesOf
  <2>2. PICK m : messages = <<[action |-> "B"], m, [action |-> "C"]>>
      BY <2>1 DEF JsonMessages
  <2> QED
      BY <1>1, <2>2
<1>4. CASE feed.format = "pgoutput"
  <2>1. messages \in PgOutputMessages(change)
      BY <1>4 DEF MessagesOf
  <2>2. PICK m : messages = <<[type |-> "B"], [type |-> "R"], m, [type |-> "C"]>>
      BY <2>1, Zenon DEF PgOutputMessages
  <2> QED
      BY <1>1, <2>2
<1> QED
    BY <1>2, <1>3, <1>4, FeedAssumption DEF Formats

\* Messages that enter the stream with the time of a change.
LEMMA Arrival ==
    ASSUME TimeInv, NEW messages, NEW S, messages \in Seq(S), NEW change, NEW after,
           NEW time \in Nat, time + Disorder >= newest,
           newest' = MaxOf(newest, time),
           stream' = stream \o Framed(messages, change, time, after),
           UNCHANGED <<feed, watermark_ms>>
    PROVE  TimeInv'
<1> DEFINE F == Framed(messages, change, time, after)
           n == Len(stream)
<1>1. PICK T : stream \in Seq(T)
    BY DEF TimeInv, StreamType
<1>2. F \in Seq({F[i] : i \in DOMAIN messages}) /\ Len(F) = Len(messages)
  <2>1. DOMAIN messages = 1..Len(messages) /\ Len(messages) \in Nat
      OBVIOUS
  <2>2. F = [i \in 1..Len(messages) |-> F[i]]
      BY <2>1 DEF Framed
  <2> HIDE DEF F
  <2> QED
      BY <2>1, <2>2
<1>3. \A i \in DOMAIN F : F[i].time = time
    BY DEF Framed
<1>4. \E U : stream' \in Seq(U)
  <2> DEFINE V == {F[i] : i \in DOMAIN messages}
             U == T \cup V
  <2>1. F \in Seq(V)
      BY <1>2
  <2> HIDE DEF F, V
  <2>2. stream \in Seq(U) /\ F \in Seq(U)
      BY <1>1, <2>1
  <2>3. stream \o F \in Seq(U)
      BY <2>2
  <2> HIDE DEF U
  <2> QED
      BY <2>3 DEF F
<1>5. /\ Len(stream') = n + Len(F) /\ n \in Nat /\ Len(F) \in Nat
      /\ DOMAIN stream' = 1..(n + Len(F)) /\ DOMAIN stream = 1..n
      /\ \A i \in 1..n : stream'[i] = stream[i]
      /\ \A i \in DOMAIN stream' : i \notin 1..n => stream'[i].time = time
    BY <1>1, <1>2, <1>3, <1>4
<1>6. /\ newest \in Nat /\ newest' \in Nat /\ Disorder \in Nat
      /\ newest <= newest' /\ time <= newest' /\ watermark_ms \in Nat
      /\ AllowedLateness \in Nat
    BY FeedAssumption DEF TimeInv, StreamType, MaxOf
<1> HIDE DEF F, n
<1>7. \A i \in 1..n : stream[i].time \in Nat /\ stream[i].time <= newest
    BY <1>5 DEF TimeInv, StreamType
<1>8. StreamType'
  <2>1. ASSUME NEW i \in DOMAIN stream'
        PROVE  stream'[i].time \in Nat /\ stream'[i].time <= newest'
    <3>1. CASE i \in 1..n
        BY <1>5, <1>6, <1>7, <3>1
    <3>2. CASE i \notin 1..n
        BY <1>5, <1>6, <3>2
    <3> QED
        BY <3>1, <3>2
  <2> QED
      BY <1>4, <1>6, <2>1 DEF TimeInv, StreamType
<1>9. TimesAreOrdered'
  <2> SUFFICES ASSUME NEW i \in DOMAIN stream', NEW j \in DOMAIN stream', i < j
               PROVE  stream'[i].time <= stream'[j].time + Disorder
      BY DEF TimesAreOrdered
  <2>1. CASE i \in 1..n /\ j \in 1..n
      BY <1>5, <2>1 DEF TimeInv, TimesAreOrdered
  <2>2. CASE i \in 1..n /\ j \notin 1..n
    <3>1. stream'[i].time <= newest /\ stream'[i].time \in Nat
        BY <1>5, <1>7, <2>2
    <3>2. stream'[j].time = time
        BY <1>5, <2>2
    <3> QED
        BY <1>6, <3>1, <3>2
  <2>3. CASE i \notin 1..n
    <3>1. j \notin 1..n
        BY <1>5, <2>3
    <3>2. stream'[i].time = time /\ stream'[j].time = time
        BY <1>5, <2>3, <3>1
    <3> QED
        BY <1>6, <3>2
  <2> QED
      BY <2>1, <2>2, <2>3
<1>10. WatermarkIsBehind'
    BY <1>5, <1>6, <1>7 DEF TimeInv, WatermarkIsBehind
<1> QED
    BY <1>8, <1>9, <1>10 DEF TimeInv

\* What a poll leaves of the stream.
LEMMA StreamShrinks ==
    ASSUME NEW T, stream \in Seq(T), NEW n \in 1..Len(stream),
           stream' = SubSeq(stream, n + 1, Len(stream))
    PROVE  /\ Len(stream') = Len(stream) - n /\ Len(stream) \in Nat
           /\ DOMAIN stream' = 1..(Len(stream) - n)
           /\ \A i \in DOMAIN stream' :
                i + n \in 1..Len(stream) /\ stream'[i] = stream[i + n]
           /\ \E S : stream' \in Seq(S)
<1> DEFINE len == Len(stream)
<1>1. len \in Nat /\ DOMAIN stream = 1..len /\ n \in 1..len
    OBVIOUS
<1> HIDE DEF len
<1>2. \A i \in (n + 1)..len : stream[i] \in T
    BY <1>1
<1>3. /\ stream' \in Seq(T)
      /\ Len(stream') = IF n + 1 <= len THEN len - (n + 1) + 1 ELSE 0
      /\ \A i \in 1..(len - (n + 1) + 1) : stream'[i] = stream[(n + 1) + i - 1]
  <2> n + 1 \in Int /\ len \in Int
      BY <1>1
  <2> QED
      BY <1>2, SubSeqProperties DEF len
<1>4. Len(stream') = len - n /\ DOMAIN stream' = 1..(len - n)
    BY <1>1, <1>3
<1>5. ASSUME NEW i \in 1..(len - n)
      PROVE  i + n \in 1..len /\ stream'[i] = stream[i + n]
  <2>1. i \in 1..(len - (n + 1) + 1) /\ (n + 1) + i - 1 = i + n /\ i + n \in 1..len
      BY <1>1
  <2> QED
      BY <1>3, <2>1
<1> QED
    BY <1>1, <1>3, <1>4, <1>5 DEF len

\* The newest event time of a poll is that of one of its messages, if any has one.
LEMMA EventTimes ==
    ASSUME TimeInv, NEW n \in PollSizes
    PROVE  /\ MaxEventTime(n) \in Nat
           /\ MaxEventTime(n) = 0 \/ \E k \in 1..n : MaxEventTime(n) = stream[k].time
<1> DEFINE S == {0} \cup {stream[i].time : i \in 1..n}
<1>1. /\ Len(stream) \in Nat /\ n \in 1..Len(stream) /\ newest \in Nat
      /\ \A i \in 1..Len(stream) : stream[i].time \in Nat /\ stream[i].time <= newest
    BY DEF TimeInv, StreamType, PollSizes
<1>2. S \subseteq Nat /\ S # {} /\ \A x \in S : x <= newest
    BY <1>1
<1>3. Max(S) \in S
    BY <1>1, <1>2, GreatestNatural
<1> QED
    BY <1>2, <1>3 DEF MaxEventTime

\* A poll takes messages from the front, and may move the watermark to
\* AllowedLateness behind one of them.
LEMMA Polling ==
    ASSUME TimeInv, NEW n \in PollSizes, NEW otherDelta, PollAndApply(n, otherDelta)
    PROVE  TimeInv'
<1> DEFINE len == Len(stream)
<1>1. /\ len \in Nat /\ DOMAIN stream = 1..len /\ n \in 1..len
      /\ \E S : stream \in Seq(S)
    BY DEF TimeInv, StreamType, PollSizes
<1>2. stream' = SubSeq(stream, n + 1, len) /\ UNCHANGED <<feed, newest>>
    BY DEF PollAndApply, Poll
<1>3. /\ DOMAIN stream' = 1..(len - n)
      /\ \A i \in DOMAIN stream' : i + n \in 1..len /\ stream'[i] = stream[i + n]
      /\ \E S : stream' \in Seq(S)
    BY <1>1, <1>2, StreamShrinks
<1>4. /\ newest \in Nat /\ watermark_ms \in Nat
      /\ Disorder \in Nat /\ AllowedLateness \in Nat
    BY FeedAssumption DEF TimeInv, StreamType
<1>5. \A i \in 1..len : stream[i].time \in Nat /\ stream[i].time <= newest
    BY <1>1 DEF TimeInv, StreamType
<1>6. /\ MaxEventTime(n) \in Nat
      /\ MaxEventTime(n) = 0 \/ \E k \in 1..n : MaxEventTime(n) = stream[k].time
    BY EventTimes
<1>7. /\ watermark_ms' \in Nat
      /\ \/ watermark_ms' \in {0, watermark_ms}
         \/ \E k \in 1..n : watermark_ms' + AllowedLateness = stream[k].time
  <2> DEFINE batch == Union([delta |-> DeltaOf(n), watermark |-> BatchWatermark(n)],
                            [delta |-> otherDelta, watermark |-> None])
  <2>1. watermark_ms' = Cutoff(batch)
      BY DEF PollAndApply, ApplyWindow
  <2>2. batch.watermark = BatchWatermark(n)
      BY DEF Union
  <2> HIDE DEF batch
  <2>3. \/ watermark_ms' = watermark_ms
        \/ watermark_ms' = MaxOf(watermark_ms, MaxOf(0, MaxEventTime(n) - AllowedLateness))
      BY <2>1, <2>2 DEF Cutoff, BatchWatermark
  <2> QED
      BY <1>4, <1>6, <2>3 DEF MaxOf
<1> HIDE DEF len
<1>8. StreamType'
    BY <1>2, <1>3, <1>5, <1>7 DEF TimeInv, StreamType
<1>9. TimesAreOrdered'
  <2> SUFFICES ASSUME NEW i \in DOMAIN stream', NEW j \in DOMAIN stream', i < j
               PROVE  stream'[i].time <= stream'[j].time + Disorder
      BY DEF TimesAreOrdered
  <2>1. i + n < j + n /\ i + n \in 1..len /\ j + n \in 1..len
      BY <1>1, <1>3
  <2> QED
      BY <1>1, <1>3, <2>1 DEF TimeInv, TimesAreOrdered
<1>10. WatermarkIsBehind'
  <2> SUFFICES ASSUME watermark_ms' # 0
               PROVE  /\ watermark_ms' + AllowedLateness <= newest
                      /\ \A i \in DOMAIN stream' :
                            watermark_ms' + AllowedLateness <= stream'[i].time + Disorder
      BY <1>2 DEF WatermarkIsBehind
  <2>1. CASE watermark_ms' = watermark_ms
      BY <1>1, <1>3, <2>1 DEF TimeInv, WatermarkIsBehind
  <2>2. ASSUME NEW k \in 1..n, watermark_ms' + AllowedLateness = stream[k].time
        PROVE  /\ watermark_ms' + AllowedLateness <= newest
               /\ \A i \in DOMAIN stream' :
                    watermark_ms' + AllowedLateness <= stream'[i].time + Disorder
    <3>1. k \in 1..len /\ stream[k].time <= newest
        BY <1>1, <1>5
    <3>2. ASSUME NEW i \in DOMAIN stream'
          PROVE  stream[k].time <= stream'[i].time + Disorder
      <4>1. i + n \in 1..len /\ k < i + n /\ stream'[i] = stream[i + n]
          BY <1>1, <1>3
      <4> QED
          BY <1>1, <3>1, <4>1 DEF TimeInv, TimesAreOrdered
    <3> QED
        BY <2>2, <3>1, <3>2
  <2> QED
      BY <1>7, <2>1, <2>2
<1> QED
    BY <1>8, <1>9, <1>10 DEF TimeInv

-----------------------------------------------------------------------------
LEMMA TimeInit == WindowedInit => TimeInv
<1> SUFFICES ASSUME WindowedInit PROVE TimeInv
    OBVIOUS
<1>1. stream = <<>> /\ newest = 0 /\ watermark_ms = 0 /\ feed \in Feeds
    BY DEF WindowedInit, FeedInit
<1>2. stream \in Seq({}) /\ DOMAIN stream = {}
    BY <1>1
<1> QED
    BY <1>1, <1>2 DEF TimeInv, StreamType, TimesAreOrdered, WatermarkIsBehind

LEMMA TimeNext == TimeInv /\ [WindowedNext]_windowedVars => TimeInv'
<1> SUFFICES ASSUME TimeInv, [WindowedNext]_windowedVars PROVE TimeInv'
    OBVIOUS
<1>1. CASE UNCHANGED windowedVars
    BY <1>1 DEF TimeInv, StreamType, TimesAreOrdered, WatermarkIsBehind,
                windowedVars, feedVars, windowVars
<1>2. ASSUME NEW change \in ChangesOf(table), Change(change), UNCHANGED windowVars
      PROVE  TimeInv'
  <2> DEFINE after == (table \ {change.old}) \cup
                        (IF change.kind = "delete" THEN {} ELSE {change.new})
             time == IF change.kind = "delete" THEN newest
                                               ELSE change.new[TimeColumn]
  <2>1. /\ change.kind \in {"insert", "update", "delete"}
        /\ change.kind # "delete" => change.new \in TableRows
      BY DEF ChangesOf
  <2>2. time \in Nat
      BY <2>1, FeedAssumption DEF TimeInv, StreamType
  <2>3. PICK messages \in MessagesOf(change) :
            stream' = stream \o Framed(messages, change, time, after)
      BY <1>2 DEF Change
  <2>4. PICK S : messages \in Seq(S)
      BY <2>1, MessagesAreSequences DEF TimeInv, StreamType
  <2>5. /\ time + Disorder >= newest /\ newest' = MaxOf(newest, time)
        /\ UNCHANGED <<feed, watermark_ms>>
      BY <1>2 DEF Change, windowVars
  <2> HIDE DEF after, time
  <2> QED
      BY <2>2, <2>3, <2>4, <2>5, Arrival
<1>3. ASSUME NEW msg \in Noise, NoiseArrives(msg), UNCHANGED windowVars
      PROVE  TimeInv'
  <2>1. <<msg>> \in Seq({msg})
      OBVIOUS
  <2>2. /\ stream' = stream \o Framed(<<msg>>, NoColumns, newest, table)
        /\ UNCHANGED <<feed, newest, watermark_ms>>
      BY <1>3 DEF NoiseArrives, windowVars
  <2>3. newest \in Nat /\ newest + Disorder >= newest /\ newest' = MaxOf(newest, newest)
      BY <2>2, FeedAssumption DEF TimeInv, StreamType, MaxOf
  <2> QED
      BY <2>1, <2>2, <2>3, Arrival
<1>4. ASSUME NEW n \in PollSizes, NEW otherDelta, PollAndApply(n, otherDelta)
      PROVE  TimeInv'
    BY <1>4, Polling
<1> QED
    BY <1>1, <1>2, <1>3, <1>4 DEF WindowedNext, TableChanges

\* A window of at least a millisecond: a message that has not been polled is
\* never older than its window allows, as long as the changes of the table are
\* not more out of order than the lateness the connector allows for, wherever
\* the polls cut the stream.
THEOREM ChangesAreInTime ==
    ASSUME WindowSize > 0
    PROVE  WindowedSpec => []NothingArrivesLate
<1>1. ASSUME TimeInv PROVE NothingArrivesLate
  <2> SUFFICES ASSUME Disorder <= AllowedLateness, NEW i \in DOMAIN stream
               PROVE  stream[i].time + WindowSize > watermark_ms
      BY DEF NothingArrivesLate
  <2>1. /\ stream[i].time \in Nat /\ watermark_ms \in Nat
        /\ WindowSize \in Nat /\ Disorder \in Nat /\ AllowedLateness \in Nat
      BY <1>1, FeedAssumption, WindowAssumption DEF TimeInv, StreamType
  <2>2. watermark_ms # 0 =>
            watermark_ms + AllowedLateness <= stream[i].time + Disorder
      BY <1>1 DEF TimeInv, WatermarkIsBehind
  <2> QED
      BY <2>1, <2>2
<1> QED
    BY <1>1, TimeInit, TimeNext, PTL DEF WindowedSpec

-----------------------------------------------------------------------------
(***************************************************************************)
(* The delta of a poll: what the messages of a stream, one after another,  *)
(* make of an empty Z-set.                                                 *)
(***************************************************************************)
ApplyAs(format, delta, framed) ==
    IF format = "debezium"
       THEN IF framed.msg.op \in {"malformed", "tombstone"}
               THEN delta
               ELSE ApplyCdc(delta, framed.msg)
       ELSE ApplyWalChange(delta, framed.msg)

\* g holds the delta of the first i messages of s, for every i up to n.
Deltas(format, s, n, g) ==
    g = [i \in 0..n |-> IF i = 0 THEN Empty ELSE ApplyAs(format, g[i - 1], s[i])]
DeltaAs(format, s, n) == (CHOOSE g : Deltas(format, s, n, g))[n]

LEMMA DeltaOfStream == \A n : DeltaOf(n) = DeltaAs(feed.format, stream, n)
    BY DEF DeltaOf, DeltaAs, Deltas, ApplyMessage, ApplyAs

LEMMA DeltasExist ==
    ASSUME NEW format, NEW s, NEW n \in Nat
    PROVE  \E g : Deltas(format, s, n, g)
<1> DEFINE Good == {m \in 0..n : \E g : Deltas(format, s, m, g)}
           Next(state, i) == ApplyAs(format, state, s[i])
<1>1. 0 \in Good
  <2> DEFINE g == [i \in 0..0 |-> Empty]
  <2>1. g = [i \in 0..0 |-> IF i = 0 THEN Empty ELSE Next(g[i - 1], i)]
    OBVIOUS
  <2> HIDE DEF g
  <2>2. Deltas(format, s, 0, g)
    BY <2>1 DEF Deltas
  <2> QED
    BY <2>2
<1>2. ASSUME NEW m \in 1..n, m - 1 \in Good PROVE m \in Good
  <2>1. PICK g : Deltas(format, s, m - 1, g)
    BY <1>2
  <2> DEFINE h == [i \in 0..m |-> IF i < m THEN g[i] ELSE Next(g[m - 1], m)]
  <2>2. \A i \in 0..(m - 1) : g[i] = IF i = 0 THEN Empty ELSE Next(g[i - 1], i)
    BY <2>1 DEF Deltas
  <2> HIDE DEF Next
  <2>3. \A i \in 0..m : h[i] = IF i = 0 THEN Empty ELSE Next(h[i - 1], i)
    BY <2>2
  <2>4. h = [i \in 0..m |-> h[i]]
    OBVIOUS
  <2> HIDE DEF h
  <2>5. h = [i \in 0..m |-> IF i = 0 THEN Empty ELSE Next(h[i - 1], i)]
    BY <2>3, <2>4
  <2>6. Deltas(format, s, m, h)
    BY <2>5 DEF Deltas, Next
  <2> QED
    BY <2>6
<1>3. \A m \in 0..n : m \in Good
  <2> HIDE DEF Good
  <2> QED
    BY <1>1, <1>2, Upwards
<1> QED
    BY <1>3

LEMMA DeltaSteps ==
    ASSUME NEW format, NEW s
    PROVE  /\ DeltaAs(format, s, 0) = Empty
           /\ \A n \in Nat \ {0} :
                DeltaAs(format, s, n) = ApplyAs(format, DeltaAs(format, s, n - 1), s[n])
<1> DEFINE G(n) == CHOOSE g : Deltas(format, s, n, g)
<1>1. \A n \in Nat : Deltas(format, s, n, G(n))
    BY DeltasExist
<1>2. \A n : DeltaAs(format, s, n) = G(n)[n]
    BY DEF DeltaAs
<1> HIDE DEF G
<1>3. G(0)[0] = Empty
    BY <1>1 DEF Deltas
<1>4. ASSUME NEW n \in Nat \ {0} PROVE G(n)[n] = ApplyAs(format, G(n - 1)[n - 1], s[n])
  <2>1. n - 1 \in Nat /\ Deltas(format, s, n, G(n)) /\ Deltas(format, s, n - 1, G(n - 1))
    BY <1>1
  <2> DEFINE g == G(n)
             h == G(n - 1)
             Good == {i \in 0..(n - 1) : g[i] = h[i]}
  <2>2. 0 \in Good
    BY <2>1 DEF Deltas
  <2>3. ASSUME NEW i \in 1..(n - 1), i - 1 \in Good PROVE i \in Good
    <3>1. /\ g[i] = ApplyAs(format, g[i - 1], s[i])
          /\ h[i] = ApplyAs(format, h[i - 1], s[i])
        BY <2>1 DEF Deltas
    <3> QED
        BY <2>3, <3>1
  <2>4. \A i \in 0..(n - 1) : i \in Good
    <3> HIDE DEF Good
    <3> QED
        BY <2>1, <2>2, <2>3, Upwards
  <2>5. g[n - 1] = h[n - 1]
    BY <2>1, <2>4
  <2>6. g[n] = ApplyAs(format, g[n - 1], s[n])
    BY <2>1 DEF Deltas
  <2> QED
    BY <2>5, <2>6
<1> QED
    BY <1>2, <1>3, <1>4

-----------------------------------------------------------------------------
\* Events that were parsed from a message, of which there is one at most.
LEMMA AppliedEvents ==
    ASSUME NEW delta
    PROVE  /\ FoldLeft(ApplyEvent, delta, <<>>) = delta
           /\ \A event : FoldLeft(ApplyEvent, delta, <<event>>) = ApplyEvent(delta, event)
<1>1. FoldLeft(ApplyEvent, delta, <<>>) = delta
  <2> DEFINE Eq(H) == H = [t \in SUBSET {} |->
                            IF t = {} THEN delta
                            ELSE ApplyEvent(H[t \ {Max(t)}], <<>>[Max(t)])]
             F == CHOOSE H : Eq(H)
             E == [t \in SUBSET {} |-> delta]
  <2>1. Eq(E)
    OBVIOUS
  <2>2. Eq(F)
    BY <2>1
  <2>3. F[{}] = delta
    BY <2>2
  <2>4. DOMAIN <<>> = {}
    OBVIOUS
  <2>5. FoldLeft(ApplyEvent, delta, <<>>) = F[{}]
    BY <2>4 DEF FoldLeft, MapThenFoldSet
  <2> QED
    BY <2>3, <2>5
<1>2. ASSUME NEW event
      PROVE  FoldLeft(ApplyEvent, delta, <<event>>) = ApplyEvent(delta, event)
  <2> DEFINE seq == <<event>>
             Eq(H) == H = [t \in SUBSET DOMAIN seq |->
                            IF t = {} THEN delta
                            ELSE ApplyEvent(H[t \ {Max(t)}], seq[Max(t)])]
             F == CHOOSE H : Eq(H)
             E == [t \in SUBSET {1} |-> IF t = {} THEN delta ELSE ApplyEvent(delta, event)]
  <2>1. DOMAIN seq = {1} /\ seq[1] = event /\ SUBSET {1} = {{}, {1}}
    OBVIOUS
  <2>2. Max({1}) = 1 /\ {1} \ {1} = {}
    BY DEF Max
  <2>3. FoldLeft(ApplyEvent, delta, seq) = F[DOMAIN seq]
    BY DEF FoldLeft, MapThenFoldSet
  <2> HIDE DEF seq
  <2>4. Eq(E)
    <3>1. /\ E[{}] = delta /\ E[{1}] = ApplyEvent(E[{}], seq[1])
          /\ E = [t \in SUBSET {1} |-> E[t]]
        BY <2>1
    <3> HIDE DEF E
    <3>2. \A t \in SUBSET {1} :
            E[t] = IF t = {} THEN delta ELSE ApplyEvent(E[t \ {Max(t)}], seq[Max(t)])
        BY <2>1, <2>2, <3>1
    <3> QED
        BY <2>1, <3>1, <3>2
  <2>5. Eq(F)
    BY <2>4
  <2> HIDE DEF F
  <2>6. F[{}] = delta /\ F[{1}] = ApplyEvent(F[{}], seq[1])
    BY <2>1, <2>2, <2>5
  <2> QED
    BY <2>1, <2>3, <2>6 DEF seq
<1> QED
    BY <1>1, <1>2

-----------------------------------------------------------------------------
(***************************************************************************)
(* What a message adds to the weight of a row.                             *)
(***************************************************************************)
Same(row, one) == IF row = one THEN 1 ELSE 0

CdcGain(envelope, row) ==
    LET before == ObjectRow(Member(envelope, "before"))
        after == ObjectRow(Member(envelope, "after"))
    IN CASE CdcOp(envelope) \in {"c", "r"} -> Same(row, after)
         [] CdcOp(envelope) = "d" -> -Same(row, before)
         [] CdcOp(envelope) = "u" -> Same(row, after) - Same(row, before)
         [] OTHER -> 0

EventGain(event, row) ==
    CASE event.kind = "insert" -> Same(row, event.row)
      [] event.kind = "delete" -> -Same(row, event.row)
      [] event.kind = "update" -> Same(row, event.new_row) - Same(row, event.old_row)
      [] OTHER -> 0

WalGain(msg, row) ==
    IF ParseWalData(msg) = <<>> THEN 0 ELSE EventGain(ParseWalData(msg)[1], row)

Gain(format, framed, row) ==
    IF format = "debezium"
       THEN IF framed.msg.op \in {"malformed", "tombstone"}
               THEN 0
               ELSE CdcGain(framed.msg, row)
       ELSE WalGain(framed.msg, row)

LEMMA OneIsInserted ==
    ASSUME NEW z, IsZSet(z), NEW x
    PROVE  /\ IsZSet(Insert(z, x, 1)) /\ IsZSet(Insert(z, x, -1))
           /\ \A row : /\ Weight(Insert(z, x, 1), row) = Weight(z, row) + Same(row, x)
                       /\ Weight(Insert(z, x, -1), row) = Weight(z, row) - Same(row, x)
                       /\ Weight(z, row) \in Int
<1>1. IsZSet(Insert(z, x, 1)) /\ IsZSet(Insert(z, x, -1))
    BY InsertAdds
<1>2. ASSUME NEW row
      PROVE  /\ Weight(Insert(z, x, 1), row) = Weight(z, row) + Same(row, x)
             /\ Weight(Insert(z, x, -1), row) = Weight(z, row) - Same(row, x)
             /\ Weight(z, row) \in Int
  <2>1. Weight(Insert(z, x, 1), row) = Weight(z, row) + (IF row = x THEN 1 ELSE 0)
    BY InsertAdds
  <2>2. Weight(Insert(z, x, -1), row) = Weight(z, row) + (IF row = x THEN -1 ELSE 0)
    BY InsertAdds
  <2>3. Weight(z, row) \in Int
    BY WeightType
  <2> QED
    BY <2>1, <2>2, <2>3 DEF Same
<1> QED
    BY <1>1, <1>2

\* y is z with gains of rows added, which g gives.
LEMMA TwoAreInserted ==
    ASSUME NEW z, IsZSet(z), NEW x, NEW y
    PROVE  /\ IsZSet(Insert(Insert(z, x, -1), y, 1))
           /\ \A row : Weight(Insert(Insert(z, x, -1), y, 1), row) =
                            Weight(z, row) + (Same(row, y) - Same(row, x))
<1> DEFINE u == Insert(z, x, -1)
<1>1. /\ IsZSet(u)
      /\ \A row : Weight(u, row) = Weight(z, row) - Same(row, x) /\ Weight(z, row) \in Int
    BY OneIsInserted
<1> HIDE DEF u
<1>2. /\ IsZSet(Insert(u, y, 1))
      /\ \A row : Weight(Insert(u, y, 1), row) = Weight(u, row) + Same(row, y)
    BY <1>1, OneIsInserted
<1>3. \A row : Same(row, x) \in Int /\ Same(row, y) \in Int
    BY DEF Same
<1> QED
    BY <1>1, <1>2, <1>3 DEF u

LEMMA CdcGains ==
    ASSUME NEW z, IsZSet(z), NEW envelope
    PROVE  /\ IsZSet(ApplyCdc(z, envelope))
           /\ \A row : Weight(ApplyCdc(z, envelope), row) =
                            Weight(z, row) + CdcGain(envelope, row)
<1> DEFINE before == ObjectRow(Member(envelope, "before"))
           after == ObjectRow(Member(envelope, "after"))
           op == CdcOp(envelope)
<1>0. \A row : /\ Weight(z, row) \in Int /\ Same(row, before) \in Int
               /\ Same(row, after) \in Int
    BY WeightType DEF Same
<1> HIDE DEF before, after, op
<1>1. CASE op \in {"c", "r"}
  <2>1. ApplyCdc(z, envelope) = Insert(z, after, 1)
    BY <1>1 DEF ApplyCdc, before, after, op
  <2>2. \A row : CdcGain(envelope, row) = Same(row, after)
    BY <1>1 DEF CdcGain, before, after, op
  <2> QED
    BY <2>1, <2>2, OneIsInserted
<1>2. CASE op = "d"
  <2>1. ApplyCdc(z, envelope) = Insert(z, before, -1)
    BY <1>2 DEF ApplyCdc, before, after, op
  <2>2. \A row : CdcGain(envelope, row) = -Same(row, before)
    BY <1>2 DEF CdcGain, before, after, op
  <2> QED
    BY <1>0, <2>1, <2>2, OneIsInserted
<1>3. CASE op = "u"
  <2>1. ApplyCdc(z, envelope) = Insert(Insert(z, before, -1), after, 1)
    BY <1>3 DEF ApplyCdc, before, after, op
  <2>2. \A row : CdcGain(envelope, row) = Same(row, after) - Same(row, before)
    BY <1>3 DEF CdcGain, before, after, op
  <2> QED
    BY <2>1, <2>2, TwoAreInserted
<1>4. CASE op \notin {"c", "r", "d", "u"}
  <2>1. ApplyCdc(z, envelope) = z
    BY <1>4 DEF ApplyCdc, before, after, op
  <2>2. \A row : CdcGain(envelope, row) = 0
    BY <1>4 DEF CdcGain, before, after, op
  <2> QED
    BY <1>0, <2>1, <2>2
<1> QED
    BY <1>1, <1>2, <1>3, <1>4

LEMMA EventGains ==
    ASSUME NEW z, IsZSet(z), NEW event
    PROVE  /\ IsZSet(ApplyEvent(z, event))
           /\ \A row : Weight(ApplyEvent(z, event), row) =
                            Weight(z, row) + EventGain(event, row)
<1>0. \A row, x : Weight(z, row) \in Int /\ Same(row, x) \in Int
    BY WeightType DEF Same
<1>1. CASE event.kind = "insert"
  <2>1. ApplyEvent(z, event) = Insert(z, event.row, 1)
    BY <1>1 DEF ApplyEvent
  <2>2. \A row : EventGain(event, row) = Same(row, event.row)
    BY <1>1 DEF EventGain
  <2> QED
    BY <2>1, <2>2, OneIsInserted
<1>2. CASE event.kind = "delete"
  <2>1. ApplyEvent(z, event) = Insert(z, event.row, -1)
    BY <1>2 DEF ApplyEvent
  <2>2. \A row : EventGain(event, row) = -Same(row, event.row)
    BY <1>2 DEF EventGain
  <2> QED
    BY <1>0, <2>1, <2>2, OneIsInserted
<1>3. CASE event.kind = "update"
  <2>1. ApplyEvent(z, event) = Insert(Insert(z, event.old_row, -1), event.new_row, 1)
    BY <1>3 DEF ApplyEvent
  <2>2. \A row : EventGain(event, row) =
                    Same(row, event.new_row) - Same(row, event.old_row)
    BY <1>3 DEF EventGain
  <2> QED
    BY <2>1, <2>2, TwoAreInserted
<1>4. CASE event.kind \notin {"insert", "delete", "update"}
  <2>1. ApplyEvent(z, event) = z
    BY <1>4 DEF ApplyEvent
  <2>2. \A row : EventGain(event, row) = 0
    BY <1>4 DEF EventGain
  <2> QED
    BY <1>0, <2>1, <2>2
<1> QED
    BY <1>1, <1>2, <1>3, <1>4

\* A message holds one event or none.
LEMMA AtMostOneEvent ==
    ASSUME NEW msg
    PROVE  \/ ParseWalData(msg) = <<>>
           \/ \E event : ParseWalData(msg) = <<event>>
<1>1. CASE "action" \in DOMAIN msg
  <2>1. ParseWalData(msg) = JsonWalToEvents(msg)
    BY <1>1 DEF ParseWalData
  <2> QED
    BY <2>1, Zenon DEF JsonWalToEvents
<1>2. CASE "action" \notin DOMAIN msg
  <2>1. ParseWalData(msg) = ParsePgOutput(msg)
    BY <1>2 DEF ParseWalData
  <2> QED
    BY <2>1, Zenon DEF ParsePgOutput
<1> QED
    BY <1>1, <1>2

LEMMA MessageGains ==
    ASSUME NEW z, IsZSet(z), NEW format, NEW framed
    PROVE  /\ IsZSet(ApplyAs(format, z, framed))
           /\ \A row : Weight(ApplyAs(format, z, framed), row) =
                            Weight(z, row) + Gain(format, framed, row)
<1>0. \A row : Weight(z, row) \in Int
    BY WeightType
<1>1. CASE format = "debezium" /\ framed.msg.op \in {"malformed", "tombstone"}
  <2>1. /\ ApplyAs(format, z, framed) = z
        /\ \A row : Gain(format, framed, row) = 0
    BY <1>1 DEF ApplyAs, Gain
  <2> QED
    BY <1>0, <2>1
<1>2. CASE format = "debezium" /\ framed.msg.op \notin {"malformed", "tombstone"}
  <2>1. /\ ApplyAs(format, z, framed) = ApplyCdc(z, framed.msg)
        /\ \A row : Gain(format, framed, row) = CdcGain(framed.msg, row)
    BY <1>2 DEF ApplyAs, Gain
  <2> QED
    BY <2>1, CdcGains
<1>3. CASE format # "debezium"
  <2>1. /\ ApplyAs(format, z, framed) = FoldLeft(ApplyEvent, z, ParseWalData(framed.msg))
        /\ \A row : Gain(format, framed, row) = WalGain(framed.msg, row)
    BY <1>3 DEF ApplyAs, Gain, ApplyWalChange
  <2>2. CASE ParseWalData(framed.msg) = <<>>
    <3>1. ApplyAs(format, z, framed) = z
        BY <2>1, <2>2, AppliedEvents
    <3>2. \A row : Gain(format, framed, row) = 0
        BY <2>1, <2>2 DEF WalGain
    <3> QED
        BY <1>0, <3>1, <3>2
  <2>3. ASSUME NEW event, ParseWalData(framed.msg) = <<event>>
        PROVE  /\ IsZSet(ApplyAs(format, z, framed))
               /\ \A row : Weight(ApplyAs(format, z, framed), row) =
                                Weight(z, row) + Gain(format, framed, row)
    <3>1. ApplyAs(format, z, framed) = ApplyEvent(z, event)
        BY <2>1, <2>3, AppliedEvents
    <3>2. <<event>> # <<>> /\ <<event>>[1] = event
        OBVIOUS
    <3>3. \A row : Gain(format, framed, row) = EventGain(event, row)
        BY <2>1, <2>3, <3>2 DEF WalGain
    <3> QED
        BY <3>1, <3>3, EventGains
  <2> QED
    BY <2>2, <2>3, AtMostOneEvent
<1> QED
    BY <1>1, <1>2, <1>3

LEMMA DeltaIsZSet ==
    ASSUME NEW format, NEW s, NEW n \in Nat
    PROVE  IsZSet(DeltaAs(format, s, n))
<1> DEFINE Good == {i \in 0..n : IsZSet(DeltaAs(format, s, i))}
<1>1. 0 \in Good
    BY DeltaSteps, EmptyIsZSet
<1>2. ASSUME NEW i \in 1..n, i - 1 \in Good PROVE i \in Good
  <2>1. DeltaAs(format, s, i) = ApplyAs(format, DeltaAs(format, s, i - 1), s[i])
    BY DeltaSteps
  <2>2. IsZSet(DeltaAs(format, s, i - 1))
    BY <1>2
  <2> QED
    BY <2>1, <2>2, MessageGains
<1>3. \A i \in 0..n : i \in Good
  <2> HIDE DEF Good
  <2> QED
    BY <1>1, <1>2, Upwards
<1> QED
    BY <1>3

-----------------------------------------------------------------------------
(***************************************************************************)
(* What waits.  A queue is a bag of entries (event time, row, weight); it  *)
(* holds, for a row, the sum of the weights of its entries.                *)
(***************************************************************************)
IsQueue(bag) ==
    /\ bag = [e \in DOMAIN bag |-> bag[e]]
    /\ IsFiniteSet(DOMAIN bag)
    /\ \A e \in DOMAIN bag :
        /\ e[1] = EventTime(e[2])
        /\ e[3] \in Int
        /\ bag[e] \in Nat \ {0}

RowsIn(bag) == [e \in DOMAIN bag |-> e[2]]
Amounts(bag) == [e \in DOMAIN bag |-> e[3] * bag[e]]
Entries(bag, row) == Standing(RowsIn(bag), DOMAIN bag, row)
Queued(bag, row) == SumOver(Amounts(bag), Entries(bag, row))

LEMMA QueueTypes ==
    ASSUME NEW bag, IsQueue(bag)
    PROVE  /\ \A e \in DOMAIN bag : Amounts(bag)[e] \in Int
           /\ \A row : /\ Entries(bag, row) = {e \in DOMAIN bag : e[2] = row}
                       /\ IsFiniteSet(Entries(bag, row))
                       /\ Queued(bag, row) \in Int
<1>1. ASSUME NEW e \in DOMAIN bag PROVE Amounts(bag)[e] \in Int
  <2>1. e[3] \in Int /\ bag[e] \in Int
    BY DEF IsQueue
  <2>2. e[3] * bag[e] \in Int
    BY <2>1, Distributes
  <2> QED
    BY <2>2 DEF Amounts
<1>2. ASSUME NEW row
      PROVE  /\ Entries(bag, row) = {e \in DOMAIN bag : e[2] = row}
             /\ IsFiniteSet(Entries(bag, row))
             /\ Queued(bag, row) \in Int
  <2>1. Entries(bag, row) = {e \in DOMAIN bag : e[2] = row}
    BY DEF Entries, Standing, RowsIn
  <2>2. IsFiniteSet(Entries(bag, row)) /\ Entries(bag, row) \subseteq DOMAIN bag
    BY <2>1, FS_Subset DEF IsQueue
  <2> QED
    BY <1>1, <2>1, <2>2, SumType DEF Queued
<1> QED
    BY <1>1, <1>2

\* Flushed, a queue is a Z-set with these weights.
LEMMA FlushAdds ==
    ASSUME NEW bag, IsQueue(bag)
    PROVE  /\ IsZSet(FlushDelta(bag))
           /\ \A row : Weight(FlushDelta(bag), row) = Queued(bag, row)
<1> DEFINE k == RowsIn(bag)
           w == Amounts(bag)
           D == DOMAIN bag
           Eq(F) == F = [s \in SUBSET D |->
                            IF s = {} THEN Empty
                            ELSE Insert(F[s \ {One(s)}], One(s)[2],
                                        One(s)[3] * bag[One(s)])]
           G == CHOOSE F : Eq(F)
<1>1. IsFiniteSet(D)
    BY DEF IsQueue
<1>2. \A x \in D : w[x] \in Int /\ w[x] = x[3] * bag[x] /\ k[x] = x[2]
    BY QueueTypes DEF Amounts, RowsIn
<1> HIDE DEF k, w
<1>3. ASSUME NEW F PROVE Inserts(Empty, k, w, D, F) <=> Eq(F)
  <2>1. \A s \in SUBSET D : s # {} =>
            w[One(s)] = One(s)[3] * bag[One(s)] /\ k[One(s)] = One(s)[2]
    BY <1>2, OneIsMember
  <2> HIDE DEF D
  <2> QED
    BY <2>1 DEF Inserts
<1>4. Inserts(Empty, k, w, D, G)
  <2>1. PICK F : Inserts(Empty, k, w, D, F)
    <3> HIDE DEF D
    <3> QED
        BY <1>1, <1>2, InsertsExist, EmptyIsZSet
  <2>2. Eq(G)
    BY <1>3, <2>1
  <2> QED
    BY <1>3, <2>2
<1>5. FlushDelta(bag) = G[D]
    BY DEF FlushDelta, FoldSet, MapThenFoldSet, One
<1> HIDE DEF G, D
<1>6. Inserted(Empty, k, w, D, G[D])
    BY <1>1, <1>2, <1>4, InsertsBuild, EmptyIsZSet
<1>7. ASSUME NEW r PROVE Weight(G[D], r) = Queued(bag, r)
  <2>1. Weight(G[D], r) = 0 + SumOver(w, Standing(k, D, r))
    BY <1>6, EmptyIsZSet DEF Inserted
  <2>2. SumOver(w, Standing(k, D, r)) = Queued(bag, r)
    BY DEF Queued, Entries, w, k, D
  <2>3. Queued(bag, r) \in Int
    BY QueueTypes
  <2> QED
    BY <2>1, <2>2, <2>3
<1> QED
    BY <1>5, <1>6, <1>7 DEF Inserted

\* A queue among more entries, which it has no copy of.
Widened(bag, U) == [e \in U |-> e[3] * Weight(bag, e)]

LEMMA QueueWidens ==
    ASSUME NEW bag, IsQueue(bag), NEW U, IsFiniteSet(U), DOMAIN bag \subseteq U,
           \A e \in U : e[3] \in Int, NEW row, NEW S, S = {e \in U : e[2] = row}
    PROVE  /\ SumOver(Widened(bag, U), S) = Queued(bag, row)
           /\ \A e \in S : Widened(bag, U)[e] \in Int
<1> DEFINE f == Widened(bag, U)
           T == Entries(bag, row)
<1>1. T = {e \in DOMAIN bag : e[2] = row} /\ IsFiniteSet(T)
    BY QueueTypes
<1>2. IsFiniteSet(S) /\ T \in SUBSET S
    BY <1>1, FS_Subset
<1>3. \A e \in S : f[e] \in Int
  <2> SUFFICES ASSUME NEW e \in S PROVE f[e] \in Int
    OBVIOUS
  <2>1. e[3] \in Int /\ Weight(bag, e) \in Int
    BY DEF IsQueue, Weight
  <2>2. e[3] * Weight(bag, e) \in Int
    BY <2>1, Distributes
  <2> QED
    BY <2>2 DEF Widened
<1>4. \A e \in S \ T : f[e] = 0
  <2> SUFFICES ASSUME NEW e \in S \ T PROVE f[e] = 0
    OBVIOUS
  <2>1. e \notin DOMAIN bag /\ e[3] \in Int
    BY <1>1
  <2>2. Weight(bag, e) = 0 /\ e[3] * 0 = 0
    BY <2>1 DEF Weight
  <2> QED
    BY <2>2 DEF Widened
<1>5. \A e \in T : f[e] = Amounts(bag)[e]
    BY <1>1 DEF Widened, Amounts, Weight
<1> HIDE DEF f, T
<1>6. SumOver(f, S) = SumOver(f, T)
    BY <1>2, <1>3, <1>4, SumOverSupport
<1>7. SumOver(f, T) = SumOver(Amounts(bag), T)
    BY <1>1, <1>5, SumSame
<1> QED
    BY <1>3, <1>6, <1>7 DEF Queued, f, T

\* Two queues together.
LEMMA QueuesJoin ==
    ASSUME NEW a, IsQueue(a), NEW b, IsQueue(b)
    PROVE  /\ IsQueue(a (+) b)
           /\ \A row : Queued(a (+) b, row) = Queued(a, row) + Queued(b, row)
<1> DEFINE c == a (+) b
           U == DOMAIN a \cup DOMAIN b
<1>1. /\ c = [e \in U |-> Weight(a, e) + Weight(b, e)]
      /\ DOMAIN c = U
    BY DEF (+), Weight
<1>2. IsFiniteSet(U)
    BY FS_Union DEF IsQueue
<1>3. \A e \in U : /\ e[1] = EventTime(e[2]) /\ e[3] \in Int
                   /\ Weight(a, e) \in Nat /\ Weight(b, e) \in Nat
                   /\ Weight(a, e) + Weight(b, e) \in Nat \ {0}
    BY DEF IsQueue, Weight
<1> HIDE DEF c, U
<1>4. IsQueue(c)
    BY <1>1, <1>2, <1>3 DEF IsQueue
<1>5. ASSUME NEW row PROVE Queued(c, row) = Queued(a, row) + Queued(b, row)
  <2> DEFINE S == {e \in U : e[2] = row}
  <2>0. /\ Entries(c, row) = {e \in DOMAIN c : e[2] = row}
        /\ IsFiniteSet(Entries(c, row))
    BY <1>4, QueueTypes
  <2>1. Entries(c, row) = S /\ IsFiniteSet(S)
    BY <1>1, <2>0
  <2>2. /\ SumOver(Widened(a, U), S) = Queued(a, row)
        /\ \A e \in S : Widened(a, U)[e] \in Int
    BY <1>2, <1>3, QueueWidens DEF U
  <2>3. /\ SumOver(Widened(b, U), S) = Queued(b, row)
        /\ \A e \in S : Widened(b, U)[e] \in Int
    BY <1>2, <1>3, QueueWidens DEF U
  <2>4. ASSUME NEW e \in S
        PROVE  Amounts(c)[e] = Widened(a, U)[e] + Widened(b, U)[e]
    <3>1. /\ Amounts(c)[e] = e[3] * (Weight(a, e) + Weight(b, e))
          /\ Widened(a, U)[e] = e[3] * Weight(a, e)
          /\ Widened(b, U)[e] = e[3] * Weight(b, e)
        BY <1>1 DEF Amounts, Widened
    <3>2. e[3] \in Int /\ Weight(a, e) \in Int /\ Weight(b, e) \in Int
        BY <1>3
    <3>3. e[3] * (Weight(a, e) + Weight(b, e)) = e[3] * Weight(a, e) + e[3] * Weight(b, e)
        BY <3>2, Distributes
    <3> QED
        BY <3>1, <3>3
  <2> HIDE DEF S
  <2>5. SumOver(Amounts(c), S) = SumOver(Widened(a, U), S) + SumOver(Widened(b, U), S)
    BY <2>1, <2>2, <2>3, <2>4, SumAdds
  <2> QED
    BY <2>1, <2>2, <2>3, <2>5 DEF Queued
<1> QED
    BY <1>4, <1>5 DEF c

\* Some of the entries.
LEMMA QueuePart ==
    ASSUME NEW bag, IsQueue(bag), NEW T \in SUBSET DOMAIN bag
    PROVE  /\ IsQueue(Restrict(bag, T))
           /\ DOMAIN Restrict(bag, T) = T
           /\ \A row :
                /\ (\A e \in DOMAIN bag : e[2] = row => e \in T) =>
                        Queued(Restrict(bag, T), row) = Queued(bag, row)
                /\ (\A e \in T : e[2] # row) => Queued(Restrict(bag, T), row) = 0
<1> DEFINE part == Restrict(bag, T)
<1>1. DOMAIN part = T /\ (\A e \in T : part[e] = bag[e]) /\ part = [e \in T |-> part[e]]
    BY DEF Restrict
<1>2. IsFiniteSet(T)
    BY FS_Subset DEF IsQueue
<1> HIDE DEF part
<1>3. IsQueue(part)
    BY <1>1, <1>2 DEF IsQueue
<1>4. ASSUME NEW row, \A e \in DOMAIN bag : e[2] = row => e \in T
      PROVE  Queued(part, row) = Queued(bag, row)
  <2> DEFINE S == Entries(part, row)
  <2>1. /\ S = {e \in T : e[2] = row} /\ IsFiniteSet(S)
        /\ Entries(bag, row) = {e \in DOMAIN bag : e[2] = row}
    BY <1>1, <1>3, QueueTypes
  <2>2. Entries(bag, row) = S
    BY <1>4, <2>1
  <2>3. \A e \in S : Amounts(part)[e] = Amounts(bag)[e]
    BY <1>1, <2>1 DEF Amounts
  <2> HIDE DEF S
  <2>4. SumOver(Amounts(part), S) = SumOver(Amounts(bag), S)
    BY <2>1, <2>3, SumSame
  <2> QED
    BY <2>2, <2>4 DEF Queued, S
<1>5. ASSUME NEW row, \A e \in T : e[2] # row PROVE Queued(part, row) = 0
  <2>1. Entries(part, row) = {}
    BY <1>1, <1>3, <1>5, QueueTypes
  <2> QED
    BY <2>1, SumEmpty DEF Queued
<1> QED
    BY <1>1, <1>3, <1>4, <1>5 DEF part

\* The entries of a batch that arrives.
LEMMA ArrivingQueue ==
    ASSUME NEW z, IsZSet(z)
    PROVE  /\ IsQueue(Arriving(z))
           /\ \A row : Queued(Arriving(z), row) = Weight(z, row)
<1> DEFINE D == DOMAIN z
           E(row) == <<EventTime(row), row, z[row]>>
           p == [row \in D |-> E(row)]
           bag == Arriving(z)
<1>1. bag = [e \in {p[row] : row \in D} |-> 1]
    BY DEF Arriving, SetToBag
<1>2. IsFiniteSet({p[row] : row \in D})
  <2>1. IsFiniteSet(D)
    BY DEF IsZSet
  <2> HIDE DEF p, D
  <2> QED
    BY <2>1, ImageIsFinite
<1>3. ASSUME NEW row \in D
      PROVE  p[row][1] = EventTime(row) /\ p[row][2] = row /\ p[row][3] = z[row] /\ z[row] \in Int
    BY DEF IsZSet, Canonical
<1> HIDE DEF p, bag
<1>4. IsQueue(bag)
    BY <1>1, <1>2, <1>3 DEF IsQueue
<1>5. ASSUME NEW row PROVE Queued(bag, row) = Weight(z, row)
  <2>1. Entries(bag, row) = {e \in DOMAIN bag : e[2] = row}
    BY <1>4, QueueTypes
  <2>2. CASE row \in D
    <3>1. Entries(bag, row) = {p[row]}
        BY <1>1, <1>3, <2>1, <2>2
    <3>2. Amounts(bag)[p[row]] = z[row] * 1
        BY <1>1, <1>3, <2>2 DEF Amounts
    <3>3. Amounts(bag)[p[row]] = z[row] /\ z[row] \in Int
        BY <1>3, <2>2, <3>2
    <3>4. SumOver(Amounts(bag), {p[row]}) = Amounts(bag)[p[row]]
        BY <3>3, SumOfOne
    <3> QED
        BY <2>2, <3>1, <3>3, <3>4 DEF Queued, Weight
  <2>3. CASE row \notin D
    <3>1. Entries(bag, row) = {}
        BY <1>1, <1>3, <2>1, <2>3
    <3> QED
        BY <2>3, <3>1, SumEmpty DEF Queued, Weight
  <2> QED
    BY <2>2, <2>3
<1> QED
    BY <1>4, <1>5 DEF bag

\* What is not due stays.
LEMMA DueLeaves ==
    ASSUME NEW bag, IsQueue(bag), NEW cutoff
    PROVE  bag (-) Due(bag, cutoff) =
            Restrict(bag, {e \in DOMAIN bag : ~(e[1] + WindowSize <= cutoff)})
<1> DEFINE T == {e \in DOMAIN bag : e[1] + WindowSize <= cutoff}
           due == Due(bag, cutoff)
           left == [e \in DOMAIN bag |-> IF e \in DOMAIN due THEN bag[e] - due[e] ELSE bag[e]]
           kept == {e \in DOMAIN left : left[e] > 0}
<1>1. DOMAIN due = T /\ \A e \in T : due[e] = bag[e]
    BY DEF Due, Restrict
<1>2. bag (-) due = [e \in kept |-> left[e]]
    BY DEF (-)
<1> HIDE DEF due
<1>3. \A e \in DOMAIN bag : bag[e] \in Nat \ {0}
    BY DEF IsQueue
<1>4. \A e \in DOMAIN bag : left[e] = IF e \in T THEN 0 ELSE bag[e]
    BY <1>1, <1>3
<1>5. kept = {e \in DOMAIN bag : ~(e[1] + WindowSize <= cutoff)}
    BY <1>3, <1>4
<1>6. \A e \in kept : left[e] = bag[e]
    BY <1>4, <1>5
<1> HIDE DEF kept, left
<1>7. [e \in kept |-> left[e]] = Restrict(bag, kept)
    BY <1>6 DEF Restrict
<1> QED
    BY <1>2, <1>5, <1>7 DEF due

-----------------------------------------------------------------------------
(***************************************************************************)
(* The rows whose window has closed.                                       *)
(***************************************************************************)
IsOver(row, mark) == EventTime(row) + WindowSize <= mark

ClosedOf(given, mark) == Restrict(given, {row \in DOMAIN given : IsOver(row, mark)})

LEMMA ClosedWeights ==
    ASSUME NEW given, IsZSet(given), NEW mark
    PROVE  /\ IsZSet(ClosedOf(given, mark))
           /\ \A row : Weight(ClosedOf(given, mark), row) =
                            IF IsOver(row, mark) THEN Weight(given, row) ELSE 0
<1> DEFINE S == {row \in DOMAIN given : IsOver(row, mark)}
           z == ClosedOf(given, mark)
<1>1. /\ z = [row \in S |-> z[row]] /\ DOMAIN z = S
      /\ \A row \in S : z[row] = given[row]
    BY DEF ClosedOf, Restrict
<1>2. IsFiniteSet(S)
    BY FS_Subset DEF IsZSet
<1>3. \A row \in DOMAIN given : given[row] \in Int \ {0}
    BY DEF IsZSet, Canonical
<1> HIDE DEF z
<1>4. IsZSet(z)
    BY <1>1, <1>2, <1>3 DEF IsZSet, Canonical
<1>5. ASSUME NEW row
      PROVE  Weight(z, row) = IF IsOver(row, mark) THEN Weight(given, row) ELSE 0
    BY <1>1 DEF Weight
<1> QED
    BY <1>4, <1>5 DEF z

\* The number of rows of a group.
Grouping(z) == [row \in DOMAIN z |-> Group(row)]
CountOf(g, z) == SumOver(z, Standing(Grouping(z), DOMAIN z, g))

LEMMA CountAdds ==
    ASSUME NEW z, IsZSet(z), NEW d, IsZSet(d), NEW g
    PROVE  /\ CountOf(g, Merge(z, d)) = CountOf(g, z) + CountOf(g, d)
           /\ CountOf(g, z) \in Int /\ CountOf(g, d) \in Int
<1> DEFINE U == DOMAIN z \cup DOMAIN d
           P == {row \in U : Group(row) = g}
           m == Merge(z, d)
<1>1. ASSUME NEW y, DOMAIN y \subseteq U
      PROVE  Standing(Grouping(y), DOMAIN y, g) = Among(y, P)
  <2>1. \A row \in DOMAIN y : Grouping(y)[row] = g <=> row \in P
    BY <1>1 DEF Grouping
  <2> HIDE DEF P
  <2> QED
    BY <2>1 DEF Standing, Among
<1>2. DOMAIN z \subseteq U /\ DOMAIN d \subseteq U /\ DOMAIN m \subseteq U
    BY MergeAdds
<1> HIDE DEF P, U, m
<1>3. /\ CountOf(g, z) = SumOver(z, Among(z, P))
      /\ CountOf(g, d) = SumOver(d, Among(d, P))
      /\ CountOf(g, m) = SumOver(m, Among(m, P))
    BY <1>1, <1>2 DEF CountOf
<1>4. /\ SumOver(m, Among(m, P)) = SumOver(z, Among(z, P)) + SumOver(d, Among(d, P))
      /\ SumOver(z, Among(z, P)) \in Int /\ SumOver(d, Among(d, P)) \in Int
    BY MergedSum DEF m
<1> QED
    BY <1>3, <1>4 DEF m

LEMMA CountOfNothing == \A g : CountOf(g, Empty) = 0
<1> SUFFICES ASSUME NEW g PROVE CountOf(g, Empty) = 0
    OBVIOUS
<1>1. Standing(Grouping(Empty), DOMAIN Empty, g) = {}
    BY EmptyIsZSet DEF Standing
<1> QED
    BY <1>1, SumEmpty DEF CountOf

\* The inner aggregate, given a delta.
LEMMA CountsMove ==
    ASSUME NEW result, IsGroups(result), NEW delta, IsZSet(delta)
    PROVE  LET next == ApplyAggregate(result, delta, SetToSeq(DOMAIN delta),
                                      [row \in DOMAIN delta |-> Group(row)],
                                      [row \in DOMAIN delta |-> 1])
           IN  /\ IsGroups(next.result) /\ IsZSet(next.out)
               /\ \A g : Weight(next.result, g) = Weight(result, g) + CountOf(g, delta)
               /\ \A g, v : Weight(next.out, OutputRow(g, v)) =
                                Shown(Weight(next.result, g), v)
                                  - Shown(Weight(result, g), v)
               /\ \A row \in DOMAIN next.out : \E g, v : row = OutputRow(g, v)
<1> DEFINE order == SetToSeq(DOMAIN delta)
           key == Grouping(delta)
           agg == [row \in DOMAIN delta |-> 1]
           next == ApplyAggregate(result, delta, order, key, agg)
<1>1. Arranges(order, DOMAIN delta)
    BY SetToSeqArranges DEF IsZSet
<1>2. \A row \in DOMAIN delta : agg[row] \in Int /\ agg[row] = 1
    OBVIOUS
<1>3. \A row \in DOMAIN delta : Weighted(agg, delta)[row] = delta[row]
    BY DEF Weighted, IsZSet, Canonical
<1> HIDE DEF order, key, agg
<1>4. /\ IsGroups(next.result) /\ IsZSet(next.out)
      /\ \A g : Weight(next.result, g) =
                    Weight(result, g)
                        + SumOver(Weighted(agg, delta), Standing(key, DOMAIN delta, g))
      /\ \A g, v : Weight(next.out, OutputRow(g, v)) =
                        Shown(Weight(next.result, g), v) - Shown(Weight(result, g), v)
      /\ \A row \in DOMAIN next.out : \E g, v : row = OutputRow(g, v)
    BY <1>1, <1>2, AggregateIsChange
<1>5. ASSUME NEW g
      PROVE  SumOver(Weighted(agg, delta), Standing(key, DOMAIN delta, g)) = CountOf(g, delta)
  <2> DEFINE S == Standing(key, DOMAIN delta, g)
  <2>1. S \subseteq DOMAIN delta /\ IsFiniteSet(S)
    BY FS_Subset DEF Standing, IsZSet
  <2> HIDE DEF S
  <2>2. \A row \in S : Weighted(agg, delta)[row] = delta[row]
    BY <1>3, <2>1
  <2>3. SumOver(Weighted(agg, delta), S) = SumOver(delta, S)
    BY <2>1, <2>2, SumSame
  <2> QED
    BY <2>3 DEF CountOf, S, key
<1> HIDE DEF next
<1>6. \A g : Weight(next.result, g) = Weight(result, g) + CountOf(g, delta)
    BY <1>4, <1>5
<1> QED
    BY <1>4, <1>6 DEF next, order, key, agg, Grouping

-----------------------------------------------------------------------------
(***************************************************************************)
(* The inductive invariant: what waits is what was given, of the rows      *)
(* whose window is open; the aggregate is that of the others.              *)
(***************************************************************************)
Waits(bag, given, mark) ==
    /\ IsQueue(bag) /\ IsZSet(given) /\ mark \in Int
    /\ \A e \in DOMAIN bag : ~IsOver(e[2], mark)
    /\ \A row : ~IsOver(row, mark) => Queued(bag, row) = Weight(given, row)

LEMMA NothingOverWaits ==
    ASSUME NEW bag, NEW given, NEW mark, Waits(bag, given, mark)
    PROVE  \A row : IsOver(row, mark) => Queued(bag, row) = 0
<1> SUFFICES ASSUME NEW row, IsOver(row, mark) PROVE Queued(bag, row) = 0
    OBVIOUS
<1>1. Entries(bag, row) = {e \in DOMAIN bag : e[2] = row}
    BY QueueTypes DEF Waits
<1>2. Entries(bag, row) = {}
    BY <1>1 DEF Waits
<1> QED
    BY <1>2, SumEmpty DEF Queued

LEMMA TimesAreIntegers == \A row : EventTime(row) \in Int
    BY DEF EventTime, GetInt

\* What a batch makes of the queue, whenever its watermark is.
LEMMA QueueMoves ==
    ASSUME NEW bag, NEW given, NEW mark, Waits(bag, given, mark),
           NEW more, IsZSet(more), NEW cut \in Int, mark <= cut
    PROVE  LET arrived == bag (+) Arriving(more)
               due == Due(arrived, cut)
               now == Merge(given, more)
           IN  /\ Waits(arrived (-) due, now, cut)
               /\ IsZSet(FlushDelta(due))
               /\ ClosedOf(now, cut) = Merge(ClosedOf(given, mark), FlushDelta(due))
<1> DEFINE arrived == bag (+) Arriving(more)
           due == Due(arrived, cut)
           now == Merge(given, more)
           T == {e \in DOMAIN arrived : e[1] + WindowSize <= cut}
           L == {e \in DOMAIN arrived : ~(e[1] + WindowSize <= cut)}
           left == arrived (-) due
           flush == FlushDelta(due)
<1>1. /\ IsQueue(bag) /\ IsZSet(given) /\ mark \in Int
      /\ \A row : ~IsOver(row, mark) => Queued(bag, row) = Weight(given, row)
      /\ \A row : IsOver(row, mark) => Queued(bag, row) = 0
    BY NothingOverWaits DEF Waits
<1>2. IsQueue(Arriving(more)) /\ \A row : Queued(Arriving(more), row) = Weight(more, row)
    BY ArrivingQueue
<1>3. /\ IsQueue(arrived)
      /\ \A row : Queued(arrived, row) = Queued(bag, row) + Weight(more, row)
    BY <1>1, <1>2, QueuesJoin
<1>4. IsZSet(now) /\ \A row : Weight(now, row) = Weight(given, row) + Weight(more, row)
    BY <1>1, MergeAdds
<1> HIDE DEF arrived, now
<1>5. due = Restrict(arrived, T) /\ left = Restrict(arrived, L)
    BY <1>3, DueLeaves DEF Due
<1>6. T \in SUBSET DOMAIN arrived /\ L \in SUBSET DOMAIN arrived
    OBVIOUS
<1>7. \A e \in DOMAIN arrived :
        /\ e \in T <=> IsOver(e[2], cut)
        /\ e \in L <=> ~IsOver(e[2], cut)
    BY <1>3 DEF IsOver, IsQueue
<1> HIDE DEF due, left, T, L
<1>8. /\ IsQueue(due)
      /\ \A row : IsOver(row, cut) => Queued(due, row) = Queued(arrived, row)
      /\ \A row : ~IsOver(row, cut) => Queued(due, row) = 0
  <2>1. /\ IsQueue(Restrict(arrived, T))
        /\ \A row :
            /\ (\A e \in DOMAIN arrived : e[2] = row => e \in T) =>
                    Queued(Restrict(arrived, T), row) = Queued(arrived, row)
            /\ (\A e \in T : e[2] # row) => Queued(Restrict(arrived, T), row) = 0
    BY <1>3, <1>6, QueuePart
  <2>2. ASSUME NEW row, IsOver(row, cut) PROVE Queued(due, row) = Queued(arrived, row)
    <3>1. \A e \in DOMAIN arrived : e[2] = row => e \in T
        BY <1>7, <2>2
    <3> QED
        BY <1>5, <2>1, <3>1
  <2>3. ASSUME NEW row, ~IsOver(row, cut) PROVE Queued(due, row) = 0
    <3>1. \A e \in T : e[2] # row
        BY <1>6, <1>7, <2>3
    <3> QED
        BY <1>5, <2>1, <3>1
  <2> QED
    BY <1>5, <2>1, <2>2, <2>3
<1>9. /\ IsQueue(left) /\ DOMAIN left = L
      /\ \A row : ~IsOver(row, cut) => Queued(left, row) = Queued(arrived, row)
  <2>1. /\ IsQueue(Restrict(arrived, L)) /\ DOMAIN Restrict(arrived, L) = L
        /\ \A row : (\A e \in DOMAIN arrived : e[2] = row => e \in L) =>
                        Queued(Restrict(arrived, L), row) = Queued(arrived, row)
    BY <1>3, <1>6, QueuePart
  <2>2. ASSUME NEW row, ~IsOver(row, cut) PROVE Queued(left, row) = Queued(arrived, row)
    <3>1. \A e \in DOMAIN arrived : e[2] = row => e \in L
        BY <1>7, <2>2
    <3> QED
        BY <1>5, <2>1, <3>1
  <2> QED
    BY <1>5, <2>1, <2>2
<1>10. \A row : IsOver(row, mark) => IsOver(row, cut)
  <2> SUFFICES ASSUME NEW row, EventTime(row) + WindowSize <= mark
               PROVE  EventTime(row) + WindowSize <= cut
    BY DEF IsOver
  <2>1. EventTime(row) + WindowSize \in Int
    BY TimesAreIntegers, WindowAssumption
  <2> HIDE DEF EventTime
  <2> QED
    BY <1>1, <2>1
<1>11. Waits(left, now, cut)
  <2>1. \A e \in DOMAIN left : ~IsOver(e[2], cut)
    BY <1>6, <1>7, <1>9
  <2>2. ASSUME NEW row, ~IsOver(row, cut) PROVE Queued(left, row) = Weight(now, row)
    BY <1>1, <1>3, <1>4, <1>9, <1>10, <2>2
  <2> QED
    BY <1>4, <1>9, <2>1, <2>2 DEF Waits
<1>12. IsZSet(flush) /\ \A row : Weight(flush, row) = Queued(due, row)
    BY <1>8, FlushAdds
<1> HIDE DEF flush
<1>13. ClosedOf(now, cut) = Merge(ClosedOf(given, mark), flush)
  <2> DEFINE before == ClosedOf(given, mark)
             after == ClosedOf(now, cut)
  <2>1. /\ IsZSet(before)
        /\ \A row : Weight(before, row) = IF IsOver(row, mark) THEN Weight(given, row) ELSE 0
    BY <1>1, ClosedWeights
  <2>2. /\ IsZSet(after)
        /\ \A row : Weight(after, row) = IF IsOver(row, cut) THEN Weight(now, row) ELSE 0
    BY <1>4, ClosedWeights
  <2> HIDE DEF before, after
  <2>3. /\ IsZSet(Merge(before, flush))
        /\ \A row : Weight(Merge(before, flush), row) = Weight(before, row) + Weight(flush, row)
    BY <1>12, <2>1, MergeAdds
  <2>4. ASSUME NEW row PROVE Weight(after, row) = Weight(Merge(before, flush), row)
    <3>1. Weight(given, row) \in Int /\ Weight(more, row) \in Int
        BY <1>1, WeightType
    <3>2. CASE IsOver(row, mark)
      <4>1. /\ Weight(after, row) = Weight(given, row) + Weight(more, row)
            /\ Weight(before, row) = Weight(given, row)
            /\ Weight(flush, row) = 0 + Weight(more, row)
          BY <1>1, <1>3, <1>4, <1>8, <1>10, <1>12, <2>1, <2>2, <3>2
      <4> QED
          BY <2>3, <3>1, <4>1
    <3>3. CASE ~IsOver(row, mark) /\ IsOver(row, cut)
      <4>1. /\ Weight(after, row) = Weight(given, row) + Weight(more, row)
            /\ Weight(before, row) = 0
            /\ Weight(flush, row) = Weight(given, row) + Weight(more, row)
          BY <1>1, <1>3, <1>4, <1>8, <1>12, <2>1, <2>2, <3>3
      <4> QED
          BY <2>3, <3>1, <4>1
    <3>4. CASE ~IsOver(row, cut)
      <4>1. Weight(after, row) = 0 /\ Weight(before, row) = 0 /\ Weight(flush, row) = 0
          BY <1>8, <1>10, <1>12, <2>1, <2>2, <3>4
      <4> QED
          BY <2>3, <4>1
    <3> QED
        BY <3>2, <3>3, <3>4
  <2> QED
    BY <2>2, <2>3, <2>4, SameWeights DEF before, after
<1> QED
    BY <1>11, <1>12, <1>13 DEF left, flush, due, now, arrived

WindowInv ==
    /\ IsZSet(copy) /\ IsZSet(other)
    /\ Waits(pending, Merge(copy, other), watermark_ms)
    /\ IsGroups(totals) /\ IsZSet(view)
    /\ \A g : Weight(totals, g) = CountOf(g, Closed)
    /\ \A g, v : Weight(view, OutputRow(g, v)) = Shown(CountOf(g, Closed), v)
    /\ \A row \in DOMAIN view : \E g, v : row = OutputRow(g, v)

LEMMA ClosedIsClosedOf == Closed = ClosedOf(Merge(copy, other), watermark_ms)
    BY DEF Closed, ClosedOf, IsOver

LEMMA EmptyIsQueue ==
    IsQueue(EmptyBag) /\ DOMAIN EmptyBag = {} /\ \A row : Queued(EmptyBag, row) = 0
<1>1. DOMAIN EmptyBag = {} /\ EmptyBag = [e \in DOMAIN EmptyBag |-> EmptyBag[e]]
    BY DEF EmptyBag, SetToBag
<1>2. IsQueue(EmptyBag)
    BY <1>1, FS_EmptySet DEF IsQueue
<1>3. ASSUME NEW row PROVE Queued(EmptyBag, row) = 0
  <2>1. Entries(EmptyBag, row) = {e \in DOMAIN EmptyBag : e[2] = row}
    BY <1>2, QueueTypes
  <2>2. Entries(EmptyBag, row) = {}
    BY <1>1, <2>1
  <2> QED
    BY <2>2, SumEmpty DEF Queued
<1> QED
    BY <1>1, <1>2, <1>3

LEMMA WindowInit == WindowedInit => WindowInv
<1> SUFFICES ASSUME WindowedInit PROVE WindowInv
    OBVIOUS
<1>1. /\ copy = Empty /\ other = Empty /\ pending = EmptyBag /\ watermark_ms = 0
      /\ totals = Empty /\ view = Empty
    BY DEF WindowedInit, FeedInit, NoGroups
<1>2. IsZSet(Merge(copy, other)) /\ \A row : Weight(Merge(copy, other), row) = 0
  <2>1. /\ IsZSet(Merge(Empty, Empty))
        /\ \A row : Weight(Merge(Empty, Empty), row) = Weight(Empty, row) + Weight(Empty, row)
    BY EmptyIsZSet, MergeAdds
  <2> QED
    BY <1>1, <2>1, EmptyIsZSet
<1>3. Waits(pending, Merge(copy, other), watermark_ms)
    BY <1>1, <1>2, EmptyIsQueue DEF Waits
<1>4. Closed = Empty
  <2>1. /\ IsZSet(Closed)
        /\ \A row : Weight(Closed, row) = 0
    BY <1>2, ClosedIsClosedOf, ClosedWeights
  <2> QED
    BY <2>1, EmptyIsZSet, SameWeights
<1>5. IsGroups(Empty)
    BY DEF IsGroups, Empty
<1> QED
    BY <1>1, <1>3, <1>4, <1>5, CountOfNothing, EmptyIsZSet DEF WindowInv, Shown

\* The watermark never goes back.
LEMMA WatermarkMoves ==
    ASSUME TimeInv, NEW n \in PollSizes, NEW batch, batch.watermark = BatchWatermark(n)
    PROVE  Cutoff(batch) \in Int /\ watermark_ms <= Cutoff(batch)
<1>1. /\ MaxEventTime(n) \in Nat /\ watermark_ms \in Nat /\ AllowedLateness \in Nat
    BY EventTimes, FeedAssumption DEF TimeInv, StreamType
<1>2. \/ Cutoff(batch) = watermark_ms
      \/ Cutoff(batch) = MaxOf(watermark_ms, MaxOf(0, MaxEventTime(n) - AllowedLateness))
    BY DEF Cutoff, BatchWatermark
<1> QED
    BY <1>1, <1>2 DEF MaxOf

LEMMA OtherDeltasAreZSets ==
    ASSUME IsZSet(other), NEW otherDelta \in OtherDeltas
    PROVE  IsZSet(otherDelta)
<1>1. CASE otherDelta = Empty
    BY <1>1, EmptyIsZSet
<1>2. ASSUME NEW row, otherDelta = [r \in {row} |-> 1 - 2 * Weight(other, row)]
      PROVE  IsZSet(otherDelta)
  <2> DEFINE w == Weight(other, row)
  <2>1. w \in Int
    BY WeightType
  <2> HIDE DEF w
  <2>2. 1 - 2 * w \in Int \ {0}
    BY <2>1
  <2>3. otherDelta = [r \in {row} |-> 1 - 2 * w]
    BY <1>2 DEF w
  <2>4. /\ DOMAIN otherDelta = {row} /\ otherDelta = [r \in {row} |-> otherDelta[r]]
        /\ \A r \in {row} : otherDelta[r] \in Int \ {0}
    BY <2>2, <2>3
  <2> QED
    BY <2>4, FS_Singleton DEF IsZSet, Canonical
<1> QED
    BY <1>1, <1>2 DEF OtherDeltas

LEMMA ApplyingKeepsWindows ==
    ASSUME TimeInv, WindowInv, NEW n \in PollSizes, NEW otherDelta \in OtherDeltas,
           PollAndApply(n, otherDelta)
    PROVE  WindowInv'
<1> DEFINE polled == DeltaOf(n)
           more == Merge(polled, otherDelta)
           batch == Union([delta |-> polled, watermark |-> BatchWatermark(n)],
                          [delta |-> otherDelta, watermark |-> None])
           cut == Cutoff(batch)
           given == Merge(copy, other)
           arrived == pending (+) Arriving(more)
           due == Due(arrived, cut)
           flush == FlushDelta(due)
           next == ApplyAggregate(totals, flush, SetToSeq(DOMAIN flush),
                                  [row \in DOMAIN flush |-> Group(row)],
                                  [row \in DOMAIN flush |-> 1])
<1>1. IsZSet(polled) /\ IsZSet(otherDelta)
  <2>1. n \in Nat
    BY DEF PollSizes
  <2>2. IsZSet(otherDelta)
    BY OtherDeltasAreZSets DEF WindowInv
  <2> QED
    BY <2>1, <2>2, DeltaOfStream, DeltaIsZSet
<1>2. /\ batch.delta = more /\ batch.watermark = BatchWatermark(n)
    BY DEF Union
<1>3. /\ copy' = Merge(copy, polled) /\ other' = Merge(other, otherDelta)
    BY DEF PollAndApply, Poll
<1>4. /\ watermark_ms' = cut /\ pending' = arrived (-) due
      /\ totals' = next.result /\ view' = Merge(view, next.out)
    BY <1>2, Zenon DEF PollAndApply, ApplyWindow
<1>5. cut \in Int /\ watermark_ms <= cut
    BY <1>2, WatermarkMoves
<1> HIDE DEF polled, batch, cut
<1>6. /\ IsZSet(copy) /\ IsZSet(other) /\ Waits(pending, given, watermark_ms)
      /\ IsGroups(totals) /\ IsZSet(view)
      /\ \A g : Weight(totals, g) = CountOf(g, Closed)
      /\ \A g, v : Weight(view, OutputRow(g, v)) = Shown(CountOf(g, Closed), v)
      /\ \A row \in DOMAIN view : \E g, v : row = OutputRow(g, v)
    BY DEF WindowInv
<1>7. /\ IsZSet(copy') /\ IsZSet(other') /\ IsZSet(more) /\ IsZSet(given)
      /\ Merge(copy', other') = Merge(given, more)
  <2>1. /\ IsZSet(given) /\ IsZSet(more) /\ IsZSet(copy') /\ IsZSet(other')
        /\ \A r : Weight(given, r) = Weight(copy, r) + Weight(other, r)
        /\ \A r : Weight(more, r) = Weight(polled, r) + Weight(otherDelta, r)
        /\ \A r : Weight(copy', r) = Weight(copy, r) + Weight(polled, r)
        /\ \A r : Weight(other', r) = Weight(other, r) + Weight(otherDelta, r)
    BY <1>1, <1>3, <1>6, MergeAdds
  <2>2. \A r : /\ Weight(copy, r) \in Int /\ Weight(polled, r) \in Int
               /\ Weight(other, r) \in Int /\ Weight(otherDelta, r) \in Int
    BY <1>1, <1>6, WeightType
  <2> HIDE DEF given, more
  <2>3. /\ IsZSet(Merge(copy', other')) /\ IsZSet(Merge(given, more))
        /\ \A r : Weight(Merge(copy', other'), r) = Weight(copy', r) + Weight(other', r)
        /\ \A r : Weight(Merge(given, more), r) = Weight(given, r) + Weight(more, r)
    BY <2>1, MergeAdds
  <2>4. \A r : Weight(Merge(copy', other'), r) = Weight(Merge(given, more), r)
    BY <2>1, <2>2, <2>3
  <2> QED
    BY <2>1, <2>3, <2>4, SameWeights
<1> HIDE DEF given, more
<1>8. /\ Waits(arrived (-) due, Merge(given, more), cut)
      /\ IsZSet(flush)
      /\ ClosedOf(Merge(given, more), cut) = Merge(ClosedOf(given, watermark_ms), flush)
    BY <1>5, <1>6, <1>7, QueueMoves
<1> HIDE DEF arrived, due, flush
<1>9. Closed' = Merge(Closed, flush) /\ IsZSet(Closed)
  <2>1. Closed = ClosedOf(given, watermark_ms)
    BY ClosedIsClosedOf DEF given
  <2>2. Closed' = ClosedOf(Merge(copy', other'), watermark_ms')
    BY ClosedIsClosedOf DEF Closed, ClosedOf, IsOver
  <2> QED
    BY <1>4, <1>7, <1>8, <2>1, <2>2, ClosedWeights
<1>10. /\ IsGroups(next.result) /\ IsZSet(next.out)
       /\ \A g : Weight(next.result, g) = Weight(totals, g) + CountOf(g, flush)
       /\ \A g, v : Weight(next.out, OutputRow(g, v)) =
                        Shown(Weight(next.result, g), v) - Shown(Weight(totals, g), v)
       /\ \A row \in DOMAIN next.out : \E g, v : row = OutputRow(g, v)
    BY <1>6, <1>8, CountsMove
<1> HIDE DEF next
<1>11. \A g : CountOf(g, Closed') = CountOf(g, Closed) + CountOf(g, flush)
    BY <1>8, <1>9, CountAdds
<1>12. \A g : Weight(totals', g) = CountOf(g, Closed')
    BY <1>4, <1>6, <1>10, <1>11
<1>13. /\ IsZSet(view') /\ DOMAIN view' \subseteq DOMAIN view \cup DOMAIN next.out
       /\ \A r : Weight(view', r) = Weight(view, r) + Weight(next.out, r)
    BY <1>4, <1>6, <1>10, MergeAdds
<1>14. \A g, v : Weight(view', OutputRow(g, v)) = Shown(CountOf(g, Closed'), v)
  <2>1. \A u, v : Shown(u, v) \in {0, 1}
    BY DEF Shown
  <2> SUFFICES ASSUME NEW g, NEW v
               PROVE  Weight(view', OutputRow(g, v)) = Shown(CountOf(g, Closed'), v)
    OBVIOUS
  <2>2. Weight(view', OutputRow(g, v)) =
            Shown(CountOf(g, Closed), v)
                + (Shown(CountOf(g, Closed'), v) - Shown(CountOf(g, Closed), v))
    BY <1>4, <1>6, <1>10, <1>12, <1>13
  <2> QED
    BY <2>1, <2>2
<1>15. \A row \in DOMAIN view' : \E g, v : row = OutputRow(g, v)
    BY <1>6, <1>10, <1>13
<1>16. Waits(pending', Merge(copy', other'), watermark_ms')
    BY <1>4, <1>7, <1>8
<1>17. IsGroups(totals')
    BY <1>4, <1>10
<1>18. \A g : CountOf(g, Closed)' = CountOf(g, Closed')
    BY DEF CountOf, Grouping, Standing
<1> QED
    BY <1>7, <1>12, <1>13, <1>14, <1>15, <1>16, <1>17, <1>18 DEF WindowInv

LEMMA WindowNext ==
    TimeInv /\ WindowInv /\ [WindowedNext]_windowedVars => WindowInv'
<1> SUFFICES ASSUME TimeInv, WindowInv, [WindowedNext]_windowedVars PROVE WindowInv'
    OBVIOUS
<1>1. ASSUME UNCHANGED <<copy, windowVars>> PROVE WindowInv'
  <2>1. /\ copy' = copy /\ other' = other /\ pending' = pending
        /\ watermark_ms' = watermark_ms /\ totals' = totals /\ view' = view
    BY <1>1 DEF windowVars
  <2>2. Closed' = Closed
    BY <2>1 DEF Closed
  <2>3. \A g : CountOf(g, Closed)' = CountOf(g, Closed)
    BY <2>2 DEF CountOf, Grouping, Standing
  <2> QED
    BY <2>1, <2>3 DEF WindowInv
<1>2. CASE UNCHANGED windowedVars
    BY <1>1, <1>2 DEF windowedVars, feedVars
<1>3. CASE TableChanges /\ UNCHANGED windowVars
    BY <1>1, <1>3 DEF TableChanges, Change, NoiseArrives
<1>4. ASSUME NEW n \in PollSizes, NEW otherDelta \in OtherDeltas,
             PollAndApply(n, otherDelta)
      PROVE  WindowInv'
    BY <1>4, ApplyingKeepsWindows
<1> QED
    BY <1>2, <1>3, <1>4 DEF WindowedNext

LEMMA WindowedInvariant == WindowedSpec => [](TimeInv /\ WindowInv)
    BY TimeInit, TimeNext, WindowInit, WindowNext, PTL DEF WindowedSpec

\* What waits in WindowedAggregateState (crates/operators/src/aggregate.rs) is
\* exactly what was given of the rows of open windows, whatever the batches,
\* their watermarks and the order of the changes: no entry whose window has
\* closed is left behind, and none is lost.
THEOREM PendingStaysOpen == WindowedSpec => []PendingIsOpen
<1>1. ASSUME WindowInv PROVE PendingIsOpen
  <2> DEFINE given == Merge(copy, other)
             flush == FlushDelta(pending)
  <2>1. /\ IsQueue(pending) /\ IsZSet(given) /\ watermark_ms \in Int
        /\ \A e \in DOMAIN pending : ~IsOver(e[2], watermark_ms)
        /\ \A row : ~IsOver(row, watermark_ms) => Queued(pending, row) = Weight(given, row)
        /\ \A row : IsOver(row, watermark_ms) => Queued(pending, row) = 0
    BY <1>1, NothingOverWaits DEF WindowInv, Waits
  <2>2. ASSUME NEW e \in DOMAIN pending PROVE e[1] + WindowSize > watermark_ms
    <3>1. /\ e[1] = EventTime(e[2]) /\ EventTime(e[2]) \in Int
          /\ ~(EventTime(e[2]) + WindowSize <= watermark_ms)
        BY <2>1, TimesAreIntegers DEF IsQueue, IsOver
    <3> HIDE DEF EventTime
    <3> QED
        BY <2>1, <3>1, WindowAssumption
  <2>3. /\ IsZSet(flush) /\ \A row : Weight(flush, row) = Queued(pending, row)
    BY <2>1, FlushAdds
  <2>4. /\ IsZSet(Closed)
        /\ \A row : Weight(Closed, row) =
                        IF IsOver(row, watermark_ms) THEN Weight(given, row) ELSE 0
    BY <2>1, ClosedIsClosedOf, ClosedWeights
  <2> HIDE DEF given, flush
  <2>5. /\ IsZSet(Merge(flush, Closed))
        /\ \A row : Weight(Merge(flush, Closed), row) = Weight(flush, row) + Weight(Closed, row)
    BY <2>3, <2>4, MergeAdds
  <2>6. \A row : Weight(given, row) \in Int
    BY <2>1, WeightType
  <2>7. \A row : Weight(Merge(flush, Closed), row) = Weight(given, row)
    BY <2>1, <2>3, <2>4, <2>5, <2>6
  <2>8. Merge(flush, Closed) = given
    BY <2>1, <2>5, <2>7, SameWeights
  <2> QED
    BY <2>2, <2>8 DEF PendingIsOpen, given, flush
<1> QED
    BY <1>1, WindowedInvariant, PTL

\* The windowed aggregate outputs, for every group with rows whose window has
\* closed, their number, and nothing else: late rows and retractions included,
\* however the polls cut the stream and whatever the second input of the union
\* adds and takes away.
THEOREM WindowedViewMaintained == WindowedSpec => []WindowedViewExact
<1>1. ASSUME WindowInv PROVE WindowedViewExact
  <2> DEFINE groups == {g \in {Group(r) : r \in DOMAIN Closed} : Count(g) # 0}
             rows == {OutputRow(g, Count(g)) : g \in groups}
  <2>1. /\ IsZSet(view) /\ IsZSet(Closed)
        /\ \A g, v : Weight(view, OutputRow(g, v)) = Shown(CountOf(g, Closed), v)
        /\ \A row \in DOMAIN view : \E g, v : row = OutputRow(g, v)
    BY <1>1, ClosedIsClosedOf, ClosedWeights DEF WindowInv, Waits
  <2>2. ASSUME NEW g
        PROVE  /\ Count(g) = CountOf(g, Closed)
               /\ Count(g) # 0 => g \in groups
    <3> DEFINE S == {row \in DOMAIN Closed : Group(row) = g}
    <3>1. Standing(Grouping(Closed), DOMAIN Closed, g) = S
        BY DEF Standing, Grouping
    <3>2. Count(g) = SumOver(Closed, S)
        BY DEF Count
    <3>3. S = {} => SumOver(Closed, S) = 0
        BY SumEmpty
    <3>4. S # {} => g \in {Group(r) : r \in DOMAIN Closed}
        OBVIOUS
    <3> HIDE DEF S
    <3> QED
        BY <3>1, <3>2, <3>3, <3>4 DEF CountOf
  <2>3. \A g \in groups : Count(g) # 0
    OBVIOUS
  <2> HIDE DEF groups
  <2>4. \A g, v : /\ OutputRow(g, v) \in DOMAIN view <=> v = Count(g) /\ v # 0
                  /\ OutputRow(g, v) \in DOMAIN view => view[OutputRow(g, v)] = 1
    BY <2>1, <2>2, WeightType DEF Shown, Weight
  <2>5. DOMAIN view = rows
    BY <2>1, <2>2, <2>3, <2>4
  <2>6. \A row \in DOMAIN view : view[row] = 1
    BY <2>1, <2>4
  <2>7. view = [row \in DOMAIN view |-> view[row]]
    BY <2>1 DEF IsZSet
  <2> HIDE DEF rows
  <2>8. view = [row \in rows |-> 1]
    BY <2>5, <2>6, <2>7
  <2> QED
    BY <2>8 DEF WindowedViewExact, rows, groups
<1> QED
    BY <1>1, WindowedInvariant, PTL

-----------------------------------------------------------------------------
(***************************************************************************)
(* The copy of the table.  What a stream adds to a row's weight depends on *)
(* its messages alone: on those before the cut, and on each one's gain.    *)
(***************************************************************************)
StartAlike(s, t, n) == \A i \in 1..n : s[i] = t[i]

LEMMA DeltaOfPrefix ==
    ASSUME NEW format, NEW s, NEW t, NEW n \in Nat, StartAlike(s, t, n)
    PROVE  \A i \in 0..n : DeltaAs(format, s, i) = DeltaAs(format, t, i)
<1> DEFINE Good == {i \in 0..n : DeltaAs(format, s, i) = DeltaAs(format, t, i)}
<1>1. 0 \in Good
    BY DeltaSteps
<1>2. ASSUME NEW i \in 1..n, i - 1 \in Good PROVE i \in Good
  <2>0. i \in Nat \ {0} /\ i - 1 \in 0..n
    OBVIOUS
  <2>1. DeltaAs(format, s, i) = ApplyAs(format, DeltaAs(format, s, i - 1), s[i])
    BY <2>0, DeltaSteps
  <2>2. DeltaAs(format, t, i) = ApplyAs(format, DeltaAs(format, t, i - 1), t[i])
    BY <2>0, DeltaSteps
  <2> QED
    BY <1>2, <2>1, <2>2 DEF StartAlike
<1>3. \A i \in 0..n : i \in Good
  <2> HIDE DEF Good
  <2> QED
    BY <1>1, <1>2, Upwards
<1> QED
    BY <1>3

LEMMA GainsAdd ==
    ASSUME NEW format, NEW s, NEW n \in Nat \ {0}
    PROVE  \A row : /\ Weight(DeltaAs(format, s, n), row) =
                            Weight(DeltaAs(format, s, n - 1), row) + Gain(format, s[n], row)
                    /\ Weight(DeltaAs(format, s, n - 1), row) \in Int
                    /\ Weight(DeltaAs(format, s, n), row) \in Int
<1>1. DeltaAs(format, s, n) = ApplyAs(format, DeltaAs(format, s, n - 1), s[n])
    BY DeltaSteps
<1>2. n - 1 \in Nat /\ n \in Nat
    OBVIOUS
<1>3. IsZSet(DeltaAs(format, s, n - 1)) /\ IsZSet(DeltaAs(format, s, n))
    BY <1>2, DeltaIsZSet
<1>4. \A row : Weight(ApplyAs(format, DeltaAs(format, s, n - 1), s[n]), row) =
                    Weight(DeltaAs(format, s, n - 1), row) + Gain(format, s[n], row)
    BY <1>3, MessageGains
<1> QED
    BY <1>1, <1>3, <1>4, WeightType

EndAlike(s, t, n, m) == \A i \in 1..m : t[i] = s[n + i]

LEMMA DeltaOfSuffix ==
    ASSUME NEW format, NEW s, NEW t, NEW n \in Nat, NEW m \in Nat, EndAlike(s, t, n, m)
    PROVE  \A i \in 0..m : \A row :
            Weight(DeltaAs(format, s, n + i), row) =
                Weight(DeltaAs(format, s, n), row) + Weight(DeltaAs(format, t, i), row)
<1> SUFFICES ASSUME NEW row
             PROVE  \A i \in 0..m :
                        Weight(DeltaAs(format, s, n + i), row) =
                            Weight(DeltaAs(format, s, n), row)
                                + Weight(DeltaAs(format, t, i), row)
    OBVIOUS
<1> DEFINE S(i) == Weight(DeltaAs(format, s, n + i), row)
           T(i) == Weight(DeltaAs(format, t, i), row)
           first == Weight(DeltaAs(format, s, n), row)
           Good == {i \in 0..m : S(i) = first + T(i)}
<1>0. first \in Int
    BY DeltaIsZSet, WeightType
<1>1. 0 \in Good
  <2>1. T(0) = 0
    BY DeltaSteps, EmptyIsZSet
  <2>2. n + 0 = n
    OBVIOUS
  <2>3. S(0) = first
    BY <2>2
  <2> HIDE DEF S, T, first
  <2> QED
    BY <1>0, <2>1, <2>3
<1>2. ASSUME NEW i \in 1..m, i - 1 \in Good PROVE i \in Good
  <2>1. n + i \in Nat \ {0} /\ i \in Nat \ {0} /\ (n + i) - 1 = n + (i - 1)
    OBVIOUS
  <2>2. /\ Weight(DeltaAs(format, s, n + i), row) =
                Weight(DeltaAs(format, s, (n + i) - 1), row) + Gain(format, s[n + i], row)
        /\ Weight(DeltaAs(format, s, (n + i) - 1), row) \in Int
        /\ Weight(DeltaAs(format, s, n + i), row) \in Int
    BY <2>1, GainsAdd
  <2>3. /\ T(i) = T(i - 1) + Gain(format, t[i], row)
        /\ T(i - 1) \in Int /\ T(i) \in Int
    BY <2>1, GainsAdd
  <2>4. /\ S(i) = S(i - 1) + Gain(format, t[i], row)
        /\ S(i - 1) \in Int
    BY <2>1, <2>2 DEF EndAlike
  <2>5. S(i - 1) = first + T(i - 1)
    BY <1>2
  <2>6. Gain(format, t[i], row) \in Int
    BY DEF Gain, CdcGain, WalGain, EventGain, Same
  <2> HIDE DEF S, T, first
  <2>7. S(i) = first + T(i)
    BY <1>0, <2>3, <2>4, <2>5, <2>6
  <2> QED
    BY <2>7
<1>3. \A i \in 0..m : i \in Good
  <2> HIDE DEF Good
  <2> QED
    BY <1>1, <1>2, Upwards
<1> QED
    BY <1>3

-----------------------------------------------------------------------------
(***************************************************************************)
(* Rows of the table, and the message in which a change of them arrives.   *)
(***************************************************************************)
Typed(row) == [c \in DOMAIN row |-> JsonTyped(row[c])]

\* pgoutput's parser knows the columns by their numbers only.
Numbers == 0..(Len(Columns) - 1)
Numbered(row) ==
    [c \in {ColumnName(i) : i \in Numbers} |->
        row[Columns[1 + CHOOSE i \in Numbers : ColumnName(i) = c]]]

\* The row as it should arrive (Arrived, with the format as a parameter).
ArrivedAs(format, row) == IF format = "pgoutput" THEN Numbered(row) ELSE Typed(row)

NumberOf(format, t, row) == Cardinality({r \in t : ArrivedAs(format, r) = row})

LEMMA RowComes ==
    ASSUME NEW format, NEW t, IsFiniteSet(t), NEW new, new \notin t
    PROVE  /\ IsFiniteSet(t \cup {new})
           /\ \A row : /\ NumberOf(format, t \cup {new}, row) =
                              NumberOf(format, t, row) + Same(row, ArrivedAs(format, new))
                       /\ NumberOf(format, t, row) \in Int
<1>1. IsFiniteSet(t \cup {new})
    BY FS_AddElement
<1>2. ASSUME NEW row
      PROVE  /\ NumberOf(format, t \cup {new}, row) =
                    NumberOf(format, t, row) + Same(row, ArrivedAs(format, new))
             /\ NumberOf(format, t, row) \in Int
  <2> DEFINE A == {r \in t : ArrivedAs(format, r) = row}
             B == {r \in t \cup {new} : ArrivedAs(format, r) = row}
  <2>0. /\ NumberOf(format, t, row) = Cardinality(A)
        /\ NumberOf(format, t \cup {new}, row) = Cardinality(B)
    BY DEF NumberOf
  <2>1. IsFiniteSet(A) /\ new \notin A
    BY FS_Subset
  <2>2. Cardinality(A) \in Int
    BY <2>1, FS_CardinalityType
  <2>3. CASE ArrivedAs(format, new) = row
    <3>1. B = A \cup {new} /\ Same(row, ArrivedAs(format, new)) = 1
        BY <2>3 DEF Same
    <3> HIDE DEF A, B
    <3>2. Cardinality(B) = Cardinality(A) + 1
        BY <2>1, <3>1, FS_AddElement
    <3> QED
        BY <2>0, <2>2, <3>1, <3>2
  <2>4. CASE ArrivedAs(format, new) # row
    <3>1. B = A /\ Same(row, ArrivedAs(format, new)) = 0
        BY <2>4 DEF Same
    <3> HIDE DEF A, B
    <3> QED
        BY <2>0, <2>2, <3>1
  <2> QED
    BY <2>3, <2>4
<1> QED
    BY <1>1, <1>2

LEMMA RowGoes ==
    ASSUME NEW format, NEW t, IsFiniteSet(t), NEW old \in t
    PROVE  /\ IsFiniteSet(t \ {old})
           /\ \A row : /\ NumberOf(format, t \ {old}, row) =
                              NumberOf(format, t, row) - Same(row, ArrivedAs(format, old))
                       /\ NumberOf(format, t, row) \in Int
<1> DEFINE u == t \ {old}
<1>1. IsFiniteSet(u) /\ old \notin u /\ t = u \cup {old}
    BY FS_Subset
<1> HIDE DEF u
<1>2. \A row : /\ NumberOf(format, t, row) =
                      NumberOf(format, u, row) + Same(row, ArrivedAs(format, old))
               /\ NumberOf(format, u, row) \in Int
    BY <1>1, RowComes
<1>3. \A row : Same(row, ArrivedAs(format, old)) \in Int
    BY DEF Same
<1> QED
    BY <1>1, <1>2, <1>3 DEF u

\* What a change of the table does to the number of rows that arrive as row.
Gained(format, change, row) ==
    (IF change.kind = "delete" THEN 0 ELSE Same(row, ArrivedAs(format, change.new)))
        - (IF change.kind = "insert" THEN 0 ELSE Same(row, ArrivedAs(format, change.old)))

LEMMA ObjectsArrive == \A row : ObjectRow(Object(row)) = Typed(row)
    BY DEF ObjectRow, Object, Typed

LEMMA ArraysArrive ==
    \A row : WalRow(Array({[name |-> c, value |-> row[c]] : c \in DOMAIN row})) = Typed(row)
<1> SUFFICES ASSUME NEW row
             PROVE  WalRow(Array({[name |-> c, value |-> row[c]] : c \in DOMAIN row})) =
                        Typed(row)
    OBVIOUS
<1> DEFINE columns == {[name |-> c, value |-> row[c]] : c \in DOMAIN row}
           json == Array(columns)
           C == Complete(json)
<1>1. json.shape = "array" /\ json.members = columns
    BY DEF Array
<1>2. \A col \in columns : {"name", "value"} \subseteq DOMAIN col
    OBVIOUS
<1>3. C = columns
    BY <1>1, <1>2 DEF Complete
<1>4. {col.name : col \in C} = DOMAIN row
  <2>1. ASSUME NEW c \in DOMAIN row PROVE \E col \in C : col.name = c
    <3> DEFINE col == [name |-> c, value |-> row[c]]
    <3>1. col \in C /\ col.name = c
        BY <1>3
    <3> HIDE DEF col, C
    <3> QED
        BY <3>1
  <2>2. \A col \in C : col.name \in DOMAIN row
    BY <1>3
  <2> HIDE DEF C
  <2> QED
    BY <2>1, <2>2
<1>5. ASSUME NEW c \in DOMAIN row
      PROVE  (CHOOSE col \in C : col.name = c).value = row[c]
  <2>1. [name |-> c, value |-> row[c]] \in C
    BY <1>3
  <2>2. \A col \in C : col.name = c => col.value = row[c]
    BY <1>3
  <2> HIDE DEF C
  <2> QED
    BY <2>1, <2>2
<1> HIDE DEF json, C
<1>6. WalRow(json) = [c \in {col.name : col \in C} |->
                        JsonTyped((CHOOSE col \in C : col.name = c).value)]
    BY <1>1 DEF WalRow, C
<1>7. WalRow(json) = [c \in DOMAIN row |-> JsonTyped(row[c])]
    BY <1>4, <1>5, <1>6
<1> QED
    BY <1>7 DEF Typed, json

LEMMA JsonArrives ==
    ASSUME feed.format \in {"json_object", "json_array"}
    PROVE  \A row : WalRow(JsonOf(row)) = Typed(row)
<1> SUFFICES ASSUME NEW row PROVE WalRow(JsonOf(row)) = Typed(row)
    OBVIOUS
<1>1. CASE feed.format = "json_object"
  <2>1. JsonOf(row) = Object(row) /\ Object(row).shape # "array"
    BY <1>1 DEF JsonOf, Object
  <2> QED
    BY <2>1, ObjectsArrive DEF WalRow
<1>2. CASE feed.format # "json_object"
  <2>1. JsonOf(row) = Array({[name |-> c, value |-> row[c]] : c \in DOMAIN row})
    BY <1>2 DEF JsonOf
  <2> QED
    BY <2>1, ArraysArrive
<1> QED
    BY <1>1, <1>2

LEMMA EnvelopeGains ==
    ASSUME NEW op, NEW before, NEW after, NEW f,
           f.msg = [op |-> op, before |-> before, after |-> after]
    PROVE  /\ op \in {"c", "r"} =>
                \A row : Gain("debezium", f, row) = Same(row, ObjectRow(after))
           /\ op = "d" =>
                \A row : Gain("debezium", f, row) = -Same(row, ObjectRow(before))
           /\ op = "u" =>
                \A row : Gain("debezium", f, row) =
                            Same(row, ObjectRow(after)) - Same(row, ObjectRow(before))
<1> DEFINE e == f.msg
<1>1. /\ Member(e, "before") = before /\ Member(e, "after") = after
      /\ CdcOp(e) = op /\ e.op = op
    BY DEF Member, CdcOp
<1> HIDE DEF e
<1>2. op \notin {"malformed", "tombstone"} =>
        \A row : Gain("debezium", f, row) = CdcGain(e, row)
    BY <1>1 DEF Gain, e
<1> QED
    BY <1>1, <1>2 DEF CdcGain

LEMMA DebeziumGains ==
    ASSUME NEW change, change.kind \in {"insert", "update", "delete"},
           NEW messages \in DebeziumMessages(change)
    PROVE  /\ Len(messages) \in {1, 2}
           /\ \A f : f.msg = messages[1] =>
                \A row : Gain("debezium", f, row) = Gained("debezium", change, row)
           /\ Len(messages) = 2 => \A f : f.msg = messages[2] =>
                \A row : Gain("debezium", f, row) = 0
<1>0. /\ \A m : Len(<<m>>) = 1 /\ <<m>>[1] = m
      /\ \A m, k : Len(<<m, k>>) = 2 /\ <<m, k>>[1] = m /\ <<m, k>>[2] = k
      /\ \A row, x : Same(row, x) \in Int
      /\ \A row : ArrivedAs("debezium", row) = ObjectRow(Object(row))
    BY ObjectsArrive DEF Same, ArrivedAs
<1>1. CASE change.kind = "insert"
  <2>1. PICK op \in {"c", "r"} :
            messages = <<[op |-> op, before |-> NullJson, after |-> Object(change.new)]>>
    BY <1>1 DEF DebeziumMessages
  <2>2. ASSUME NEW f, f.msg = messages[1], NEW row
        PROVE  Gain("debezium", f, row) = Gained("debezium", change, row)
    <3>1. f.msg = [op |-> op, before |-> NullJson, after |-> Object(change.new)]
        BY <1>0, <2>1, <2>2
    <3>2. Gain("debezium", f, row) = Same(row, ObjectRow(Object(change.new)))
        BY <3>1, EnvelopeGains
    <3>3. Gained("debezium", change, row) = Same(row, ArrivedAs("debezium", change.new)) - 0
        BY <1>1 DEF Gained
    <3> QED
        BY <1>0, <3>2, <3>3
  <2>3. Len(messages) = 1
    BY <1>0, <2>1
  <2> QED
    BY <2>2, <2>3
<1>2. CASE change.kind = "update"
  <2>1. messages = <<[op |-> "u", before |-> Object(change.old),
                      after |-> Object(change.new)]>>
    BY <1>2 DEF DebeziumMessages
  <2>2. ASSUME NEW f, f.msg = messages[1], NEW row
        PROVE  Gain("debezium", f, row) = Gained("debezium", change, row)
    <3>1. f.msg = [op |-> "u", before |-> Object(change.old), after |-> Object(change.new)]
        BY <1>0, <2>1, <2>2
    <3>2. Gain("debezium", f, row) =
            Same(row, ObjectRow(Object(change.new))) - Same(row, ObjectRow(Object(change.old)))
        BY <3>1, EnvelopeGains
    <3>3. Gained("debezium", change, row) =
            Same(row, ArrivedAs("debezium", change.new))
                - Same(row, ArrivedAs("debezium", change.old))
        BY <1>2 DEF Gained
    <3> QED
        BY <1>0, <3>2, <3>3
  <2>3. Len(messages) = 1
    BY <1>0, <2>1
  <2> QED
    BY <2>2, <2>3
<1>3. CASE change.kind = "delete"
  <2>1. messages = <<[op |-> "d", before |-> Object(change.old), after |-> NullJson],
                     Tombstone>>
    BY <1>3 DEF DebeziumMessages
  <2>2. ASSUME NEW f, f.msg = messages[1], NEW row
        PROVE  Gain("debezium", f, row) = Gained("debezium", change, row)
    <3>1. f.msg = [op |-> "d", before |-> Object(change.old), after |-> NullJson]
        BY <1>0, <2>1, <2>2
    <3>2. Gain("debezium", f, row) = -Same(row, ObjectRow(Object(change.old)))
        BY <3>1, EnvelopeGains
    <3>3. Gained("debezium", change, row) = 0 - Same(row, ArrivedAs("debezium", change.old))
        BY <1>3 DEF Gained
    <3> QED
        BY <1>0, <3>2, <3>3
  <2>3. ASSUME NEW f, f.msg = messages[2], NEW row PROVE Gain("debezium", f, row) = 0
    <3>1. f.msg.op = "tombstone"
        BY <1>0, <2>1, <2>3 DEF Tombstone
    <3> QED
        BY <3>1 DEF Gain
  <2>4. Len(messages) = 2
    BY <1>0, <2>1
  <2> QED
    BY <2>2, <2>3, <2>4
<1> QED
    BY <1>1, <1>2, <1>3

\* The messages of a row of the WAL as JSON, by what they are parsed to.
LEMMA WalGains ==
    ASSUME NEW f, NEW event, ParseWalData(f.msg) = <<event>>
    PROVE  \A format, row : format # "debezium" => Gain(format, f, row) = EventGain(event, row)
<1>1. <<event>> # <<>> /\ <<event>>[1] = event
    OBVIOUS
<1> QED
    BY <1>1 DEF Gain, WalGain

LEMMA JsonGains ==
    ASSUME feed.format \in {"json_object", "json_array"},
           NEW change, change.kind \in {"insert", "update", "delete"},
           NEW messages \in JsonMessages(change)
    PROVE  /\ Len(messages) = 3
           /\ \A f, row :
                /\ f.msg = messages[1] => Gain(feed.format, f, row) = 0
                /\ f.msg = messages[2] =>
                        Gain(feed.format, f, row) = Gained(feed.format, change, row)
                /\ f.msg = messages[3] => Gain(feed.format, f, row) = 0
<1> DEFINE columns == IF change.kind = "delete" THEN NullJson ELSE JsonOf(change.new)
           identity == IF change.kind = "insert" THEN NullJson ELSE JsonOf(change.old)
           action == CASE change.kind = "insert" -> "I"
                       [] change.kind = "update" -> "U"
                       [] change.kind = "delete" -> "D"
           m == [action |-> action, columns |-> columns, identity |-> identity]
<1>0. /\ \A row, x : Same(row, x) \in Int
      /\ \A row : WalRow(JsonOf(row)) = ArrivedAs(feed.format, row)
    BY JsonArrives DEF Same, ArrivedAs
<1>1. messages = <<[action |-> "B"], m, [action |-> "C"]>>
    BY DEF JsonMessages
<1>2. /\ change.kind = "insert" => action = "I"
      /\ change.kind = "update" => action = "U"
      /\ change.kind = "delete" => action = "D"
    OBVIOUS
<1> HIDE DEF columns, identity, action
<1>3. /\ Member(m, "columns") = columns /\ Member(m, "identity") = identity
      /\ m.action = action /\ "action" \in DOMAIN m
    BY DEF Member
<1> HIDE DEF m
<1>4. /\ Len(messages) = 3 /\ messages[1] = [action |-> "B"] /\ messages[2] = m
      /\ messages[3] = [action |-> "C"]
    BY <1>1
<1>5. feed.format # "debezium"
    OBVIOUS
<1>6. ASSUME NEW f, f.msg = messages[1], NEW row PROVE Gain(feed.format, f, row) = 0
  <2>1. f.msg = [action |-> "B"] /\ "action" \in DOMAIN [action |-> "B"]
    BY <1>4, <1>6
  <2>2. ParseWalData(f.msg) = <<>>
    BY <2>1 DEF ParseWalData, JsonWalToEvents
  <2> QED
    BY <1>5, <2>2 DEF Gain, WalGain
<1>7. ASSUME NEW f, f.msg = messages[3], NEW row PROVE Gain(feed.format, f, row) = 0
  <2>1. f.msg = [action |-> "C"] /\ "action" \in DOMAIN [action |-> "C"]
    BY <1>4, <1>7
  <2>2. ParseWalData(f.msg) = <<[kind |-> "commit"]>>
    BY <2>1 DEF ParseWalData, JsonWalToEvents
  <2>3. EventGain([kind |-> "commit"], row) = 0
    BY DEF EventGain
  <2> QED
    BY <1>5, <2>2, <2>3, WalGains
<1>8. ASSUME NEW f, f.msg = messages[2], NEW row
      PROVE  Gain(feed.format, f, row) = Gained(feed.format, change, row)
  <2>1. f.msg = m /\ ParseWalData(m) = JsonWalToEvents(m)
    BY <1>3, <1>4, <1>8 DEF ParseWalData
  <2>2. CASE change.kind = "insert"
    <3>1. JsonWalToEvents(m) = <<[kind |-> "insert", row |-> WalRow(columns)]>>
        BY <1>2, <1>3, <2>2 DEF JsonWalToEvents
    <3>2. WalRow(columns) = ArrivedAs(feed.format, change.new)
        BY <1>0, <2>2 DEF columns
    <3>3. EventGain([kind |-> "insert", row |-> WalRow(columns)], row) =
            Same(row, ArrivedAs(feed.format, change.new))
        BY <3>2 DEF EventGain
    <3>4. Gained(feed.format, change, row) = Same(row, ArrivedAs(feed.format, change.new)) - 0
        BY <2>2 DEF Gained
    <3>5. Gain(feed.format, f, row) =
            EventGain([kind |-> "insert", row |-> WalRow(columns)], row)
        BY <1>5, <2>1, <3>1, WalGains
    <3> QED
        BY <1>0, <3>3, <3>4, <3>5
  <2>3. CASE change.kind = "delete"
    <3>1. JsonWalToEvents(m) = <<[kind |-> "delete", row |-> WalRow(identity)]>>
        BY <1>2, <1>3, <2>3 DEF JsonWalToEvents
    <3>2. WalRow(identity) = ArrivedAs(feed.format, change.old)
        BY <1>0, <2>3 DEF identity
    <3>3. EventGain([kind |-> "delete", row |-> WalRow(identity)], row) =
            -Same(row, ArrivedAs(feed.format, change.old))
        BY <3>2 DEF EventGain
    <3>4. Gained(feed.format, change, row) = 0 - Same(row, ArrivedAs(feed.format, change.old))
        BY <2>3 DEF Gained
    <3>5. Gain(feed.format, f, row) =
            EventGain([kind |-> "delete", row |-> WalRow(identity)], row)
        BY <1>5, <2>1, <3>1, WalGains
    <3> QED
        BY <1>0, <3>3, <3>4, <3>5
  <2>4. CASE change.kind = "update"
    <3> DEFINE event == [kind |-> "update", old_row |-> WalRow(identity),
                         new_row |-> WalRow(columns)]
    <3>1. JsonWalToEvents(m) = <<event>>
        BY <1>2, <1>3, <2>4 DEF JsonWalToEvents
    <3>2. /\ WalRow(identity) = ArrivedAs(feed.format, change.old)
          /\ WalRow(columns) = ArrivedAs(feed.format, change.new)
        BY <1>0, <2>4 DEF identity, columns
    <3>3. EventGain(event, row) =
              Same(row, ArrivedAs(feed.format, change.new))
                  - Same(row, ArrivedAs(feed.format, change.old))
        BY <3>2 DEF EventGain
    <3>4. Gained(feed.format, change, row) =
              Same(row, ArrivedAs(feed.format, change.new))
                  - Same(row, ArrivedAs(feed.format, change.old))
        BY <2>4 DEF Gained
    <3> HIDE DEF event
    <3>5. Gain(feed.format, f, row) = EventGain(event, row)
        BY <1>5, <2>1, <3>1, WalGains
    <3> QED
        BY <3>3, <3>4, <3>5
  <2> QED
    BY <2>2, <2>3, <2>4
<1> QED
    BY <1>4, <1>6, <1>7, <1>8

\* A tuple is parsed field by field: the row with its columns numbered.
FieldOf(row, i) == IF row[Columns[i]] = Null THEN NullField ELSE Text(row[Columns[i]])

LEMMA TupleLayout ==
    ASSUME NEW row, NEW n, n = Len(Columns)
    PROVE  /\ n \in Nat /\ \E S : Tuple(row) \in Seq(S)
           /\ Len(Tuple(row)) = n + 2
           /\ Tuple(row)[1] = Byte(0) /\ Tuple(row)[2] = Byte(n)
           /\ \A i \in Numbers : Tuple(row)[i + 3] = FieldOf(row, i + 1)
<1> DEFINE fields == [i \in 1..n |-> FieldOf(row, i)]
           count == <<Byte(0), Byte(n)>>
           S == {FieldOf(row, i) : i \in 1..n} \cup {Byte(0), Byte(n)}
           data == Tuple(row)
<1>1. n \in Nat /\ DOMAIN Columns = 1..n
    BY FeedAssumption
<1>2. fields \in Seq(S) /\ Len(fields) = n
    BY <1>1
<1>3. count \in Seq(S) /\ Len(count) = 2 /\ count[1] = Byte(0) /\ count[2] = Byte(n)
    BY <1>1
<1>4. data = count \o fields
    BY <1>1 DEF Tuple, FieldOf
<1>5. \A i \in 1..n : fields[i] = FieldOf(row, i)
    OBVIOUS
<1> HIDE DEF fields, count, S, data
<1>6. /\ Len(data) = n + 2 /\ data \in Seq(S)
      /\ \A i \in 1..(n + 2) : data[i] = IF i <= 2 THEN count[i] ELSE fields[i - 2]
  <2>1. /\ count \o fields \in Seq(S) /\ Len(count \o fields) = 2 + n
        /\ \A i \in 1..(2 + n) :
                (count \o fields)[i] = IF i <= 2 THEN count[i] ELSE fields[i - 2]
    <3>1. /\ count \o fields \in Seq(S)
          /\ Len(count \o fields) = Len(count) + Len(fields)
          /\ \A i \in 1..(Len(count) + Len(fields)) :
                (count \o fields)[i] =
                    IF i <= Len(count) THEN count[i] ELSE fields[i - Len(count)]
        <4>1. count \in Seq(S) /\ fields \in Seq(S)
            BY <1>2, <1>3
        <4> QED
            BY <4>1, ConcatProperties
    <3>2. Len(count) = 2 /\ Len(fields) = n
        BY <1>2, <1>3
    <3> QED
        BY <3>1, <3>2
  <2>2. 2 + n = n + 2
    BY <1>1
  <2> QED
    BY <1>4, <2>1, <2>2
<1>7. data[1] = Byte(0) /\ data[2] = Byte(n)
    BY <1>1, <1>3, <1>6
<1>8. ASSUME NEW i \in Numbers PROVE data[i + 3] = FieldOf(row, i + 1)
  <2>1. i \in 0..(n - 1)
    BY DEF Numbers
  <2>2. i + 3 \in 1..(n + 2) /\ ~(i + 3 <= 2) /\ (i + 3) - 2 = i + 1 /\ i + 1 \in 1..n
    BY <1>1, <2>1
  <2> QED
    BY <1>5, <1>6, <2>2
<1> QED
    BY <1>1, <1>6, <1>7, <1>8 DEF data

LEMMA TupleIsParsed ==
    ASSUME NEW row
    PROVE  ParseTuple(Tuple(row)).row = Numbered(row)
<1> DEFINE n == Len(Columns)
           data == Tuple(row)
           Field(i) == data[i + 3]
           present == {i \in 0..(n - 1) : Field(i).kind \in {"text", "null"}}
           name == [i \in present |-> ColumnName(i)]
           Value(i) == IF Field(i).kind = "null" THEN Null ELSE Field(i).val
           Place(c) == CHOOSE j \in present : name[j] = c
           Number(c) == CHOOSE i \in Numbers : ColumnName(i) = c
<1>1. /\ n \in Nat /\ Len(data) = n + 2
      /\ data[1] = Byte(0) /\ data[2] = Byte(n)
      /\ \A i \in Numbers : data[i + 3] = FieldOf(row, i + 1)
    BY TupleLayout
<1> HIDE DEF n, data
<1>2. 256 * data[1].val + data[2].val = n
    BY <1>1 DEF Byte
<1>3. Min({256 * data[1].val + data[2].val, Len(data) - 2}) = n
  <2>1. Len(data) - 2 = n
    BY <1>1
  <2>2. {256 * data[1].val + data[2].val, Len(data) - 2} = {n}
    BY <1>2, <2>1
  <2>3. Min({n}) = n
    BY <1>1 DEF Min
  <2> QED
    BY <2>2, <2>3
<1>4. ~(Len(data) < 2)
    BY <1>1
<1>5. ParseTuple(data).row = [c \in {name[i] : i \in present} |-> Value(Place(c))]
  <2> DEFINE count == Min({256 * data[1].val + data[2].val, Len(data) - 2})
  <2>1. ParseTuple(data).row =
            LET present2 == {i \in 0..(count - 1) : Field(i).kind \in {"text", "null"}}
                name2 == [i \in present2 |-> ColumnName(i)]
            IN [c \in {name2[i] : i \in present2} |->
                    LET i == CHOOSE j \in present2 : name2[j] = c
                    IN IF Field(i).kind = "null" THEN Null ELSE Field(i).val]
    BY <1>4 DEF ParseTuple
  <2>2. count = n
    BY <1>3
  <2> HIDE DEF count
  <2> QED
    BY <2>1, <2>2
<1>6. \A i \in Numbers :
        /\ Field(i).kind \in {"text", "null"}
        /\ Value(i) = row[Columns[1 + i]]
  <2> SUFFICES ASSUME NEW i \in Numbers
               PROVE  /\ Field(i).kind \in {"text", "null"}
                      /\ Value(i) = row[Columns[1 + i]]
    OBVIOUS
  <2>1. Field(i) = FieldOf(row, i + 1)
    BY <1>1
  <2>2. i + 1 = 1 + i
    BY <1>1 DEF Numbers
  <2> HIDE DEF Field
  <2>3. CASE row[Columns[i + 1]] = Null
    BY <2>1, <2>2, <2>3 DEF FieldOf, NullField
  <2>4. CASE row[Columns[i + 1]] # Null
    BY <2>1, <2>2, <2>4 DEF FieldOf, Text
  <2> QED
    BY <2>3, <2>4
<1>7. present = Numbers
    BY <1>6 DEF Numbers, n
<1> HIDE DEF present
<1>8. /\ {name[i] : i \in present} = {ColumnName(i) : i \in Numbers}
      /\ \A i \in Numbers : name[i] = ColumnName(i)
    BY <1>7
<1> HIDE DEF name
<1> HIDE DEF Value
<1>9. ASSUME NEW c \in {ColumnName(i) : i \in Numbers}
      PROVE  Value(Place(c)) = row[Columns[1 + Number(c)]]
  <2>1. Place(c) = Number(c)
    <3>1. \A j : (j \in present /\ name[j] = c) <=> (j \in Numbers /\ ColumnName(j) = c)
        BY <1>7, <1>8
    <3> QED
        BY <3>1
  <2>2. Number(c) \in Numbers
    <3>1. \E j \in Numbers : ColumnName(j) = c
        OBVIOUS
    <3> QED
        BY <3>1
  <2> HIDE DEF Place, Number
  <2> QED
    BY <1>6, <2>1, <2>2
<1>10. Numbered(row) = [c \in {ColumnName(i) : i \in Numbers} |-> row[Columns[1 + Number(c)]]]
    BY DEF Numbered
<1> HIDE DEF Place, Number
<1>11. ParseTuple(data).row = Numbered(row)
    BY <1>5, <1>8, <1>9, <1>10
<1> QED
    BY <1>11 DEF data

\* The flag before the only tuple of an insert or a delete is passed over.
LEMMA FlagIsSkipped ==
    ASSUME NEW row, NEW flag, NEW data,
           \/ data = <<>> \o (<<flag>> \o Tuple(row))
           \/ data = (<<flag>> \o Tuple(row)) \o <<>>
    PROVE  SubSeq(data, 2, Len(data)) = Tuple(row)
<1> DEFINE tuple == Tuple(row)
<1>1. PICK S : tuple \in Seq(S)
    BY TupleLayout
<1> DEFINE T == S \cup {flag}
<1>2. tuple \in Seq(T) /\ <<flag>> \in Seq(T) /\ Len(tuple) \in Nat
    BY <1>1
<1> HIDE DEF tuple, T
<1>3. <<flag>> \o tuple \in Seq(T)
    BY <1>2, ConcatProperties
<1>4. data = <<flag>> \o tuple
    BY <1>3, ConcatEmptySeq DEF tuple
<1>5. /\ data \in Seq(T) /\ Len(data) = 1 + Len(tuple)
      /\ \A i \in 1..(1 + Len(tuple)) :
            data[i] = IF i <= 1 THEN <<flag>>[i] ELSE tuple[i - 1]
    BY <1>2, <1>4, ConcatProperties
<1> DEFINE rest == SubSeq(data, 2, Len(data))
<1>6. /\ rest \in Seq(T) /\ Len(rest) = Len(tuple)
      /\ \A i \in 1..Len(tuple) : rest[i] = data[i + 1]
    BY <1>2, <1>5
<1>7. \A i \in 1..Len(tuple) : rest[i] = tuple[i]
    BY <1>2, <1>5, <1>6
<1> HIDE DEF rest
<1>8. rest = tuple
    BY <1>2, <1>6, <1>7, SeqEqual
<1> QED
    BY <1>8 DEF rest, tuple

LEMMA PgOutputGains ==
    ASSUME feed.format = "pgoutput",
           NEW change, change.kind \in {"insert", "delete"},
           NEW messages \in PgOutputMessages(change)
    PROVE  /\ Len(messages) = 4
           /\ \A f, row :
                /\ f.msg = messages[1] => Gain(feed.format, f, row) = 0
                /\ f.msg = messages[2] => Gain(feed.format, f, row) = 0
                /\ f.msg = messages[3] =>
                        Gain(feed.format, f, row) = Gained(feed.format, change, row)
                /\ f.msg = messages[4] => Gain(feed.format, f, row) = 0
<1> DEFINE new == IF change.kind = "delete" THEN <<>>
                                            ELSE <<Byte(78)>> \o Tuple(change.new)
           old == IF change.kind = "insert" THEN <<>>
                                            ELSE <<Byte(79)>> \o Tuple(change.old)
           data == old \o new
           type == IF change.kind = "insert" THEN "I" ELSE "D"
           m == [type |-> type, data |-> data]
           B == [type |-> "B"]
           R == [type |-> "R"]
           C == [type |-> "C"]
           tuple == ParseTuple(SubSeq(data, 2, Len(data))).row
<1>1. messages = <<B, R, m, C>>
    BY DEF PgOutputMessages
<1>2. /\ Len(messages) = 4 /\ messages[1] = B /\ messages[2] = R
      /\ messages[3] = m /\ messages[4] = C
    BY <1>1
<1>3. /\ ParseWalData(B) = <<>>
      /\ ParseWalData(R) = <<[kind |-> "relation"]>>
      /\ ParseWalData(C) = <<[kind |-> "commit"]>>
    BY DEF ParseWalData, ParsePgOutput
<1>4. /\ change.kind = "insert" => ParseWalData(m) = <<[kind |-> "insert", row |-> tuple]>>
      /\ change.kind = "delete" => ParseWalData(m) = <<[kind |-> "delete", row |-> tuple]>>
  <2> HIDE DEF data
  <2>1. m.type = type /\ m.data = data /\ "action" \notin DOMAIN m
    OBVIOUS
  <2>2. ParseWalData(m) = ParsePgOutput(m)
    BY <2>1 DEF ParseWalData
  <2>3. change.kind = "insert" => type = "I"
    OBVIOUS
  <2>4. change.kind = "delete" => type = "D"
    OBVIOUS
  <2> HIDE DEF m, type
  <2> QED
    BY <2>1, <2>2, <2>3, <2>4 DEF ParsePgOutput
<1>5. /\ change.kind = "insert" => tuple = Numbered(change.new)
      /\ change.kind = "delete" => tuple = Numbered(change.old)
  <2>1. ASSUME change.kind = "insert" PROVE tuple = Numbered(change.new)
    <3>1. data = <<>> \o (<<Byte(78)>> \o Tuple(change.new))
        BY <2>1
    <3> HIDE DEF data
    <3>2. SubSeq(data, 2, Len(data)) = Tuple(change.new)
        BY <3>1, FlagIsSkipped
    <3> QED
        BY <3>2, TupleIsParsed
  <2>2. ASSUME change.kind = "delete" PROVE tuple = Numbered(change.old)
    <3>1. data = (<<Byte(79)>> \o Tuple(change.old)) \o <<>>
        BY <2>2
    <3> HIDE DEF data
    <3>2. SubSeq(data, 2, Len(data)) = Tuple(change.old)
        BY <3>1, FlagIsSkipped
    <3> QED
        BY <3>2, TupleIsParsed
  <2> QED
    BY <2>1, <2>2
<1> HIDE DEF m, B, R, C, tuple
<1>6. /\ \A row, x : Same(row, x) \in Int
      /\ \A row : ArrivedAs(feed.format, row) = Numbered(row)
      /\ feed.format # "debezium"
    BY DEF Same, ArrivedAs
<1>7. ASSUME NEW f, f.msg = B, NEW row PROVE Gain(feed.format, f, row) = 0
    BY <1>3, <1>6, <1>7 DEF Gain, WalGain
<1>8. ASSUME NEW f, f.msg \in {R, C}, NEW row PROVE Gain(feed.format, f, row) = 0
  <2>1. PICK event \in {[kind |-> "relation"], [kind |-> "commit"]} :
            ParseWalData(f.msg) = <<event>>
    BY <1>3, <1>8
  <2>2. EventGain(event, row) = 0
    BY DEF EventGain
  <2> QED
    BY <1>6, <2>1, <2>2, WalGains
<1>9. ASSUME NEW f, f.msg = m, NEW row
      PROVE  Gain(feed.format, f, row) = Gained(feed.format, change, row)
  <2>1. CASE change.kind = "insert"
    <3>1. Gain(feed.format, f, row) = EventGain([kind |-> "insert", row |-> tuple], row)
        BY <1>4, <1>6, <1>9, <2>1, WalGains
    <3>2. EventGain([kind |-> "insert", row |-> tuple], row) = Same(row, tuple)
        BY DEF EventGain
    <3>3. Gained(feed.format, change, row) = Same(row, Numbered(change.new)) - 0
        BY <1>6, <2>1 DEF Gained
    <3> QED
        BY <1>5, <1>6, <2>1, <3>1, <3>2, <3>3
  <2>2. CASE change.kind = "delete"
    <3>1. Gain(feed.format, f, row) = EventGain([kind |-> "delete", row |-> tuple], row)
        BY <1>4, <1>6, <1>9, <2>2, WalGains
    <3>2. EventGain([kind |-> "delete", row |-> tuple], row) = -Same(row, tuple)
        BY DEF EventGain
    <3>3. Gained(feed.format, change, row) = 0 - Same(row, Numbered(change.old))
        BY <1>6, <2>2 DEF Gained
    <3> QED
        BY <1>5, <1>6, <2>2, <3>1, <3>2, <3>3
  <2> QED
    BY <2>1, <2>2
<1> QED
    BY <1>2, <1>7, <1>8, <1>9

-----------------------------------------------------------------------------
(***************************************************************************)
(* The inductive invariant of the copy: wherever a poll may cut the        *)
(* stream, the copy and the delta up to there add up to the table of the   *)
(* message before the cut.                                                 *)
(***************************************************************************)
Keyed(t) ==
    /\ t \subseteq TableRows /\ IsFiniteSet(t)
    /\ \A r, s \in t : r[KeyColumn] = s[KeyColumn] => r = s

MayCut(format, s, i) == i = 0 \/ format = "debezium" \/ s[i].last
TableAt(s, first, i) == IF i = 0 THEN first ELSE s[i].after
Reflects(format, s, first, z, i) ==
    \A row : Weight(z, row) + Weight(DeltaAs(format, s, i), row) =
                NumberOf(format, TableAt(s, first, i), row)

CopyRight(format, s, first, z, t) ==
    /\ Keyed(t)
    /\ MayCut(format, s, Len(s)) /\ TableAt(s, first, Len(s)) = t
    /\ \A i \in 0..Len(s) :
        /\ IsFiniteSet(TableAt(s, first, i))
        /\ MayCut(format, s, i) => Reflects(format, s, first, z, i)

\* A feed whose messages the decoders take for what they are: the second flag
\* of a pgoutput update they take for a part of the tuple.
Parsed == feed.format = "pgoutput" => "update" \notin feed.changes

CopyInv ==
    Parsed => CopyRight(feed.format, stream, reflected, copy, table)

After(change) ==
    (table \ {change.old}) \cup (IF change.kind = "delete" THEN {} ELSE {change.new})

\* The table after a change.
LEMMA TableMoves ==
    ASSUME NEW format, Keyed(table), NEW change \in ChangesOf(table)
    PROVE  /\ Keyed(After(change))
           /\ change.kind \in {"insert", "update", "delete"}
           /\ \A row : /\ NumberOf(format, After(change), row) =
                              NumberOf(format, table, row) + Gained(format, change, row)
                       /\ NumberOf(format, table, row) \in Int
<1>0. \A row, x : Same(row, x) \in Int
    BY DEF Same
<1>1. CASE change.kind = "insert"
  <2>1. PICK new \in TableRows :
            /\ change = [kind |-> "insert", old |-> NoColumns, new |-> new]
            /\ \A r \in table : r[KeyColumn] # new[KeyColumn]
    BY <1>1 DEF ChangesOf
  <2>2. NoColumns \notin table
    <3>1. DOMAIN NoColumns = {} /\ \A r \in table : KeyColumn \in DOMAIN r
        BY FeedAssumption DEF NoColumns, Keyed
    <3> HIDE DEF NoColumns
    <3> QED
        BY <3>1
  <2> HIDE DEF NoColumns
  <2>3. After(change) = table \cup {new} /\ new \notin table
    BY <2>1, <2>2 DEF After
  <2>4. \A row : Gained(format, change, row) = Same(row, ArrivedAs(format, new)) - 0
    BY <2>1 DEF Gained
  <2>5. /\ IsFiniteSet(After(change))
        /\ \A row : /\ NumberOf(format, After(change), row) =
                           NumberOf(format, table, row) + Same(row, ArrivedAs(format, new))
                    /\ NumberOf(format, table, row) \in Int
    <3>1. IsFiniteSet(table)
        BY DEF Keyed
    <3>2. /\ IsFiniteSet(table \cup {new})
          /\ \A row : /\ NumberOf(format, table \cup {new}, row) =
                            NumberOf(format, table, row) + Same(row, ArrivedAs(format, new))
                      /\ NumberOf(format, table, row) \in Int
        BY <2>3, <3>1, RowComes
    <3> QED
        BY <2>3, <3>2
  <2>6. Keyed(After(change))
    BY <2>1, <2>3, <2>5 DEF Keyed
  <2> QED
    BY <1>0, <1>1, <2>4, <2>5, <2>6
<1>2. CASE change.kind = "delete"
  <2>1. PICK old \in table : change = [kind |-> "delete", old |-> old, new |-> NoColumns]
    BY <1>2 DEF ChangesOf
  <2>2. After(change) = table \ {old}
    BY <2>1 DEF After
  <2>3. \A row : Gained(format, change, row) = 0 - Same(row, ArrivedAs(format, old))
    BY <2>1 DEF Gained
  <2>4. /\ IsFiniteSet(After(change))
        /\ \A row : /\ NumberOf(format, After(change), row) =
                            NumberOf(format, table, row) - Same(row, ArrivedAs(format, old))
                    /\ NumberOf(format, table, row) \in Int
    <3>1. IsFiniteSet(table)
        BY DEF Keyed
    <3>2. /\ IsFiniteSet(table \ {old})
          /\ \A row : /\ NumberOf(format, table \ {old}, row) =
                            NumberOf(format, table, row) - Same(row, ArrivedAs(format, old))
                      /\ NumberOf(format, table, row) \in Int
        BY <3>1, RowGoes
    <3> QED
        BY <2>2, <3>2
  <2>5. Keyed(After(change))
    BY <2>2, <2>4 DEF Keyed
  <2> QED
    BY <1>0, <1>2, <2>3, <2>4, <2>5
<1>3. CASE change.kind \notin {"insert", "delete"}
  <2>1. PICK p \in table \X TableRows :
            /\ p[1] # p[2] /\ p[1][KeyColumn] = p[2][KeyColumn]
            /\ change = [kind |-> "update", old |-> p[1], new |-> p[2]]
    BY <1>3 DEF ChangesOf
  <2> DEFINE old == p[1]
             new == p[2]
             rest == table \ {old}
  <2>2. /\ old \in table /\ new \in TableRows /\ old # new
        /\ old[KeyColumn] = new[KeyColumn] /\ change.kind = "update"
        /\ change.old = old /\ change.new = new
    BY <2>1
  <2> HIDE DEF old, new
  <2>3. After(change) = rest \cup {new} /\ new \notin rest
    BY <2>2 DEF After, Keyed
  <2>4. \A row : Gained(format, change, row) =
                     Same(row, ArrivedAs(format, new))
                         - Same(row, ArrivedAs(format, old))
    BY <2>2 DEF Gained
  <2>5. /\ IsFiniteSet(rest)
        /\ \A row : /\ NumberOf(format, rest, row) =
                           NumberOf(format, table, row) - Same(row, ArrivedAs(format, old))
                    /\ NumberOf(format, table, row) \in Int
    BY <2>2, RowGoes DEF Keyed
  <2>6. /\ IsFiniteSet(rest \cup {new})
        /\ \A row : NumberOf(format, rest \cup {new}, row) =
                        NumberOf(format, rest, row) + Same(row, ArrivedAs(format, new))
    BY <2>3, <2>5, RowComes
  <2>7. Keyed(After(change))
    <3>1. \A r \in rest : r[KeyColumn] # new[KeyColumn]
        BY <2>2 DEF Keyed
    <3> QED
        BY <2>2, <2>3, <2>6, <3>1 DEF Keyed
  <2> HIDE DEF rest
  <2>8. ASSUME NEW row
        PROVE  /\ NumberOf(format, After(change), row) =
                      NumberOf(format, table, row) + Gained(format, change, row)
               /\ NumberOf(format, table, row) \in Int
    <3>1. /\ NumberOf(format, After(change), row) =
                 NumberOf(format, rest, row) + Same(row, ArrivedAs(format, new))
          /\ NumberOf(format, rest, row) =
                 NumberOf(format, table, row) - Same(row, ArrivedAs(format, old))
          /\ Gained(format, change, row) =
                 Same(row, ArrivedAs(format, new))
                     - Same(row, ArrivedAs(format, old))
          /\ NumberOf(format, table, row) \in Int
        BY <2>3, <2>4, <2>5, <2>6
    <3> QED
        BY <1>0, <3>1
  <2> QED
    BY <2>2, <2>7, <2>8
<1> QED
    BY <1>1, <1>2, <1>3

\* Messages that enter the stream.
IsSequence(s) == \E S : s \in Seq(S)

Carries(u, n, messages) == \A j \in 1..Len(messages) : u[n + j].msg = messages[j]

Grows(s, messages, after, u) ==
    /\ Len(s) \in Nat /\ Len(messages) \in Nat
    /\ Len(u) = Len(s) + Len(messages)
    /\ \A i \in 1..Len(s) : u[i] = s[i]
    /\ Carries(u, Len(s), messages)
    /\ \A j \in 1..Len(messages) :
        /\ u[Len(s) + j].after = after
        /\ u[Len(s) + j].last <=> j = Len(messages)

LEMMA StreamGrows ==
    ASSUME NEW s, IsSequence(s), NEW messages, IsSequence(messages),
           NEW change, NEW time, NEW after
    PROVE  Grows(s, messages, after, s \o Framed(messages, change, time, after))
<1> PICK T : s \in Seq(T)
    BY DEF IsSequence
<1> PICK S : messages \in Seq(S)
    BY DEF IsSequence
<1> DEFINE u == s \o Framed(messages, change, time, after)
           F == Framed(messages, change, time, after)
           V == {F[i] : i \in DOMAIN messages}
           n == Len(s)
           k == Len(messages)
           A == T \cup V
<1>1. DOMAIN messages = 1..k /\ k \in Nat /\ n \in Nat
    OBVIOUS
<1>2. F = [i \in 1..k |-> F[i]] /\ \A i \in 1..k : F[i] \in V
    BY <1>1 DEF Framed
<1>3. \A j \in 1..k : /\ F[j].msg = messages[j] /\ F[j].after = after
                      /\ F[j].last <=> j = k
    BY <1>1 DEF Framed
<1> HIDE DEF F, V
<1>4. F \in Seq(V) /\ Len(F) = k
    BY <1>1, <1>2
<1>5. s \in Seq(A) /\ F \in Seq(A)
    BY <1>4
<1> HIDE DEF A, n, k, u
<1>6. /\ Len(s \o F) = Len(s) + Len(F)
      /\ \A i \in 1..(Len(s) + Len(F)) :
            (s \o F)[i] = IF i <= Len(s) THEN s[i] ELSE F[i - Len(s)]
    BY <1>5, ConcatProperties
<1>7. /\ Len(u) = n + k
      /\ \A i \in 1..(n + k) : u[i] = IF i <= n THEN s[i] ELSE F[i - n]
    BY <1>4, <1>6 DEF F, n, u
<1>8. \A i \in 1..n : u[i] = s[i]
    BY <1>1, <1>7
<1>9. \A j \in 1..k : u[n + j] = F[j]
  <2> SUFFICES ASSUME NEW j \in 1..k PROVE u[n + j] = F[j]
    OBVIOUS
  <2>1. n + j \in 1..(n + k) /\ ~(n + j <= n) /\ (n + j) - n = j
    BY <1>1
  <2> QED
    BY <1>7, <2>1
<1>10. ASSUME NEW j \in 1..k
       PROVE  /\ u[n + j].msg = messages[j]
              /\ u[n + j].after = after
              /\ u[n + j].last <=> j = k
    BY <1>3, <1>9
<1> QED
    BY <1>1, <1>7, <1>8, <1>10 DEF Grows, Carries, n, k, u

\* If the messages that enter bring, up to each of them after which a poll may
\* cut, what the table has gained, the copy will be right there too.
Brings(format, u, n, k, t, after) ==
    \A j \in 1..k : format = "debezium" \/ j = k =>
        \A row : Weight(DeltaAs(format, u, n + j), row) =
                    Weight(DeltaAs(format, u, n), row)
                        + (NumberOf(format, after, row) - NumberOf(format, t, row))

LEMMA CopyGrows ==
    ASSUME NEW format, NEW s, NEW first, NEW z, IsZSet(z), NEW t,
           CopyRight(format, s, first, z, t),
           NEW after, Keyed(after), NEW u, NEW n, n = Len(s), NEW k \in Nat \ {0},
           n \in Nat, Len(u) = n + k,
           \A i \in 1..n : u[i] = s[i],
           \A j \in 1..k : u[n + j].after = after /\ (u[n + j].last <=> j = k),
           \A row : NumberOf(format, t, row) \in Int /\ NumberOf(format, after, row) \in Int,
           Brings(format, u, n, k, t, after)
    PROVE  CopyRight(format, u, first, z, after)
<1>1. /\ MayCut(format, s, n) /\ TableAt(s, first, n) = t
      /\ \A i \in 0..n : /\ IsFiniteSet(TableAt(s, first, i))
                         /\ MayCut(format, s, i) => Reflects(format, s, first, z, i)
    BY DEF CopyRight
<1>2. \A i \in 0..n : DeltaAs(format, u, i) = DeltaAs(format, s, i)
  <2>1. StartAlike(u, s, n)
    BY DEF StartAlike
  <2> QED
    BY <2>1, DeltaOfPrefix
<1>3. ASSUME NEW i \in 0..n
      PROVE  /\ TableAt(u, first, i) = TableAt(s, first, i)
             /\ MayCut(format, u, i) => MayCut(format, s, i)
    BY DEF TableAt, MayCut
<1>4. ASSUME NEW j \in 1..k
      PROVE  /\ TableAt(u, first, n + j) = after
             /\ MayCut(format, u, n + j) => format = "debezium" \/ j = k
             /\ j = k => MayCut(format, u, n + j)
  <2>1. n + j # 0
    OBVIOUS
  <2> QED
    BY <2>1 DEF TableAt, MayCut
<1>5. ASSUME NEW row
      PROVE  /\ Weight(z, row) + Weight(DeltaAs(format, u, n), row) =
                    NumberOf(format, t, row)
             /\ Weight(z, row) \in Int /\ Weight(DeltaAs(format, u, n), row) \in Int
  <2>1. IsZSet(DeltaAs(format, u, n)) /\ n \in 0..n
    BY DeltaIsZSet
  <2>2. Weight(z, row) \in Int /\ Weight(DeltaAs(format, u, n), row) \in Int
    BY <2>1, WeightType
  <2>3. Weight(z, row) + Weight(DeltaAs(format, s, n), row) = NumberOf(format, t, row)
    BY <1>1, <2>1 DEF Reflects
  <2> QED
    BY <1>2, <2>1, <2>2, <2>3
<1>6. ASSUME NEW i \in 0..n
      PROVE  /\ IsFiniteSet(TableAt(u, first, i))
             /\ MayCut(format, u, i) => Reflects(format, u, first, z, i)
  <2>1. Reflects(format, s, first, z, i) => Reflects(format, u, first, z, i)
    BY <1>2, <1>3 DEF Reflects
  <2> QED
    BY <1>1, <1>3, <2>1
<1>7. ASSUME NEW j \in 1..k
      PROVE  /\ IsFiniteSet(TableAt(u, first, n + j))
             /\ MayCut(format, u, n + j) => Reflects(format, u, first, z, n + j)
  <2>1. IsFiniteSet(TableAt(u, first, n + j))
    BY <1>4 DEF Keyed
  <2>2. ASSUME MayCut(format, u, n + j), NEW row
        PROVE  Weight(z, row) + Weight(DeltaAs(format, u, n + j), row) =
                    NumberOf(format, TableAt(u, first, n + j), row)
    <3>1. Weight(DeltaAs(format, u, n + j), row) =
            Weight(DeltaAs(format, u, n), row)
                + (NumberOf(format, after, row) - NumberOf(format, t, row))
        BY <1>4, <2>2 DEF Brings
    <3>2. TableAt(u, first, n + j) = after
        BY <1>4
    <3> QED
        BY <1>5, <3>1, <3>2
  <2> QED
    BY <2>1, <2>2 DEF Reflects
<1>8. ASSUME NEW i \in 0..Len(u)
      PROVE  /\ IsFiniteSet(TableAt(u, first, i))
             /\ MayCut(format, u, i) => Reflects(format, u, first, z, i)
  <2>1. CASE i \in 0..n
    BY <1>6, <2>1
  <2>2. CASE i \notin 0..n
    <3>1. i - n \in 1..k /\ i = n + (i - n)
        BY <2>2
    <3> QED
        BY <1>7, <3>1
  <2> QED
    BY <2>1, <2>2
<1>9. MayCut(format, u, Len(u)) /\ TableAt(u, first, Len(u)) = after
  <2>1. k \in 1..k
    OBVIOUS
  <2> QED
    BY <1>4, <2>1
<1> QED
    BY <1>8, <1>9 DEF CopyRight

\* A poll: the messages up to a cut go into the copy.
LEMMA CopyAdvances ==
    ASSUME NEW format, NEW s, NEW first, NEW z, IsZSet(z), NEW t,
           CopyRight(format, s, first, z, t), NEW len, len = Len(s), len \in Nat,
           NEW n \in 1..len, MayCut(format, s, n),
           NEW u, Len(u) = len - n, EndAlike(s, u, n, len - n)
    PROVE  CopyRight(format, u, s[n].after, Merge(z, DeltaAs(format, s, n)), t)
<1> DEFINE now == s[n].after
           y == Merge(z, DeltaAs(format, s, n))
           m == len - n
<1>1. /\ Keyed(t) /\ MayCut(format, s, len) /\ TableAt(s, first, len) = t
      /\ \A i \in 0..len : /\ IsFiniteSet(TableAt(s, first, i))
                           /\ MayCut(format, s, i) => Reflects(format, s, first, z, i)
    BY DEF CopyRight
<1>2. m \in Nat /\ n \in Nat /\ n # 0 /\ m + n = len
    OBVIOUS
<1>3. IsZSet(DeltaAs(format, s, n))
    BY <1>2, DeltaIsZSet
<1>4. \A row : /\ Weight(y, row) = Weight(z, row) + Weight(DeltaAs(format, s, n), row)
               /\ Weight(z, row) \in Int /\ Weight(DeltaAs(format, s, n), row) \in Int
    BY <1>3, MergeAdds, WeightType
<1>5. \A i \in 0..m : \A row :
        Weight(DeltaAs(format, s, n + i), row) =
            Weight(DeltaAs(format, s, n), row) + Weight(DeltaAs(format, u, i), row)
    BY <1>2, DeltaOfSuffix
<1> HIDE DEF y, now, m
<1>6. ASSUME NEW i \in 0..m
      PROVE  /\ TableAt(u, now, i) = TableAt(s, first, n + i)
             /\ MayCut(format, u, i) => MayCut(format, s, n + i)
             /\ MayCut(format, s, n + i) => MayCut(format, u, i)
             /\ n + i \in 0..len
  <2>1. CASE i = 0
    <3>1. n + i = n /\ n \in 0..len
        BY <1>2, <2>1
    <3> QED
        BY <1>2, <2>1, <3>1 DEF TableAt, MayCut, now
  <2>2. CASE i # 0
    <3>1. i \in 1..m /\ n + i # 0 /\ n + i \in 0..len
        BY <1>2, <2>2
    <3>2. u[i] = s[n + i]
        BY <3>1 DEF EndAlike, m
    <3> QED
        BY <2>2, <3>1, <3>2 DEF TableAt, MayCut
  <2> QED
    BY <2>1, <2>2
<1>7. ASSUME NEW i \in 0..m
      PROVE  /\ IsFiniteSet(TableAt(u, now, i))
             /\ MayCut(format, u, i) => Reflects(format, u, now, y, i)
  <2>1. IsFiniteSet(TableAt(u, now, i))
    BY <1>1, <1>6
  <2>2. ASSUME MayCut(format, u, i), NEW row
        PROVE  Weight(y, row) + Weight(DeltaAs(format, u, i), row) =
                    NumberOf(format, TableAt(u, now, i), row)
    <3>1. Weight(z, row) + Weight(DeltaAs(format, s, n + i), row) =
            NumberOf(format, TableAt(s, first, n + i), row)
        BY <1>1, <1>6, <2>2 DEF Reflects
    <3>2. IsZSet(DeltaAs(format, u, i))
        BY <1>2, DeltaIsZSet
    <3>3. Weight(DeltaAs(format, u, i), row) \in Int
        BY <3>2, WeightType
    <3>4. Weight(DeltaAs(format, s, n + i), row) =
            Weight(DeltaAs(format, s, n), row) + Weight(DeltaAs(format, u, i), row)
        BY <1>5
    <3>5. /\ Weight(y, row) = Weight(z, row) + Weight(DeltaAs(format, s, n), row)
          /\ Weight(z, row) \in Int /\ Weight(DeltaAs(format, s, n), row) \in Int
        BY <1>4
    <3>6. TableAt(u, now, i) = TableAt(s, first, n + i)
        BY <1>6
    <3> QED
        BY <3>1, <3>3, <3>4, <3>5, <3>6
  <2> QED
    BY <2>1, <2>2 DEF Reflects
<1>8. MayCut(format, u, m) /\ TableAt(u, now, m) = t
  <2>1. m \in 0..m /\ n + m = len
    BY <1>2
  <2> QED
    BY <1>1, <1>6, <2>1
<1>9. Len(u) = m
    BY DEF m
<1> QED
    BY <1>1, <1>7, <1>8, <1>9 DEF CopyRight, y, now

LEMMA CopyPolls ==
    ASSUME TimeInv, CopyInv, IsZSet(copy), NEW n \in PollSizes, Poll(n)
    PROVE  CopyInv'
<1> SUFFICES ASSUME Parsed
             PROVE  CopyRight(feed.format, stream', reflected', copy', table)
    BY DEF CopyInv, Parsed, Poll, CopyRight, Keyed
<1> DEFINE len == Len(stream)
<1>1. PICK T : stream \in Seq(T)
    BY DEF TimeInv, StreamType
<1>2. n \in 1..len /\ MayCut(feed.format, stream, n)
    BY DEF PollSizes, MayCut
<1>3. /\ stream' = SubSeq(stream, n + 1, len)
      /\ copy' = Merge(copy, DeltaAs(feed.format, stream, n))
      /\ reflected' = stream[n].after
    BY DeltaOfStream DEF Poll
<1>4. /\ Len(stream') = len - n /\ len \in Nat
      /\ \A i \in 1..(len - n) : stream'[i] = stream[i + n]
    BY <1>1, <1>2, <1>3, StreamShrinks
<1>5. EndAlike(stream, stream', n, len - n)
  <2> SUFFICES ASSUME NEW i \in 1..(len - n) PROVE stream'[i] = stream[n + i]
    BY DEF EndAlike
  <2>1. n + i = i + n
    BY <1>2, <1>4
  <2> QED
    BY <1>4, <2>1
<1>6. CopyRight(feed.format, stream, reflected, copy, table)
    BY DEF CopyInv
<1> DEFINE u == stream'
<1> HIDE DEF u
<1>7. Len(u) = len - n /\ EndAlike(stream, u, n, len - n)
    BY <1>4, <1>5 DEF u
<1> HIDE DEF len
<1>8. CopyRight(feed.format, u, stream[n].after,
                Merge(copy, DeltaAs(feed.format, stream, n)), table)
    BY <1>2, <1>4, <1>6, <1>7, CopyAdvances DEF len
<1> QED
    BY <1>3, <1>8 DEF u

LEMMA NextGain ==
    ASSUME NEW format, NEW u, NEW n \in Nat
    PROVE  \A row :
        /\ Weight(DeltaAs(format, u, n + 1), row) =
                Weight(DeltaAs(format, u, n), row) + Gain(format, u[n + 1], row)
        /\ Weight(DeltaAs(format, u, n), row) \in Int
<1> DEFINE m == n + 1
<1>1. m \in Nat \ {0} /\ m - 1 = n
    OBVIOUS
<1> HIDE DEF m
<1>2. \A row : /\ Weight(DeltaAs(format, u, m), row) =
                    Weight(DeltaAs(format, u, m - 1), row) + Gain(format, u[m], row)
               /\ Weight(DeltaAs(format, u, m - 1), row) \in Int
    BY <1>1, GainsAdd
<1> QED
    BY <1>1, <1>2 DEF m

\* What the messages of a change bring.
Moves(format, change, t, after) ==
    \A row : /\ NumberOf(format, after, row) =
                    NumberOf(format, t, row) + Gained(format, change, row)
             /\ NumberOf(format, t, row) \in Int

LEMMA ChangeBrings ==
    ASSUME feed \in Feeds, Parsed,
           NEW change, change.kind \in {"insert", "update", "delete"},
           change.kind \in feed.changes, NEW messages \in MessagesOf(change), NEW t, NEW after,
           Moves(feed.format, change, t, after), NEW n \in Nat, NEW u, Carries(u, n, messages)
    PROVE  /\ Len(messages) \in Nat \ {0}
           /\ Brings(feed.format, u, n, Len(messages), t, after)
<1> DEFINE format == feed.format
           k == Len(messages)
           W(i, row) == Weight(DeltaAs(format, u, i), row)
<1>0. \A row : Gained(format, change, row) \in Int
    BY DEF Gained, Same
<1>1. \A row : NumberOf(format, after, row) - NumberOf(format, t, row) =
                   Gained(format, change, row)
    BY <1>0 DEF Moves
<1>2. \A row : /\ W(n + 4, row) = W(n + 3, row) + Gain(format, u[n + 4], row)
               /\ W(n + 3, row) \in Int
               /\ W(n + 1, row) = W(n, row) + Gain(format, u[n + 1], row)
               /\ W(n + 2, row) = W(n + 1, row) + Gain(format, u[n + 2], row)
               /\ W(n + 3, row) = W(n + 2, row) + Gain(format, u[n + 3], row)
               /\ W(n, row) \in Int /\ W(n + 1, row) \in Int /\ W(n + 2, row) \in Int
  <2>1. \A m \in Nat : \A row :
            W(m + 1, row) = W(m, row) + Gain(format, u[m + 1], row) /\ W(m, row) \in Int
    BY NextGain
  <2>2. /\ n + 1 \in Nat /\ n + 2 \in Nat /\ n + 3 \in Nat
        /\ (n + 1) + 1 = n + 2 /\ (n + 2) + 1 = n + 3 /\ (n + 3) + 1 = n + 4
    OBVIOUS
  <2> HIDE DEF W
  <2>3. \A row : W(n + 1, row) = W(n, row) + Gain(format, u[n + 1], row) /\ W(n, row) \in Int
    BY <2>1
  <2>4. \A row : /\ W(n + 2, row) = W(n + 1, row) + Gain(format, u[n + 2], row)
                 /\ W(n + 1, row) \in Int
    BY <2>1, <2>2
  <2>5. \A row : /\ W(n + 3, row) = W(n + 2, row) + Gain(format, u[n + 3], row)
                 /\ W(n + 2, row) \in Int
    BY <2>1, <2>2
  <2>6. \A row : /\ W(n + 4, row) = W(n + 3, row) + Gain(format, u[n + 4], row)
                 /\ W(n + 3, row) \in Int
    BY <2>1, <2>2
  <2> QED
    BY <2>3, <2>4, <2>5, <2>6
<1>3. \A j \in 1..k : u[n + j].msg = messages[j]
    BY DEF Carries
<1>4. ASSUME \A j \in 1..k : format = "debezium" \/ j = k =>
                \A row : W(n + j, row) = W(n, row) + Gained(format, change, row)
      PROVE  Brings(format, u, n, k, t, after)
    BY <1>1, <1>4 DEF Brings
<1> HIDE DEF W
<1>5. CASE feed.format = "debezium"
  <2>1. messages \in DebeziumMessages(change)
    BY <1>5 DEF MessagesOf
  <2>2. /\ k \in {1, 2}
        /\ \A f : f.msg = messages[1] =>
                \A row : Gain(format, f, row) = Gained(format, change, row)
        /\ k = 2 => \A f : f.msg = messages[2] => \A row : Gain(format, f, row) = 0
    BY <1>5, <2>1, DebeziumGains
  <2> HIDE DEF k, format
  <2>3. \A row : W(n + 1, row) = W(n, row) + Gained(format, change, row)
    <3>1. u[n + 1].msg = messages[1]
        BY <1>3, <2>2
    <3> QED
        BY <1>2, <2>2, <3>1
  <2>4. k = 2 => \A row : W(n + 2, row) = W(n, row) + Gained(format, change, row)
    <3> SUFFICES ASSUME k = 2, NEW row
                 PROVE  W(n + 2, row) = W(n, row) + Gained(format, change, row)
        OBVIOUS
    <3>1. u[n + 2].msg = messages[2]
        BY <1>3
    <3>2. Gain(format, u[n + 2], row) = 0
        BY <2>2, <3>1
    <3> QED
        BY <1>2, <2>3, <3>2
  <2>5. \A j \in 1..k : format = "debezium" \/ j = k =>
            \A row : W(n + j, row) = W(n, row) + Gained(format, change, row)
    <3> SUFFICES ASSUME NEW j \in 1..k, NEW row
                 PROVE  W(n + j, row) = W(n, row) + Gained(format, change, row)
        OBVIOUS
    <3>1. j = 1 \/ (k = 2 /\ j = 2)
        BY <2>2
    <3> QED
        BY <2>3, <2>4, <3>1
  <2> QED
    BY <1>4, <2>2, <2>5 DEF k, format
<1>6. CASE feed.format \in {"json_object", "json_array"}
  <2>1. feed.format \in {"json_object", "json_array"}
    BY <1>6
  <2>2. messages \in JsonMessages(change)
    BY <2>1 DEF MessagesOf
  <2>3. /\ k = 3
        /\ \A f, row :
            /\ f.msg = messages[1] => Gain(format, f, row) = 0
            /\ f.msg = messages[2] => Gain(format, f, row) = Gained(format, change, row)
            /\ f.msg = messages[3] => Gain(format, f, row) = 0
    BY <2>1, <2>2, JsonGains
  <2> HIDE DEF k, format
  <2>4. /\ u[n + 1].msg = messages[1] /\ u[n + 2].msg = messages[2]
        /\ u[n + 3].msg = messages[3]
    BY <1>3, <2>3
  <2>5. \A row : W(n + 3, row) = W(n, row) + Gained(format, change, row)
    <3> SUFFICES ASSUME NEW row PROVE W(n + 3, row) = W(n, row) + Gained(format, change, row)
        OBVIOUS
    <3>1. /\ Gain(format, u[n + 1], row) = 0 /\ Gain(format, u[n + 3], row) = 0
          /\ Gain(format, u[n + 2], row) = Gained(format, change, row)
        BY <2>3, <2>4
    <3> QED
        BY <1>0, <1>2, <3>1
  <2>6. format # "debezium"
    BY <1>6 DEF format
  <2>7. \A j \in 1..k : format = "debezium" \/ j = k =>
            \A row : W(n + j, row) = W(n, row) + Gained(format, change, row)
    BY <2>3, <2>5, <2>6
  <2> QED
    BY <1>4, <2>3, <2>7 DEF k, format
<1>7. CASE feed.format = "pgoutput"
  <2>1. change.kind # "update" /\ messages \in PgOutputMessages(change)
    BY <1>7 DEF Parsed, MessagesOf
  <2>2. /\ k = 4
        /\ \A f, row :
            /\ f.msg = messages[1] => Gain(format, f, row) = 0
            /\ f.msg = messages[2] => Gain(format, f, row) = 0
            /\ f.msg = messages[3] => Gain(format, f, row) = Gained(format, change, row)
            /\ f.msg = messages[4] => Gain(format, f, row) = 0
    BY <1>7, <2>1, PgOutputGains
  <2>3. format # "debezium"
    BY <1>7
  <2> HIDE DEF k, format
  <2>4. /\ u[n + 1].msg = messages[1] /\ u[n + 2].msg = messages[2]
        /\ u[n + 3].msg = messages[3] /\ u[n + 4].msg = messages[4]
    BY <1>3, <2>2
  <2>5. ASSUME NEW row PROVE W(n + 4, row) = W(n, row) + Gained(format, change, row)
    <3>1. /\ Gain(format, u[n + 1], row) = 0 /\ Gain(format, u[n + 2], row) = 0
          /\ Gain(format, u[n + 3], row) = Gained(format, change, row)
          /\ Gain(format, u[n + 4], row) = 0
        BY <2>2, <2>4
    <3> QED
        BY <1>0, <1>2, <3>1
  <2>6. \A j \in 1..k : format = "debezium" \/ j = k =>
            \A row : W(n + j, row) = W(n, row) + Gained(format, change, row)
    BY <2>2, <2>3, <2>5
  <2> QED
    BY <1>4, <2>2, <2>6 DEF k, format
<1>8. feed.format \in Formats
    BY FeedAssumption
<1> QED
    BY <1>5, <1>6, <1>7, <1>8 DEF Formats

LEMMA CopyAfterChange ==
    ASSUME TimeInv, CopyInv, IsZSet(copy), NEW change \in ChangesOf(table), Change(change)
    PROVE  CopyInv'
<1> SUFFICES ASSUME Parsed
             PROVE  CopyRight(feed.format, stream', reflected, copy, After(change))
    BY DEF CopyInv, Parsed, Change, After, CopyRight, Keyed
<1> DEFINE after == After(change)
           time == IF change.kind = "delete" THEN newest ELSE change.new[TimeColumn]
           u == stream'
           n == Len(stream)
<1>1. CopyRight(feed.format, stream, reflected, copy, table) /\ Keyed(table)
    BY DEF CopyInv, CopyRight
<1>2. /\ Keyed(after)
      /\ change.kind \in {"insert", "update", "delete"}
      /\ change.kind \in feed.changes
      /\ Moves(feed.format, change, table, after)
    BY <1>1, TableMoves DEF Moves, Change
<1>3. PICK messages \in MessagesOf(change) :
        u = stream \o Framed(messages, change, time, after)
    BY DEF Change, After
<1>4. feed \in Feeds
    BY DEF TimeInv, StreamType
<1>5. IsSequence(messages)
    BY <1>2, <1>4, MessagesAreSequences DEF IsSequence
<1>6. IsSequence(stream)
    BY DEF TimeInv, StreamType, IsSequence
<1> DEFINE k == Len(messages)
<1> HIDE DEF after, time, u
<1>7. /\ n \in Nat /\ k \in Nat /\ Len(u) = n + k
      /\ \A i \in 1..n : u[i] = stream[i]
      /\ Carries(u, n, messages)
      /\ \A j \in 1..k : /\ u[n + j].after = after
                         /\ u[n + j].last <=> j = k
  <2>1. Grows(stream, messages, after, u)
    BY <1>3, <1>5, <1>6, StreamGrows
  <2> QED
    BY <2>1 DEF Grows
<1>8. k \in Nat \ {0} /\ Brings(feed.format, u, n, k, table, after)
    BY <1>2, <1>4, <1>7, ChangeBrings
<1>9. \A row : /\ NumberOf(feed.format, table, row) \in Int
               /\ NumberOf(feed.format, after, row) \in Int
  <2>1. \A row : Gained(feed.format, change, row) \in Int
    BY DEF Gained, Same
  <2> QED
    BY <1>2, <2>1 DEF Moves
<1> HIDE DEF n, k
<1>10. n = Len(stream)
    BY DEF n
<1>11. CopyRight(feed.format, u, reflected, copy, after)
  <2>1. Keyed(after)
    BY <1>2
  <2> QED
    BY <1>1, <1>7, <1>8, <1>9, <1>10, <2>1, CopyGrows, Zenon
<1> QED
    BY <1>11 DEF u, after

LEMMA CopyAfterNoise ==
    ASSUME TimeInv, CopyInv, IsZSet(copy), NEW msg \in Noise, NoiseArrives(msg)
    PROVE  CopyInv'
<1> SUFFICES ASSUME Parsed
             PROVE  CopyRight(feed.format, stream', reflected, copy, table)
    BY DEF CopyInv, Parsed, NoiseArrives, CopyRight, Keyed
<1> DEFINE u == stream'
           n == Len(stream)
           messages == <<msg>>
<1>1. CopyRight(feed.format, stream, reflected, copy, table) /\ Keyed(table)
    BY DEF CopyInv, CopyRight
<1>2. u = stream \o Framed(messages, NoColumns, newest, table)
    BY DEF NoiseArrives
<1>3. feed.format = "debezium"
    BY DEF NoiseArrives
<1>4. IsSequence(stream)
    BY DEF TimeInv, StreamType, IsSequence
<1>5. IsSequence(messages) /\ Len(messages) = 1 /\ messages[1] = msg
  <2>1. messages \in Seq({msg})
    OBVIOUS
  <2> QED
    BY <2>1 DEF IsSequence
<1> HIDE DEF u, messages
<1>6. /\ n \in Nat /\ Len(u) = n + 1
      /\ \A i \in 1..n : u[i] = stream[i]
      /\ \A j \in 1..1 : /\ u[n + j].msg = messages[j]
                         /\ u[n + j].after = table
                         /\ u[n + j].last <=> j = 1
  <2>1. Grows(stream, messages, table, u)
    BY <1>2, <1>4, <1>5, StreamGrows
  <2> QED
    BY <1>5, <2>1 DEF Grows, Carries
<1>7. \A row : NumberOf(feed.format, table, row) \in Int
  <2> SUFFICES ASSUME NEW row PROVE NumberOf(feed.format, table, row) \in Int
    OBVIOUS
  <2> DEFINE A == {r \in table : ArrivedAs(feed.format, r) = row}
  <2>1. IsFiniteSet(A)
    BY <1>1, FS_Subset DEF Keyed
  <2>2. Cardinality(A) \in Int
    BY <2>1, FS_CardinalityType
  <2> QED
    BY <2>2 DEF NumberOf
<1>8. \A row : Gain("debezium", u[n + 1], row) = 0
  <2>1. u[n + 1].msg = msg
    BY <1>5, <1>6
  <2>2. msg.op = "malformed" \/ (msg.op = "m" /\ CdcOp(msg) = "m")
    BY DEF Noise, CdcOp
  <2> QED
    BY <2>1, <2>2 DEF Gain, CdcGain
<1> HIDE DEF n
<1>9. Brings(feed.format, u, n, 1, table, table)
  <2> SUFFICES ASSUME NEW j \in 1..1, NEW row
               PROVE  Weight(DeltaAs("debezium", u, n + j), row) =
                        Weight(DeltaAs("debezium", u, n), row)
                            + (NumberOf(feed.format, table, row)
                                - NumberOf(feed.format, table, row))
    BY <1>3 DEF Brings
  <2>1. /\ Weight(DeltaAs("debezium", u, n + 1), row) =
                Weight(DeltaAs("debezium", u, n), row) + Gain("debezium", u[n + 1], row)
        /\ Weight(DeltaAs("debezium", u, n), row) \in Int
    BY <1>6, NextGain
  <2>2. j = 1
    OBVIOUS
  <2> QED
    BY <1>7, <1>8, <2>1, <2>2
<1>10. n = Len(stream) /\ 1 \in Nat \ {0}
    BY DEF n
<1>11. CopyRight(feed.format, u, reflected, copy, table)
    BY <1>1, <1>6, <1>7, <1>9, <1>10, CopyGrows
<1> QED
    BY <1>11 DEF u

LEMMA CopyInit == WindowedInit => CopyInv
<1> SUFFICES ASSUME WindowedInit
             PROVE  CopyRight(feed.format, stream, reflected, copy, table)
    BY DEF CopyInv
<1>1. /\ table = {} /\ stream = <<>> /\ copy = Empty /\ reflected = {}
    BY DEF WindowedInit, FeedInit
<1>2. Keyed({}) /\ Len(stream) = 0
    BY <1>1, FS_EmptySet DEF Keyed
<1>3. \A row : NumberOf(feed.format, {}, row) = 0
  <2> SUFFICES ASSUME NEW row PROVE NumberOf(feed.format, {}, row) = 0
    OBVIOUS
  <2>1. {r \in {} : ArrivedAs(feed.format, r) = row} = {}
    OBVIOUS
  <2> QED
    BY <2>1, FS_EmptySet DEF NumberOf
<1>4. Reflects(feed.format, stream, reflected, copy, 0)
  <2>1. DeltaAs(feed.format, stream, 0) = Empty /\ TableAt(stream, reflected, 0) = {}
    BY <1>1, DeltaSteps DEF TableAt
  <2>2. \A row : Weight(Empty, row) + Weight(Empty, row) = NumberOf(feed.format, {}, row)
    BY <1>3, EmptyIsZSet
  <2> QED
    BY <1>1, <2>1, <2>2 DEF Reflects
<1>5. TableAt(stream, reflected, 0) = {} /\ IsFiniteSet({}) /\ MayCut(feed.format, stream, 0)
    BY <1>1, FS_EmptySet DEF TableAt, MayCut
<1>6. ASSUME NEW i \in 0..Len(stream)
      PROVE  /\ IsFiniteSet(TableAt(stream, reflected, i))
             /\ MayCut(feed.format, stream, i) =>
                    Reflects(feed.format, stream, reflected, copy, i)
  <2>1. i = 0
    BY <1>2
  <2> QED
    BY <1>4, <1>5, <2>1
<1> QED
    BY <1>1, <1>2, <1>5, <1>6 DEF CopyRight

LEMMA CopyNext ==
    TimeInv /\ IsZSet(copy) /\ CopyInv /\ [WindowedNext]_windowedVars => CopyInv'
<1> SUFFICES ASSUME TimeInv, IsZSet(copy), CopyInv, [WindowedNext]_windowedVars
             PROVE  CopyInv'
    OBVIOUS
<1>1. CASE UNCHANGED windowedVars
    BY <1>1 DEF windowedVars, feedVars, CopyInv, Parsed, CopyRight, Keyed
<1>2. ASSUME NEW change \in ChangesOf(table), Change(change) PROVE CopyInv'
    BY <1>2, CopyAfterChange
<1>3. ASSUME NEW msg \in Noise, NoiseArrives(msg) PROVE CopyInv'
    BY <1>3, CopyAfterNoise
<1>4. ASSUME NEW n \in PollSizes, NEW otherDelta, PollAndApply(n, otherDelta)
      PROVE  CopyInv'
    BY <1>4, CopyPolls DEF PollAndApply
<1> QED
    BY <1>1, <1>2, <1>3, <1>4 DEF WindowedNext, TableChanges

\* The copy that the deltas of a Debezium topic or of a slot (JSON messages, or
\* pgoutput messages of inserts and deletes) add up to is after every poll the
\* table after the last change polled: no row is missing, left over or of
\* negative weight, wherever the polls cut the stream and whatever it holds
\* besides changes.  (A run finds that pgoutput's updates break it.)
THEOREM CopyIsAPastTable ==
    WindowedSpec => [](Parsed => CopyIsPastTable)
<1>1. ASSUME WindowInv, CopyInv, TimeInv, Parsed PROVE CopyIsPastTable
  <2> DEFINE image == Image(reflected)
             rows == {Arrived(r) : r \in reflected}
  <2>1. IsZSet(copy)
    BY <1>1 DEF WindowInv
  <2>2. \A row : Arrived(row) = ArrivedAs(feed.format, row)
    BY <1>1 DEF Arrived, ArrivedAs, Typed, JsonTyped, Numbered, Numbers
  <2>3. /\ IsFiniteSet(reflected)
        /\ \A row : Weight(copy, row) = NumberOf(feed.format, reflected, row)
    <3>1. 0 \in 0..Len(stream) /\ MayCut(feed.format, stream, 0)
        BY <1>1 DEF MayCut, TimeInv, StreamType
    <3>2. /\ Reflects(feed.format, stream, reflected, copy, 0)
          /\ IsFiniteSet(TableAt(stream, reflected, 0))
        BY <1>1, <3>1 DEF CopyInv, CopyRight
    <3>3. /\ TableAt(stream, reflected, 0) = reflected
          /\ \A row : Weight(DeltaAs(feed.format, stream, 0), row) = 0
        BY DeltaSteps, EmptyIsZSet DEF TableAt
    <3>4. \A row : Weight(copy, row) \in Int
        BY <2>1, WeightType
    <3> QED
        BY <3>2, <3>3, <3>4 DEF Reflects
  <2> HIDE DEF rows
  <2>4. ASSUME NEW row
        PROVE  /\ Cardinality({r \in reflected : Arrived(r) = row}) =
                    NumberOf(feed.format, reflected, row)
               /\ row \in rows <=> NumberOf(feed.format, reflected, row) # 0
    <3> DEFINE A == {r \in reflected : ArrivedAs(feed.format, r) = row}
    <3>1. {r \in reflected : Arrived(r) = row} = A
        BY <2>2
    <3>2. NumberOf(feed.format, reflected, row) = Cardinality(A)
        BY DEF NumberOf
    <3>3. IsFiniteSet(A) /\ (A # {} <=> row \in rows)
        BY <2>2, <2>3, FS_Subset DEF rows
    <3> HIDE DEF A
    <3>4. Cardinality(A) = 0 <=> A = {}
        BY <3>3, FS_EmptySet
    <3> QED
        BY <3>1, <3>2, <3>3, <3>4
  <2>5. DOMAIN copy = rows
    BY <2>1, <2>3, <2>4, WeightType
  <2>6. \A row \in rows : copy[row] = NumberOf(feed.format, reflected, row)
    BY <2>3, <2>5 DEF Weight
  <2>7. copy = [row \in rows |-> copy[row]]
    BY <2>1, <2>5 DEF IsZSet
  <2>8. image = [row \in rows |-> NumberOf(feed.format, reflected, row)]
    BY <2>4 DEF Image, rows
  <2>9. copy = image
    BY <2>6, <2>7, <2>8
  <2> QED
    BY <2>9 DEF CopyIsPastTable
<1>2. WindowInv => IsZSet(copy)
    BY DEF WindowInv
<1> QED
    BY <1>1, <1>2, CopyInit, CopyNext, WindowedInvariant, PTL DEF WindowedSpec
=============================================================================
