------------------------- MODULE PgPipelineProofs -------------------------
(***************************************************************************)
(* Theorems about PgPipeline, for any transactions of the source and any   *)
(* parameters of the producer, the loop and the checkpoints.               *)
(***************************************************************************)
EXTENDS PgPipeline, CheckpointManagerProofs, FiniteSetTheorems

(***************************************************************************)
(* The events of the source.  Every event belongs to a transaction: the    *)
(* transactions that end before event i are the first ones, and the next   *)
(* one is its transaction.                                                 *)
(***************************************************************************)
LEMMA InitialSegment ==
    ASSUME NEW n \in Nat, NEW S \in SUBSET (1..n),
           \A x \in S : 1..x \subseteq S
    PROVE  \E k \in 0..n : S = 1..k
<1> DEFINE k == Cardinality(S)
<1>1. IsFiniteSet(1..n) /\ Cardinality(1..n) = n
    BY FS_Interval
<1>2. IsFiniteSet(S) /\ k \in Nat /\ k <= n
    BY <1>1, FS_Subset, FS_CardinalityType
<1> HIDE DEF k
<1>3. ASSUME NEW x \in S PROVE x \in 1..k
  <2>1. x \in Nat /\ x >= 1 /\ 1..x \subseteq S
    OBVIOUS
  <2>2. Cardinality(1..x) = x
    BY <2>1, FS_Interval
  <2>3. Cardinality(1..x) <= k
    BY <1>2, <2>1, FS_Subset DEF k
  <2> QED
    BY <1>2, <2>1, <2>2, <2>3
<1>4. IsFiniteSet(1..k) /\ Cardinality(1..k) = k
    BY <1>2, FS_Interval
<1>5. S \in SUBSET (1..k)
    BY <1>3
<1>6. S = 1..k
    BY <1>4, <1>5, FS_Subset DEF k
<1> QED
    BY <1>2, <1>6

\* The part of the assumption that is about the transactions' changes.
LEMMA TxnEnds ==
    /\ MaxTxns \in Nat \ {0}
    /\ TxnEnd \in [0..MaxTxns -> Nat] /\ TxnEnd[0] = 0
    /\ \A s, t \in 0..MaxTxns : s < t => TxnEnd[s] < TxnEnd[t]
BY PgAssumption

LEMMA EventHasTxn ==
    ASSUME NEW i \in 1..TxnEnd[MaxTxns]
    PROVE  \E t \in Txns : TxnEnd[t - 1] < i /\ i <= TxnEnd[t]
<1> DEFINE before == {t \in 1..MaxTxns : TxnEnd[t] < i}
<1>1. MaxTxns \in Nat /\ MaxTxns >= 1 /\ TxnEnd[MaxTxns] \in Nat
    BY PgAssumption
<1>2. ASSUME NEW t \in before, NEW s \in 1..t PROVE s \in before
  <2>1. s \in 1..MaxTxns /\ t \in 1..MaxTxns /\ (s < t \/ s = t)
    BY <1>1
  <2>2. TxnEnd[s] <= TxnEnd[t] /\ TxnEnd[s] \in Nat /\ TxnEnd[t] \in Nat
    BY <2>1, PgAssumption
  <2> QED
    BY <1>1, <2>1, <2>2
<1>3. PICK k \in 0..MaxTxns : before = 1..k
  <2>1. before \in SUBSET (1..MaxTxns)
    OBVIOUS
  <2>2. \A t \in before : 1..t \subseteq before
    BY <1>2
  <2> HIDE DEF before
  <2> QED
    BY <1>1, <2>1, <2>2, InitialSegment
<1>4. k # MaxTxns
    BY <1>1, <1>3
<1>5. k + 1 \in 1..MaxTxns /\ k + 1 \notin before /\ (k = 0 \/ k \in before)
    BY <1>1, <1>3, <1>4
<1>6. TxnEnd[k] < i /\ i <= TxnEnd[k + 1]
    BY <1>1, <1>5, PgAssumption
<1> QED
    BY <1>1, <1>5, <1>6 DEF Txns

\* What an event is, and which events come next to each other.
First(ev) ==
    /\ ev[2] \in {0, 1}
    /\ ev[2] = 0 => \A ch \in Changes : ch[1] # ev[1]

Follows(a, b) ==
    IF a[2] = 0
       THEN a[1] < b[1] /\ First(b)
       ELSE /\ b[1] = a[1]
            /\ \/ b[2] = a[2] + 1
               \/ b[2] = 0 /\ \A ch \in Changes : ch[1] = a[1] => ch[2] <= a[2]

\* An earlier and a later event of a stream.
Before(a, b) == a[1] <= b[1] /\ (a[2] = 0 => a[1] < b[1])

LEMMA EventFacts ==
    ASSUME NEW i \in 1..TxnEnd[MaxTxns]
    PROVE  /\ Event(i) \in Changes \cup Commits
           /\ Event(i)[1] = EventTxn(i)
           /\ EventTxn(i) \in Txns
           /\ TxnEnd[EventTxn(i) - 1] < i /\ i <= TxnEnd[EventTxn(i)]
           /\ Event(i)[2] = IF i = TxnEnd[EventTxn(i)]
                               THEN 0 ELSE i - TxnEnd[EventTxn(i) - 1]
<1>1. /\ EventTxn(i) \in Txns
      /\ TxnEnd[EventTxn(i) - 1] < i /\ i <= TxnEnd[EventTxn(i)]
    BY EventHasTxn DEF EventTxn
<1> DEFINE t == EventTxn(i)
           c == IF i = TxnEnd[t] THEN 0 ELSE i - TxnEnd[t - 1]
<1>2. Event(i) = <<t, c>>
    BY DEF Event
<1> HIDE DEF t
<1>3. /\ t \in Txns /\ TxnEnd[t - 1] < i /\ i <= TxnEnd[t]
      /\ TxnEnd[t] \in Nat /\ TxnEnd[t - 1] \in Nat
    BY <1>1, PgAssumption DEF t, Txns
<1>4. CASE i = TxnEnd[t]
    BY <1>2, <1>3, <1>4 DEF Commits, t
<1>5. CASE i # TxnEnd[t]
  <2>1. c \in 1..TxnEnd[MaxTxns] /\ c <= TxnSize(t)
    BY <1>3, <1>5, TxnEnds DEF TxnSize
  <2>2. <<t, c>> \in Changes
    BY <1>3, <2>1 DEF Changes
  <2> QED
    BY <1>2, <1>3, <2>2 DEF t
<1> QED
    BY <1>4, <1>5

\* TxnEnd is increasing, in both directions of the argument.
LEMMA EndsGrow ==
    ASSUME NEW s \in 0..MaxTxns, NEW t \in 0..MaxTxns
    PROVE  /\ TxnEnd[s] \in Nat
           /\ s <= t => TxnEnd[s] <= TxnEnd[t]
           /\ TxnEnd[s] < TxnEnd[t] => s < t
<1>1. TxnEnd[s] \in Nat /\ TxnEnd[t] \in Nat
    BY PgAssumption
<1>2. /\ s < t => TxnEnd[s] < TxnEnd[t]
      /\ t < s => TxnEnd[t] < TxnEnd[s]
    BY PgAssumption
<1>3. s < t \/ s = t \/ t < s
    OBVIOUS
<1> QED
    BY <1>1, <1>2, <1>3

LEMMA TxnBounds ==
    ASSUME NEW t \in Txns
    PROVE  /\ t \in 0..MaxTxns /\ t - 1 \in 0..MaxTxns /\ t \in Int
           /\ TxnEnd[t] \in 1..TxnEnd[MaxTxns] /\ TxnEnd[t - 1] \in Nat
           /\ TxnEnd[t - 1] < TxnEnd[t] /\ TxnEnd[MaxTxns] \in Nat
<1>1. /\ t \in 0..MaxTxns /\ t - 1 \in 0..MaxTxns /\ t \in Int /\ t - 1 < t
      /\ MaxTxns \in 0..MaxTxns /\ t <= MaxTxns
    BY PgAssumption DEF Txns
<1>2. TxnEnd[t - 1] < TxnEnd[t] /\ TxnEnd[t - 1] \in Nat /\ TxnEnd[t] \in Nat
    BY <1>1, PgAssumption
<1>3. TxnEnd[t] <= TxnEnd[MaxTxns] /\ TxnEnd[MaxTxns] \in Nat
    BY <1>1, EndsGrow
<1> QED
    BY <1>1, <1>2, <1>3

LEMMA TxnIsUnique ==
    ASSUME NEW i \in 1..TxnEnd[MaxTxns], NEW t \in Txns,
           TxnEnd[t - 1] < i, i <= TxnEnd[t]
    PROVE  EventTxn(i) = t
<1> DEFINE u == EventTxn(i)
<1>1. u \in Txns /\ TxnEnd[u - 1] < i /\ i <= TxnEnd[u]
    BY EventFacts
<1> HIDE DEF u
<1>2. TxnEnd[t - 1] < TxnEnd[u] /\ TxnEnd[u - 1] < TxnEnd[t]
    BY <1>1, TxnBounds
<1>3. t - 1 < u /\ u - 1 < t
    BY <1>1, <1>2, TxnBounds, EndsGrow
<1>4. u = t
    BY <1>1, <1>3, TxnBounds
<1> QED
    BY <1>4 DEF u

\* The first event after the end of a transaction.
LEMMA FirstEvent ==
    ASSUME NEW t \in Txns
    PROVE  /\ TxnEnd[t - 1] + 1 \in 1..TxnEnd[MaxTxns]
           /\ EventTxn(TxnEnd[t - 1] + 1) = t
           /\ First(Event(TxnEnd[t - 1] + 1))
<1> DEFINE i == TxnEnd[t - 1] + 1
<1>1. i \in 1..TxnEnd[MaxTxns] /\ TxnEnd[t - 1] < i /\ i <= TxnEnd[t]
    BY TxnBounds
<1>2. EventTxn(i) = t
    BY <1>1, TxnIsUnique
<1>3. /\ Event(i)[1] = t
      /\ Event(i)[2] = IF i = TxnEnd[t] THEN 0 ELSE i - TxnEnd[t - 1]
    BY <1>1, <1>2, EventFacts
<1>4. First(Event(i))
  <2>1. Event(i)[2] \in {0, 1}
    BY <1>3, TxnBounds
  <2>2. ASSUME Event(i)[2] = 0, NEW ch \in Changes, ch[1] = t PROVE FALSE
    <3>1. i = TxnEnd[t]
        BY <1>3, <2>2, TxnBounds
    <3>2. TxnSize(t) = 0
        BY <3>1, TxnBounds DEF TxnSize
    <3> QED
        BY <2>2, <3>2 DEF Changes
  <2> QED
    BY <1>3, <2>1, <2>2 DEF First
<1> QED
    BY <1>1, <1>2, <1>4

LEMMA CommitEvent ==
    ASSUME NEW t \in Txns
    PROVE  EventTxn(TxnEnd[t]) = t /\ Event(TxnEnd[t])[2] = 0
<1>1. EventTxn(TxnEnd[t]) = t
    BY TxnBounds, TxnIsUnique
<1> QED
    BY <1>1, TxnBounds, EventFacts

LEMMA EventsAreOrdered ==
    ASSUME NEW i \in 1..TxnEnd[MaxTxns], NEW j \in 1..TxnEnd[MaxTxns], i < j
    PROVE  Before(Event(i), Event(j))
<1> DEFINE t == EventTxn(i)
           u == EventTxn(j)
<1>1. /\ t \in Txns /\ TxnEnd[t - 1] < i /\ i <= TxnEnd[t]
      /\ u \in Txns /\ TxnEnd[u - 1] < j /\ j <= TxnEnd[u]
      /\ Event(i)[1] = t /\ Event(j)[1] = u
      /\ Event(i)[2] = IF i = TxnEnd[t] THEN 0 ELSE i - TxnEnd[t - 1]
    BY EventFacts
<1> HIDE DEF t, u
<1>2. TxnEnd[t - 1] < TxnEnd[u] /\ (i = TxnEnd[t] => TxnEnd[t] < TxnEnd[u])
    BY <1>1, TxnBounds
<1>3. t - 1 < u /\ (i = TxnEnd[t] => t < u)
    BY <1>1, <1>2, TxnBounds, EndsGrow
<1>4. t <= u
    BY <1>1, <1>3, TxnBounds
<1>5. Event(i)[2] = 0 => i = TxnEnd[t]
    BY <1>1, TxnBounds
<1> QED
    BY <1>1, <1>3, <1>4, <1>5 DEF Before

LEMMA EventsFollow ==
    ASSUME NEW i \in 1..TxnEnd[MaxTxns], i + 1 \in 1..TxnEnd[MaxTxns]
    PROVE  Follows(Event(i), Event(i + 1))
<1> DEFINE t == EventTxn(i)
<1>1. /\ t \in Txns /\ TxnEnd[t - 1] < i /\ i <= TxnEnd[t]
      /\ Event(i)[1] = t
      /\ Event(i)[2] = IF i = TxnEnd[t] THEN 0 ELSE i - TxnEnd[t - 1]
    BY EventFacts
<1> HIDE DEF t
<1>2. CASE i = TxnEnd[t]
  <2>1. t + 1 \in Txns /\ (t + 1) - 1 = t
    <3>1. TxnEnd[t] < TxnEnd[MaxTxns]
        BY <1>1, <1>2, TxnBounds
    <3>2. t < MaxTxns
        BY <1>1, <3>1, TxnBounds, EndsGrow, PgAssumption
    <3> QED
        BY <1>1, <3>2, PgAssumption DEF Txns
  <2>2. /\ EventTxn(i + 1) = t + 1
        /\ First(Event(i + 1))
    BY <1>2, <2>1, FirstEvent
  <2>3. Event(i + 1)[1] = t + 1
    BY <2>2, EventFacts
  <2> QED
    BY <1>1, <1>2, <2>1, <2>2, <2>3 DEF Follows, Txns
<1>3. CASE i # TxnEnd[t]
  <2>1. TxnEnd[t - 1] < i + 1 /\ i + 1 <= TxnEnd[t]
    BY <1>1, <1>3, TxnBounds
  <2>2. EventTxn(i + 1) = t
    BY <1>1, <2>1, TxnIsUnique
  <2>3. /\ Event(i + 1)[1] = t
        /\ Event(i + 1)[2] = IF i + 1 = TxnEnd[t] THEN 0
                                                 ELSE (i + 1) - TxnEnd[t - 1]
    BY <2>2, EventFacts
  <2>4. Event(i)[2] = i - TxnEnd[t - 1] /\ Event(i)[2] # 0
    BY <1>1, <1>3, TxnBounds
  <2>5. CASE i + 1 = TxnEnd[t]
    <3>1. TxnSize(t) = Event(i)[2]
        BY <1>1, <2>4, <2>5, TxnBounds DEF TxnSize
    <3>2. \A ch \in Changes : ch[1] = t => ch[2] <= Event(i)[2]
        BY <3>1 DEF Changes
    <3> QED
        BY <1>1, <2>3, <2>4, <2>5, <3>2 DEF Follows
  <2>6. CASE i + 1 # TxnEnd[t]
    <3>1. Event(i + 1)[2] = Event(i)[2] + 1
        BY <1>1, <2>3, <2>4, <2>6, TxnBounds
    <3> QED
        BY <1>1, <2>3, <2>4, <3>1 DEF Follows
  <2> QED
    BY <2>5, <2>6
<1> QED
    BY <1>2, <1>3

\* The events a poll returns are whole transactions in the order of the WAL.
LEMMA EventsAreWhole ==
    ASSUME NEW from \in 0..MaxTxns, NEW to \in 0..MaxTxns, from < to,
           NEW s, s = Events(from, to)
    PROVE  /\ s \in Seq(Changes \cup Commits) /\ Len(s) \in Nat \ {0}
           /\ \A i \in 1..Len(s) : from < s[i][1] /\ s[i][1] <= to
           /\ \A i, j \in 1..Len(s) : i < j => Before(s[i], s[j])
           /\ \A i \in 1..(Len(s) - 1) : Follows(s[i], s[i + 1])
           /\ First(s[1]) /\ s[Len(s)][2] = 0
<1> DEFINE b == TxnEnd[from]
           n == TxnEnd[to] - TxnEnd[from]
<1>1. /\ from \in Int /\ to \in Txns /\ from + 1 \in Txns
      /\ (from + 1) - 1 = from /\ MaxTxns \in 0..MaxTxns /\ to <= MaxTxns
    BY PgAssumption DEF Txns
<1>2. b \in Nat /\ n \in Nat \ {0} /\ b + n = TxnEnd[to]
  <2>1. b \in Nat /\ TxnEnd[to] \in Nat /\ b < TxnEnd[to]
    BY PgAssumption
  <2> QED
    BY <2>1
<1>3. TxnEnd[to] <= TxnEnd[MaxTxns] /\ TxnEnd[MaxTxns] \in Nat
    BY <1>1, EndsGrow
<1>4. s = [i \in 1..n |-> Event(b + i)]
    BY DEF Events
<1> HIDE DEF b, n
<1>5. ASSUME NEW i \in 1..n
      PROVE  /\ b + i \in 1..TxnEnd[MaxTxns] /\ b < b + i /\ b + i <= TxnEnd[to]
             /\ s[i] = Event(b + i)
             /\ b + (i + 1) = (b + i) + 1
    BY <1>2, <1>3, <1>4
<1>6. s \in Seq(Changes \cup Commits) /\ Len(s) = n
  <2>1. \A i \in 1..n : Event(b + i) \in Changes \cup Commits
    BY <1>5, EventFacts
  <2> QED
    BY <1>2, <1>4, <2>1
<1>7. ASSUME NEW i \in 1..n PROVE from < s[i][1] /\ s[i][1] <= to
  <2> DEFINE t == EventTxn(b + i)
  <2>1. /\ s[i][1] = t /\ t \in Txns
        /\ TxnEnd[t - 1] < b + i /\ b + i <= TxnEnd[t]
    BY <1>5, EventFacts
  <2> HIDE DEF t
  <2>2. TxnEnd[from] < TxnEnd[t] /\ TxnEnd[t - 1] < TxnEnd[to]
    BY <1>1, <1>2, <1>5, <2>1, TxnBounds DEF b
  <2>3. from < t /\ t - 1 < to
    BY <2>1, <2>2, TxnBounds, EndsGrow
  <2>4. t \in Int /\ to \in Int
    BY <2>1, TxnBounds
  <2>5. from < t /\ t <= to
    BY <2>3, <2>4
  <2> QED
    BY <2>1, <2>5
<1>8. ASSUME NEW i \in 1..n, NEW j \in 1..n, i < j PROVE Before(s[i], s[j])
  <2>1. b + i < b + j
    BY <1>2, <1>8
  <2> QED
    BY <1>5, <2>1, EventsAreOrdered
<1>9. ASSUME NEW i \in 1..(n - 1) PROVE Follows(s[i], s[i + 1])
  <2>1. i \in 1..n /\ i + 1 \in 1..n
    BY <1>2
  <2> QED
    BY <1>5, <2>1, EventsFollow
<1>10. First(s[1])
  <2>1. 1 \in 1..n /\ s[1] = Event(b + 1)
    BY <1>2, <1>5
  <2> QED
    BY <1>1, <2>1, FirstEvent DEF b
<1>11. s[n][2] = 0
  <2>1. n \in 1..n /\ s[n] = Event(TxnEnd[to])
    BY <1>2, <1>5
  <2> QED
    BY <1>1, <2>1, CommitEvent
<1> QED
    BY <1>2, <1>6, <1>7, <1>8, <1>9, <1>10, <1>11

-----------------------------------------------------------------------------
(***************************************************************************)
(* Type correctness.  The .tmp file a rename is about to promote is the    *)
(* one save_tmp has completed; a producer's slot exists.                   *)
(***************************************************************************)
TaskPCs == {"loop", "apply", "save", "commit", "confirm", "ack"}

SavedView == pc \in {"commit", "confirm"} => tmp[TxnEpoch(txn)] = acc

TypeInv ==
    /\ TypeOK
    /\ pc \in TaskPCs \ {"loop"} => txn \in Txns
    /\ pc \in TaskPCs => slot # NoSlot
    /\ prod # "none" => pc \in TaskPCs
    /\ prod # "polling" => buf = <<>> /\ chan = <<>>
    /\ SavedView /\ HasLatest

LEMMA EpochTypes ==
    /\ 0 \in Epochs
    /\ \A t \in Txns : TxnEpoch(t) \in Epochs
    BY PgEpochs

LEMMA NoEvents ==
    <<>> \in Seq(Changes \cup Commits) /\ Len(<<>>) <= ChanCap
    BY PgAssumption

LEMMA TxnRange == 0 \in 0..MaxTxns /\ \A t \in Txns : t \in 0..MaxTxns
    BY PgAssumption DEF Txns

LEMMA ZeroType == Zero \in Views
    BY DEF Zero, Views

LEMMA PlusType ==
    ASSUME NEW v \in Views, NEW S
    PROVE  Plus(v, S) \in Views
    BY DEF Views, Plus

\* The file a restart reads is a view, unless it is torn.
LEMMA CopyType ==
    ASSUME TypeInv
    PROVE  /\ Saved = {} => Durable = NoFile
           /\ Saved # {} => Durable = final[LatestEpoch]
           /\ Saved # {} /\ Durable # Torn => Durable \in Views
           /\ Saved # {} => LatestEpoch \in Epochs /\ Durable # NoFile
<1>1. CASE Saved # {}
  <2>1. LatestEpoch \in Epochs /\ final[LatestEpoch] # NoFile
    BY <1>1, LatestIsSaved DEF TypeInv, Saved
  <2> QED
    BY <1>1, <2>1 DEF TypeInv, TypeOK, Durable
<1>2. CASE Saved = {}
    BY <1>2 DEF Durable
<1> QED
    BY <1>1, <1>2

\* The .tmp file that is renamed holds the view.
LEMMA RenamedFile ==
    ASSUME TypeInv, ConfirmPhase
    PROVE  /\ TxnEpoch(txn) \in Epochs
           /\ final' = [final EXCEPT ![TxnEpoch(txn)] = acc]
           /\ HasLatest' /\ Saved' # {}
           /\ \/ Durable' = acc
              \/ Saved # {} /\ Durable' = Durable
<1>1. /\ HasLatest /\ TxnEpoch(txn) \in Epochs /\ acc \in Views
      /\ final \in [Epochs -> Views \cup {NoFile, Torn}]
      /\ final' = [final EXCEPT ![TxnEpoch(txn)] = acc]
    BY EpochTypes
       DEF TypeInv, TypeOK, SavedView, ConfirmPhase, Confirm, TaskPCs
<1>2. acc # NoFile
    BY <1>1, FilesAssumption
<1> QED
    BY <1>1, <1>2, WrittenCopy

\* A file the bootstrap writes when there is none is what a restart reads.
LEMMA BootstrapFile ==
    ASSUME TypeInv, NEW content, content # NoFile,
           final' = [final EXCEPT ![0] = content]
    PROVE  /\ HasLatest' /\ Saved' # {}
           /\ Saved = {} => Durable' = content
<1>1. HasLatest /\ final \in [Epochs -> Views \cup {NoFile, Torn}]
    BY DEF TypeInv, TypeOK
<1> QED
    BY <1>1, EpochTypes, WrittenCopy

LEMMA TypeInit == Init => TypeInv
<1> SUFFICES ASSUME Init PROVE TypeInv
    OBVIOUS
<1>1. TypeOK
  <2>1. /\ buf \in Seq(Changes \cup Commits)
        /\ chan \in Seq(Changes \cup Commits) /\ Len(chan) <= ChanCap
    BY NoEvents DEF Init
  <2>2. /\ final \in [Epochs -> Views \cup {NoFile, Torn}]
        /\ tmp \in [Epochs -> Views \cup {NoFile, Torn}]
        /\ \A e \in Epochs \ {0} : final[e] # Torn
        /\ acc \in Views
    BY ZeroType, FilesAssumption DEF Init, EmptyDir
  <2>3. /\ wal \in 0..MaxTxns /\ slot \in {NoSlot} \cup 0..wal
        /\ orphans \in Nat /\ txn \in 0..MaxTxns /\ snapPos \in 0..MaxTxns
        /\ faults \in 0..MaxFaults
        /\ confirmed \in Epochs /\ lastEpoch \in Epochs
    BY EpochTypes, PgAssumption DEF Init
  <2> QED
    BY <2>1, <2>2, <2>3 DEF Init, TypeOK, PCs
<1>2. HasLatest
    BY DEF Init, HasLatest, Saved, EmptyDir
<1> QED
    BY <1>1, <1>2 DEF Init, TypeInv, TaskPCs, SavedView

LEMMA TypeNext == TypeInv /\ [Next]_vars => TypeInv'
<1> SUFFICES ASSUME TypeInv, [Next]_vars PROVE TypeInv'
    OBVIOUS
<1> USE PgAssumption, FilesAssumption, EpochTypes
        DEF TypeInv, TypeOK, SavedView, PCs, TaskPCs, NoSlot,
            sourceVars, prodVars, taskVars, dirVars
<1>a. final' = final => HasLatest'
    BY SameCopy
\* The task ends, and leaves the view and the slot.
<1>b. ASSUME EndTask
      PROVE  /\ pc' = "idle" /\ prod' = "none" /\ link' \in BOOLEAN
             /\ buf' = <<>> /\ chan' = <<>>
             /\ buf' \in Seq(Changes \cup Commits)
             /\ chan' \in Seq(Changes \cup Commits) /\ Len(chan') <= ChanCap
             /\ orphans' \in Nat
             /\ pending' \subseteq Changes /\ txn' \in 0..MaxTxns
             /\ confirmed' \in Epochs
  <2>1. buf' = <<>> /\ chan' = <<>>
    BY <1>b DEF EndTask
  <2>2. orphans' \in Nat
    BY <1>b DEF EndTask
  <2>3. /\ pc' = "idle" /\ prod' = "none" /\ link' = FALSE
        /\ pending' = {} /\ txn' = 0 /\ confirmed' = 0
    BY <1>b DEF EndTask
  <2>4. 0 \in 0..MaxTxns /\ 0 \in Epochs /\ FALSE \in BOOLEAN
    BY TxnRange
  <2> QED
    BY <2>1, <2>2, <2>3, <2>4, NoEvents, Zenon
<1>c. ASSUME NEW kind, Fault(kind) PROVE faults' \in 0..MaxFaults
    BY <1>c DEF Fault
<1>f. ASSUME AcknowledgeLsn, txn \in Txns
      PROVE  slot' \in {NoSlot} \cup 0..wal /\ confirmed' \in Epochs
             /\ (slot # NoSlot => slot' # NoSlot)
  <2>1. TxnEpoch(txn) \in Epochs
    BY <1>f
  <2> QED
    BY <1>f, <2>1 DEF AcknowledgeLsn, AdvancesTo
<1>1. CASE TxnCommit
    BY <1>1, <1>a DEF TxnCommit
<1>2. CASE Start
    BY <1>2, <1>a DEF Start
<1>3. CASE Stop
    BY <1>3, <1>a, <1>c DEF Stop
<1>4. CASE Cleanup
    BY <1>4, <1>a DEF Cleanup, CleanupUncommitted, EmptyDir
<1>33. CASE CleanupFails
  <2>1. tmp' \in [Epochs -> Views \cup {NoFile, Torn}]
    BY <1>33 DEF CleanupFails, CleanupInterrupted
  <2> QED
    BY <1>33, <1>a, <1>b, <1>c, <2>1 DEF CleanupFails, CleanupInterrupted
<1>5. CASE Restore
  <2>1. CASE RestoreLatest /\ acc' = final[LatestEpoch] /\ pc' = "connect"
    <3>1. acc' \in Views /\ lastEpoch' \in Epochs
        BY <2>1, CopyType DEF RestoreLatest
    <3> QED
        BY <1>5, <2>1, <3>1, <1>a DEF Restore, RestoreLatest
  <2>2. CASE RestoreNothing /\ acc' = acc /\ pc' = "slot"
    BY <1>5, <2>2, <1>a DEF Restore, RestoreNothing
  <2> QED
    BY <1>5, <2>1, <2>2 DEF Restore
<1>6. CASE RestoreFails
    BY <1>6, <1>a, <1>b DEF RestoreFails, RestoreUnreadable
<1>34. CASE RestoreErrs
  <2>1. lastEpoch' \in Epochs
    BY <1>34, CopyType DEF RestoreErrs, RestoreInterrupted
  <2> QED
    BY <1>34, <1>a, <1>b, <1>c, <2>1 DEF RestoreErrs, RestoreInterrupted
<1>7. CASE BootSlot
    BY <1>7, <1>a DEF BootSlot
<1>8. CASE BootCopy
    BY <1>8, <1>a, PlusType DEF BootCopy
<1>9. CASE BootFails
    BY <1>9, <1>a, <1>b, <1>c DEF BootFails
<1>10. CASE Save0
    BY <1>10, BootstrapFile DEF Save0, Save
<1>11. CASE Save0Fails
  <2>1. CASE UNCHANGED <<dirVars, lastEpoch>>
    BY <1>11, <2>1, <1>a, <1>b, <1>c DEF Save0Fails
  <2>2. CASE SaveInterrupted(0)
    BY <1>11, <2>2, <1>b, <1>c, BootstrapFile DEF Save0Fails, SaveInterrupted
  <2> QED
    BY <1>11, <2>1, <2>2 DEF Save0Fails
<1>12. CASE Connect
    BY <1>12, <1>a DEF Connect
<1>13. CASE ConnectFails
    BY <1>13, <1>a, <1>b, <1>c DEF ConnectFails
<1>14. CASE ProdConnect
    BY <1>14, <1>a DEF ProdConnect
<1>15. CASE ProdConnectFails
    BY <1>15, <1>a, <1>c DEF ProdConnectFails
<1>16. CASE ProdPoll
  <2> PICK to \in (slot + 1)..wal : slot' = to /\ buf' = Events(slot, to)
    BY <1>16 DEF ProdPoll
  <2>1. slot \in 0..MaxTxns /\ to \in 0..MaxTxns /\ slot < to
    BY <1>16 DEF ProdPoll
  <2>2. buf' \in Seq(Changes \cup Commits)
    BY <2>1, EventsAreWhole
  <2> QED
    BY <1>16, <1>a, <2>1, <2>2 DEF ProdPoll
<1>17. CASE LinkBreaks
  <2>1. /\ slot' \in {NoSlot} \cup 0..wal
        /\ slot # NoSlot => slot' # NoSlot
    BY <1>17 DEF LinkBreaks
  <2> QED
    BY <1>17, <1>a, <1>c, <2>1 DEF LinkBreaks
<1>18. CASE ProdSend
  <2>1. /\ Head(buf) \in Changes \cup Commits
        /\ Tail(buf) \in Seq(Changes \cup Commits)
        /\ Append(chan, Head(buf)) \in Seq(Changes \cup Commits)
        /\ Len(Append(chan, Head(buf))) = Len(chan) + 1
    BY <1>18 DEF ProdSend
  <2>2. Len(chan) + 1 <= ChanCap
    BY <1>18 DEF ProdSend
  <2> QED
    BY <1>18, <1>a, <2>1, <2>2 DEF ProdSend
<1>19. CASE OrphanPoll
    BY <1>19, <1>a DEF OrphanPoll
<1>20. CASE LoopEnds
    BY <1>20, <1>a, <1>b DEF LoopEnds
<1>21. CASE Recv
  <2>1. /\ Head(chan) \in Changes \cup Commits
        /\ chan' \in Seq(Changes \cup Commits) /\ Len(chan') <= ChanCap
    BY <1>21 DEF Recv
  <2>2. CASE Head(chan)[2] # 0
    <3>1. Head(chan) \in Changes
        BY <2>1, <2>2 DEF Commits
    <3> QED
        BY <1>21, <1>a, <2>1, <2>2, <3>1 DEF Recv
  <2>3. CASE Head(chan)[2] = 0
    <3>1. Head(chan)[1] \in Txns
        BY <2>1 DEF Commits, Changes
    <3> QED
        BY <1>21, <1>a, <2>1, <2>3, <3>1, TxnRange DEF Recv
  <2> QED
    BY <2>2, <2>3
<1>22. CASE StreamEnds
    BY <1>22, <1>a DEF StreamEnds
<1>23. CASE Apply
    BY <1>23, <1>a, PlusType DEF Apply
<1>24. CASE SavePhase
    BY <1>24, <1>a DEF SavePhase, SaveTmp
<1>25. CASE SaveFails
    BY <1>25, <1>a, <1>b, <1>c DEF SaveFails, SaveTmpInterrupted
<1>26. CASE CommitPhase
    BY <1>26, <1>a, <1>f DEF CommitPhase
<1>27. CASE ConfirmPhase
    BY <1>27, RenamedFile DEF ConfirmPhase, Confirm
<1>28. CASE ConfirmFails
    BY <1>28, <1>a, <1>b, <1>c DEF ConfirmFails
<1>29. CASE Ack
    BY <1>29, <1>a, <1>f DEF Ack
<1>30. CASE AckFails
    BY <1>30, <1>a, <1>b, <1>c DEF AckFails
<1>31. CASE Crash
  <2>1. /\ acc' \in Views /\ faults' \in 0..MaxFaults
        /\ final' \in [Epochs -> Views \cup {NoFile, Torn}]
        /\ tmp' \in [Epochs -> Views \cup {NoFile, Torn}]
        /\ \A e \in Epochs \ {0} : final'[e] # Torn
    BY <1>31, <1>c, ZeroType DEF Crash
  <2>2. HasLatest'
    BY <1>31, <1>a, BootstrapFile DEF Crash
  <2>3. buf' = <<>> /\ chan' = <<>>
    BY <1>31 DEF Crash
  <2>4. /\ buf' \in Seq(Changes \cup Commits)
        /\ chan' \in Seq(Changes \cup Commits) /\ Len(chan') <= ChanCap
    BY <2>3, NoEvents, Zenon
  <2>5. /\ UNCHANGED <<wal, slot, snapPos>> /\ running' = FALSE
        /\ pc' = "idle" /\ prod' = "none" /\ link' = FALSE /\ orphans' = 0
        /\ pending' = {} /\ txn' = 0 /\ confirmed' = 0 /\ lastEpoch' = 0
    BY <1>31 DEF Crash
  <2>6. TypeOK'
    BY <2>1, <2>4, <2>5, TxnRange, NoEvents
  <2> QED
    BY <2>2, <2>3, <2>5, <2>6
<1>32. CASE UNCHANGED vars
    BY <1>32, <1>a DEF vars
<1> QED
    BY <1>1, <1>2, <1>3, <1>4, <1>5, <1>6, <1>7, <1>8, <1>9, <1>10, <1>11,
       <1>12, <1>13, <1>14, <1>15, <1>16, <1>17, <1>18, <1>19, <1>20, <1>21,
       <1>22, <1>23, <1>24, <1>25, <1>26, <1>27, <1>28, <1>29, <1>30, <1>31,
       <1>32, <1>33, <1>34
       DEF Next, Task, Producer, Failure

LEMMA TypeInvariant == Spec => []TypeInv
    BY TypeInit, TypeNext, PTL DEF Spec

\* Every reachable state is well typed; in particular only the bootstrap's
\* file can be torn under its final name, whichever steps fail and wherever
\* the process dies.
THEOREM TypeCorrect == Spec => []TypeOK
<1>1. TypeInv => TypeOK
    BY DEF TypeInv
<1> QED
    BY <1>1, TypeInvariant, PTL

-----------------------------------------------------------------------------
(***************************************************************************)
(* The events on their way from the slot to the view: those in the channel *)
(* and then those the producer holds.  They are whole transactions, in the *)
(* order of the WAL, but for the changes already in pending.               *)
(***************************************************************************)
N == Len(chan) + Len(buf)
At(i) == IF i <= Len(chan) THEN chan[i] ELSE buf[i - Len(chan)]

StreamIsOrdered ==
    /\ \A i \in 1..N : At(i)[1] <= slot
    /\ \A i, j \in 1..N : i < j => Before(At(i), At(j))
    /\ \A i \in 1..(N - 1) : Follows(At(i), At(i + 1))
    /\ N > 0 => At(N)[2] = 0

\* pending holds the changes up to l, and the stream goes on after l.
PendingUpTo(l) ==
    /\ pending = {ch \in Changes : ch[1] = l[1] /\ ch[2] <= l[2]}
    /\ l[1] <= slot
    /\ N > 0 /\ Follows(l, At(1))

PendingIsPrefix ==
    /\ pc \notin {"loop", "apply"} => pending = {}
    /\ pc = "apply" => /\ pending = {ch \in Changes : ch[1] = txn}
                       /\ txn <= slot
                       /\ \A i \in 1..N : txn < At(i)[1]
    /\ pc = "loop" /\ pending # {} => \E l \in pending : PendingUpTo(l)
    /\ (pc = "apply" \/ pending = {}) /\ N > 0 => First(At(1))

StreamInv == TypeInv /\ StreamIsOrdered /\ PendingIsPrefix

LEMMA EventTypes ==
    ASSUME NEW ev \in Changes \cup Commits
    PROVE  ev[1] \in Txns /\ ev[1] \in Int /\ ev[2] \in Nat
           /\ (ev[2] # 0 <=> ev \in Changes)
    BY PgAssumption DEF Changes, Commits, Txns

LEMMA StreamTypes ==
    ASSUME TypeInv
    PROVE  /\ N \in Nat /\ Len(chan) \in Nat /\ Len(buf) \in Nat
           /\ \A i \in 1..N : At(i) \in Changes \cup Commits
           /\ slot \in Int /\ txn \in Int
<1>1. /\ chan \in Seq(Changes \cup Commits) /\ buf \in Seq(Changes \cup Commits)
      /\ slot \in Int /\ txn \in Int
    BY PgAssumption DEF TypeInv, TypeOK, NoSlot
<1> QED
    BY <1>1 DEF N, At

(***************************************************************************)
(* What a step may do to the stream and the pending changes.               *)
(***************************************************************************)
StreamKept ==
    /\ UNCHANGED <<chan, buf, pending>> /\ slot <= slot'
    /\ \/ pc' = pc /\ txn' = txn
       \/ pending = {} /\ pc' # "apply"

StreamDropped ==
    /\ chan' = <<>> /\ buf' = <<>> /\ pending' = {} /\ pc' = "idle"
    /\ UNCHANGED slot

LEMMA StreamSteps ==
    ASSUME StreamInv, [Next]_vars
    PROVE  \/ StreamKept \/ StreamDropped
           \/ ProdPoll \/ ProdSend \/ Recv \/ Apply
<1> USE DEF sourceVars, prodVars, taskVars
<1>1. slot \in Int /\ slot <= slot
    BY StreamTypes DEF StreamInv
<1>2. pc \notin {"loop", "apply"} => pending = {}
    BY DEF StreamInv, PendingIsPrefix
<1>3. EndTask /\ slot' = slot => StreamDropped
    BY DEF EndTask, StreamDropped
<1>4. ASSUME UNCHANGED <<chan, buf, pending, slot, pc, txn>> PROVE StreamKept
    BY <1>1, <1>4 DEF StreamKept
<1>5. ASSUME UNCHANGED <<chan, buf, pending>>, pc \notin {"loop", "apply"},
             pc' # "apply", slot <= slot'
      PROVE  StreamKept
    BY <1>2, <1>5 DEF StreamKept
<1>6. AcknowledgeLsn => slot <= slot'
    BY <1>1, PgAssumption
       DEF AcknowledgeLsn, AdvancesTo, StreamInv, TypeInv, TypeOK
<1>7. slot = NoSlot => slot <= wal
    BY PgAssumption DEF NoSlot, StreamInv, TypeInv, TypeOK
<1>8. CASE TxnCommit
    BY <1>4, <1>8 DEF TxnCommit
<1>9. CASE Start \/ Stop
    BY <1>1, <1>2, <1>9 DEF Start, Stop, StreamKept
<1>10. CASE Cleanup \/ Restore \/ BootCopy \/ Save0
    BY <1>1, <1>5, <1>10 DEF Cleanup, Restore, BootCopy, Save0
<1>11. CASE BootSlot \/ Connect
  <2>1. slot <= slot' /\ pc \notin {"loop", "apply"} /\ pc' # "apply"
    BY <1>1, <1>7, <1>11 DEF BootSlot, Connect
  <2>2. CASE BootSlot
    BY <1>5, <2>1, <2>2 DEF BootSlot
  <2>3. CASE Connect
    BY <1>5, <2>1, <2>3 DEF Connect
  <2> QED
    BY <1>11, <2>2, <2>3
<1>12. CASE \/ CleanupFails \/ RestoreFails \/ RestoreErrs
            \/ BootFails \/ Save0Fails \/ ConnectFails
            \/ LoopEnds \/ SaveFails \/ ConfirmFails \/ AckFails
    BY <1>3, <1>12 DEF CleanupFails, RestoreFails, RestoreErrs, BootFails, Save0Fails, ConnectFails,
                       LoopEnds, SaveFails, ConfirmFails, AckFails
<1>13. CASE ProdConnect \/ ProdConnectFails \/ StreamEnds
    BY <1>4, <1>13 DEF ProdConnect, ProdConnectFails, StreamEnds
<1>14. CASE LinkBreaks \/ OrphanPoll
  <2>1. slot <= slot'
    BY <1>1, <1>14, PgAssumption
       DEF LinkBreaks, OrphanPoll, StreamInv, TypeInv, TypeOK
  <2> QED
    BY <1>14, <2>1 DEF LinkBreaks, OrphanPoll, StreamKept
<1>15. CASE SavePhase \/ ConfirmPhase
    BY <1>1, <1>5, <1>15 DEF SavePhase, ConfirmPhase
<1>16. CASE CommitPhase \/ Ack
    BY <1>5, <1>6, <1>16 DEF CommitPhase, Ack
<1>17. CASE Crash
    BY <1>17 DEF Crash, StreamDropped
<1>18. CASE UNCHANGED vars
    BY <1>4, <1>18 DEF vars
<1> QED
    BY <1>8, <1>9, <1>10, <1>11, <1>12, <1>13, <1>14, <1>15, <1>16, <1>17,
       <1>18
       DEF Next, Task, Producer, Failure

LEMMA StreamInit == Init => StreamInv
<1> SUFFICES ASSUME Init PROVE StreamInv
    OBVIOUS
<1>1. N = 0 /\ pending = {} /\ pc = "idle"
    BY DEF Init, N
<1> QED
    BY <1>1, TypeInit DEF StreamInv, StreamIsOrdered, PendingIsPrefix

\* The stream is as before, and the slot no further back.
LEMMA SameStream ==
    ASSUME StreamInv, slot' \in Int, slot <= slot',
           N' = N, \A i \in 1..N : At(i)' = At(i)
    PROVE  /\ StreamIsOrdered'
           /\ \A l : PendingUpTo(l) /\ pending' = pending /\ l[1] \in Int
                        => PendingUpTo(l)'
<1>1. /\ N \in Nat /\ slot \in Int /\ \A i \in 1..N : At(i)[1] \in Int
    BY StreamTypes, EventTypes DEF StreamInv
<1>2. \A i \in 1..N : At(i)'[1] <= slot'
    BY <1>1 DEF StreamInv, StreamIsOrdered
<1>3. /\ \A i, j \in 1..N : i < j => Before(At(i)', At(j)')
      /\ N > 0 => At(N)'[2] = 0
    BY <1>1 DEF StreamInv, StreamIsOrdered
<1>4. \A i \in 1..(N - 1) : Follows(At(i)', At(i + 1)')
    BY <1>1 DEF StreamInv, StreamIsOrdered
<1>5. N > 0 => At(1)' = At(1)
    BY <1>1
<1>6. ASSUME NEW l, PendingUpTo(l), pending' = pending, l[1] \in Int
      PROVE  PendingUpTo(l)'
    BY <1>1, <1>5, <1>6 DEF PendingUpTo
<1> QED
    BY <1>2, <1>3, <1>4, <1>6 DEF StreamIsOrdered, Follows, First, Before

LEMMA SamePending ==
    ASSUME StreamInv, TypeInv', slot <= slot', pending' = pending,
           N' = N, \A i \in 1..N : At(i)' = At(i),
           \/ pc' = pc /\ txn' = txn
           \/ pending = {} /\ pc' # "apply"
    PROVE  StreamInv'
<1>1. /\ N \in Nat /\ slot \in Int /\ txn \in Int
    BY StreamTypes DEF StreamInv
<1>2. slot' \in Int
    BY PgAssumption DEF TypeInv, TypeOK, NoSlot
<1>3. \A l \in pending : l[1] \in Int
    BY EventTypes DEF StreamInv, TypeInv, TypeOK
<1>4. /\ StreamIsOrdered'
      /\ \A l \in pending : PendingUpTo(l) => PendingUpTo(l)'
    BY <1>2, <1>3, SameStream
<1>5. N > 0 => At(1)' = At(1)
    BY <1>1
<1>6. PendingIsPrefix'
  <2>1. CASE pc' = pc /\ txn' = txn
    <3>1. pc = "apply" => txn' <= slot' /\ \A i \in 1..N : txn' < At(i)'[1]
        BY <1>1, <1>2, <2>1 DEF StreamInv, PendingIsPrefix
    <3>2. pc = "loop" /\ pending # {} => \E l \in pending : PendingUpTo(l)'
        BY <1>4 DEF StreamInv, PendingIsPrefix
    <3>3. (pc = "apply" \/ pending = {}) /\ N > 0 => First(At(1)')
        BY <1>5 DEF StreamInv, PendingIsPrefix
    <3> QED
        BY <2>1, <3>1, <3>2, <3>3 DEF StreamInv, PendingIsPrefix, First
  <2>2. CASE pending = {} /\ pc' # "apply"
    BY <1>5, <2>2 DEF StreamInv, PendingIsPrefix, First
  <2> QED
    BY <2>1, <2>2
<1> QED
    BY <1>4, <1>6 DEF StreamInv

\* A send moves an event from the producer to the channel.
LEMMA SendKeepsStream ==
    ASSUME TypeInv, ProdSend
    PROVE  /\ UNCHANGED <<slot, pending, pc, txn>>
           /\ N' = N /\ \A i \in 1..N : At(i)' = At(i)
<1>1. /\ chan \in Seq(Changes \cup Commits) /\ buf \in Seq(Changes \cup Commits)
      /\ buf # <<>> /\ chan' = Append(chan, Head(buf)) /\ buf' = Tail(buf)
      /\ UNCHANGED <<slot, pending, pc, txn>> /\ slot \in Int
    BY StreamTypes
       DEF ProdSend, TypeInv, TypeOK, sourceVars, taskVars
<1>2. Len(chan') = Len(chan) + 1 /\ Len(buf') = Len(buf) - 1 /\ Len(buf) > 0
    BY <1>1
<1>3. N' = N
    BY <1>1, <1>2 DEF N
<1>4. ASSUME NEW i \in 1..N PROVE At(i)' = At(i)
  <2>1. CASE i <= Len(chan)
    BY <1>1, <1>2, <2>1 DEF At, N
  <2>2. CASE i = Len(chan) + 1
    BY <1>1, <1>2, <2>2 DEF At, N
  <2>3. CASE i > Len(chan) + 1
    <3>1. i - Len(chan) \in 1..Len(buf) /\ i - Len(chan) > 1
        BY <1>1, <1>2, <2>3 DEF N
    <3>2. Tail(buf)[i - Len(chan) - 1] = buf[i - Len(chan)]
        BY <1>1, <1>2, <3>1
    <3> QED
        BY <1>1, <1>2, <2>3, <3>1, <3>2 DEF At
  <2> QED
    BY <1>1, <2>1, <2>2, <2>3 DEF N
<1> QED
    BY <1>1, <1>3, <1>4

LEMMA StreamSent ==
    ASSUME StreamInv, TypeInv', ProdSend
    PROVE  StreamInv'
<1>1. slot \in Int /\ TypeInv
    BY StreamTypes DEF StreamInv
<1> QED
    BY <1>1, SendKeepsStream, SamePending

LEMMA StreamApplied ==
    ASSUME StreamInv, TypeInv', Apply
    PROVE  StreamInv'
<1>1. /\ pc = "apply" /\ pending' = {} /\ pc' \in {"save", "ack"}
      /\ UNCHANGED <<slot, chan, buf>>
    BY DEF Apply, sourceVars, prodVars
<1>2. N' = N /\ \A i \in 1..N : At(i)' = At(i)
    BY <1>1 DEF N, At
<1>3. N \in Nat /\ slot' \in Int /\ slot <= slot'
    BY <1>1, StreamTypes DEF StreamInv
<1>4. StreamIsOrdered'
    BY <1>2, <1>3, SameStream
<1>5. N > 0 => First(At(1)')
    BY <1>1, <1>2, <1>3 DEF StreamInv, PendingIsPrefix
<1> QED
    BY <1>1, <1>2, <1>4, <1>5 DEF StreamInv, PendingIsPrefix, First

\* The producer reads transactions that are newer than all it has read before.
LEMMA StreamPolled ==
    ASSUME StreamInv, TypeInv', ProdPoll
    PROVE  StreamInv'
<1> PICK to \in (slot + 1)..wal : slot' = to /\ buf' = Events(slot, to)
    BY DEF ProdPoll
<1> PICK s : s = Events(slot, to)
    OBVIOUS
<1> PICK n, m : n = Len(chan) /\ m = Len(s)
    OBVIOUS
<1>1. /\ slot \in 0..MaxTxns /\ to \in 0..MaxTxns /\ slot < to
      /\ slot \in Int /\ to \in Int /\ txn \in Int
    BY PgAssumption DEF ProdPoll, StreamInv, TypeInv, TypeOK, NoSlot
<1>2. /\ buf = <<>> /\ chan' = chan /\ buf' = s /\ slot' = to
      /\ UNCHANGED <<pending, pc, txn>>
    BY DEF ProdPoll, taskVars
<1>3. /\ s \in Seq(Changes \cup Commits) /\ m \in Nat \ {0}
      /\ \A i \in 1..m : slot < s[i][1] /\ s[i][1] <= to
      /\ \A i, j \in 1..m : i < j => Before(s[i], s[j])
      /\ \A i \in 1..(m - 1) : Follows(s[i], s[i + 1])
      /\ First(s[1]) /\ s[m][2] = 0
    BY <1>1, EventsAreWhole
<1>4. n \in Nat /\ N = n /\ N' = n + m
    BY <1>2, <1>3, NoEvents DEF N, StreamInv, TypeInv, TypeOK
<1>5. \A i \in 1..n : At(i)' = At(i)
    BY <1>2, <1>4 DEF At
<1>6. \A i \in (n + 1)..(n + m) : At(i)' = s[i - n] /\ i - n \in 1..m
    BY <1>2, <1>3, <1>4 DEF At
<1>7. /\ \A i \in 1..n : At(i)[1] <= slot /\ At(i)[1] \in Int
      /\ \A i \in 1..m : s[i][1] \in Int
  <2>1. /\ \A i \in 1..n : At(i)[1] <= slot
        /\ \A i \in 1..n : At(i) \in Changes \cup Commits
    BY <1>4, StreamTypes DEF StreamInv, StreamIsOrdered
  <2>2. \A i \in 1..m : s[i] \in Changes \cup Commits
    BY <1>3
  <2> QED
    BY <2>1, <2>2, EventTypes
<1>n. ASSUME NEW i \in 1..(n + m), i > n
      PROVE  /\ i - n \in 1..m /\ At(i)' = s[i - n]
             /\ At(i)'[1] \in Int /\ slot < At(i)'[1] /\ At(i)'[1] <= to
  <2>1. i \in (n + 1)..(n + m)
    BY <1>3, <1>4, <1>n
  <2>2. i - n \in 1..m /\ At(i)' = s[i - n]
    BY <1>6, <2>1
  <2> QED
    BY <1>3, <1>7, <2>2
<1>8. ASSUME NEW i \in 1..(n + m) PROVE At(i)'[1] <= to
  <2>1. CASE i <= n
    BY <1>1, <1>4, <1>5, <1>7, <2>1
  <2>2. CASE i > n
    BY <1>n, <2>2
  <2> QED
    BY <1>4, <2>1, <2>2
<1>9. ASSUME NEW i \in 1..(n + m), NEW j \in 1..(n + m), i < j
      PROVE  Before(At(i)', At(j)')
  <2>1. CASE j <= n
    BY <1>4, <1>5, <1>9, <2>1 DEF StreamInv, StreamIsOrdered
  <2>2. CASE i <= n /\ j > n
    <3>1. At(i)'[1] <= slot /\ At(i)'[1] \in Int
        BY <1>4, <1>5, <1>7, <2>2
    <3>2. slot < At(j)'[1] /\ At(j)'[1] \in Int
        BY <1>n, <2>2
    <3> QED
        BY <1>1, <3>1, <3>2 DEF Before
  <2>3. CASE i > n
    <3>1. /\ At(i)' = s[i - n] /\ i - n \in 1..m
          /\ At(j)' = s[j - n] /\ j - n \in 1..m /\ i - n < j - n
      <4>1. j > n
        BY <1>4, <1>9, <2>3
      <4>2. /\ i - n \in 1..m /\ At(i)' = s[i - n]
            /\ j - n \in 1..m /\ At(j)' = s[j - n]
        BY <1>n, <2>3, <4>1
      <4> QED
        BY <1>4, <1>9, <4>2
    <3> QED
        BY <1>3, <3>1
  <2> QED
    BY <1>4, <2>1, <2>2, <2>3
<1>10. ASSUME NEW i \in 1..(n + m - 1) PROVE Follows(At(i)', At(i + 1)')
  <2>1. CASE i < n
    BY <1>4, <1>5, <2>1 DEF StreamInv, StreamIsOrdered
  <2>2. CASE i = n
    <3>1. At(n)[2] = 0 /\ At(n)' = At(n) /\ At(n + 1)' = s[1]
        BY <1>3, <1>4, <1>5, <1>6, <2>2 DEF StreamInv, StreamIsOrdered
    <3>2. At(n)[1] < s[1][1]
        BY <1>1, <1>3, <1>4, <1>7, <2>2
    <3> QED
        BY <1>3, <2>2, <3>1, <3>2 DEF Follows
  <2>3. CASE i > n
    <3>1. /\ At(i)' = s[i - n] /\ i - n \in 1..(m - 1)
          /\ At(i + 1)' = s[(i - n) + 1]
        BY <1>3, <1>4, <1>6, <2>3
    <3> QED
        BY <1>3, <3>1
  <2> QED
    BY <1>4, <2>1, <2>2, <2>3
<1>11. At(n + m)'[2] = 0
    BY <1>3, <1>4, <1>6
<1>12. StreamIsOrdered'
  <2>1. /\ \A i \in 1..N' : At(i)'[1] <= slot'
        /\ \A i, j \in 1..N' : i < j => Before(At(i)', At(j)')
        /\ \A i \in 1..(N' - 1) : Follows(At(i)', At(i + 1)')
        /\ N' > 0 => At(N)'[2] = 0
    BY <1>2, <1>4, <1>8, <1>9, <1>10, <1>11
  <2> QED
    BY <2>1 DEF StreamIsOrdered, Follows, First, Before
<1>13. CASE pc = "apply"
  <2>1. txn <= slot' /\ \A i \in 1..N' : txn < At(i)'[1]
    <3>1. txn <= slot
        BY <1>13 DEF StreamInv, PendingIsPrefix
    <3>2. \A i \in 1..n : txn < At(i)[1]
        BY <1>4, <1>13 DEF StreamInv, PendingIsPrefix
    <3>3. ASSUME NEW i \in 1..N' PROVE txn < At(i)'[1]
      <4>1. CASE i <= n
        BY <1>4, <1>5, <3>2, <4>1
      <4>2. CASE i > n
        <5>1. i \in 1..(n + m)
            BY <1>4
        <5>2. slot < At(i)'[1] /\ At(i)'[1] \in Int
            BY <1>n, <4>2, <5>1
        <5> QED
            BY <1>1, <3>1, <5>2
      <4> QED
        BY <1>3, <1>4, <4>1, <4>2
    <3> QED
        BY <1>1, <1>2, <3>1, <3>3
  <2>2. First(At(1)')
    BY <1>3, <1>4, <1>5, <1>6, <1>13 DEF StreamInv, PendingIsPrefix
  <2> QED
    BY <1>2, <1>12, <1>13, <2>1, <2>2
       DEF StreamInv, PendingIsPrefix, First
<1>14. CASE pc # "apply" /\ pending = {}
  <2>1. First(At(1)')
    BY <1>3, <1>4, <1>5, <1>6, <1>14 DEF StreamInv, PendingIsPrefix
  <2> QED
    BY <1>2, <1>12, <1>14, <2>1 DEF StreamInv, PendingIsPrefix, First
<1>15. CASE pc # "apply" /\ pending # {}
  <2>1. pc = "loop"
    BY <1>15 DEF StreamInv, PendingIsPrefix
  <2> PICK l \in pending : PendingUpTo(l)
    BY <1>15, <2>1 DEF StreamInv, PendingIsPrefix
  <2>2. N' > 0 /\ At(1)' = At(1)
    BY <1>3, <1>4, <1>5 DEF PendingUpTo
  <2>3. l[1] <= slot' /\ l[1] \in Int
    BY <1>1, <1>2, EventTypes DEF PendingUpTo, StreamInv, TypeInv, TypeOK
  <2>4. PendingUpTo(l)'
    BY <1>2, <2>2, <2>3 DEF PendingUpTo, Follows, First
  <2> QED
    BY <1>2, <1>12, <1>15, <2>1, <2>4 DEF StreamInv, PendingIsPrefix
<1> QED
    BY <1>13, <1>14, <1>15

\* The loop takes the first event: a change joins pending, a commit completes
\* the changes in pending.
LEMMA StreamReceived ==
    ASSUME StreamInv, TypeInv', Recv
    PROVE  StreamInv'
<1> PICK ev : ev = Head(chan)
    OBVIOUS
<1> PICK n : n = N
    OBVIOUS
<1>1. /\ pc = "loop" /\ chan' = Tail(chan) /\ chan # <<>>
      /\ UNCHANGED <<slot, buf>>
      /\ ev[2] # 0 => pending' = pending \cup {ev} /\ pc' = pc /\ txn' = txn
      /\ ev[2] = 0 => /\ pending' = pending /\ txn' = ev[1]
                      /\ pc' = IF pending # {} THEN "apply" ELSE "ack"
    BY DEF Recv, sourceVars
<1>2. /\ chan \in Seq(Changes \cup Commits) /\ buf \in Seq(Changes \cup Commits)
      /\ slot \in Int /\ pending \subseteq Changes
    BY StreamTypes DEF StreamInv, TypeInv, TypeOK
<1>3. /\ n \in Nat \ {0} /\ N' = n - 1 /\ ev = At(1)
      /\ \A i \in 1..(n - 1) : At(i)' = At(i + 1)
    BY <1>1, <1>2 DEF N, At
<1>4. /\ \A i \in 1..n : At(i)[1] \in Int /\ At(i)[1] <= slot
      /\ ev \in Changes \cup Commits /\ ev[1] \in Int /\ ev[2] \in Nat
      /\ ev[1] <= slot
      /\ ev[2] # 0 => ev \in Changes
    BY <1>3, StreamTypes, EventTypes DEF StreamInv, StreamIsOrdered
<1>5. /\ \A i, j \in 1..n : i < j => Before(At(i), At(j))
      /\ \A i \in 1..(n - 1) : Follows(At(i), At(i + 1))
      /\ At(n)[2] = 0
    BY <1>3 DEF StreamInv, StreamIsOrdered
<1>6. StreamIsOrdered'
  <2>1. \A i \in 1..(n - 1) : At(i)'[1] <= slot'
    BY <1>1, <1>3, <1>4
  <2>2. ASSUME NEW i \in 1..(n - 1), NEW j \in 1..(n - 1), i < j
        PROVE  Before(At(i)', At(j)')
    <3>1. i + 1 \in 1..n /\ j + 1 \in 1..n /\ i + 1 < j + 1
        BY <1>3, <2>2
    <3> QED
        BY <1>3, <1>5, <3>1
  <2>3. ASSUME NEW i \in 1..(n - 2) PROVE Follows(At(i)', At(i + 1)')
    <3>1. i \in 1..(n - 1) /\ i + 1 \in 1..(n - 1)
        BY <1>3
    <3> QED
        BY <1>3, <1>5, <3>1
  <2>4. ASSUME n - 1 > 0 PROVE At(n - 1)'[2] = 0
    <3>1. n - 1 \in 1..(n - 1) /\ (n - 1) + 1 = n
        BY <1>3, <2>4
    <3> QED
        BY <1>3, <1>5, <3>1
  <2>5. (n - 1) - 1 = n - 2
    BY <1>3
  <2>6. /\ \A i \in 1..N' : At(i)'[1] <= slot'
        /\ \A i, j \in 1..N' : i < j => Before(At(i)', At(j)')
        /\ \A i \in 1..(N' - 1) : Follows(At(i)', At(i + 1)')
        /\ N' > 0 => At(N)'[2] = 0
    BY <1>3, <2>1, <2>2, <2>3, <2>4, <2>5
  <2> QED
    BY <2>6 DEF StreamIsOrdered, Follows, First, Before
<1>7. n > 1 => At(1)' = At(2) /\ Follows(ev, At(2))
    BY <1>3, <1>5
\* The changes of a transaction that have arrived when ev has.
<1>8. CASE ev[2] # 0
  <2>1. n > 1
    BY <1>3, <1>5, <1>8
  <2>2. pending' = {ch \in Changes : ch[1] = ev[1] /\ ch[2] <= ev[2]}
    <3>a. \A ch \in Changes :
            /\ ch[2] \in Nat \ {0}
            /\ ch[1] = ev[1] /\ ch[2] = ev[2] => ch = ev
      <4>1. TxnEnd[MaxTxns] \in Nat
        BY TxnEnds
      <4>2. ASSUME NEW ch \in Changes
            PROVE  /\ ch[2] \in Nat \ {0}
                   /\ ch = <<ch[1], ch[2]>>
        BY <4>1 DEF Changes
      <4>3. ev = <<ev[1], ev[2]>>
        BY <1>4, <1>8, <4>1 DEF Changes, Commits
      <4> QED
        BY <4>2, <4>3, Zenon
    <3>1. CASE pending = {}
      <4>1. First(ev)
        BY <1>1, <1>3, <3>1 DEF StreamInv, PendingIsPrefix
      <4>2. ev[2] = 1
        BY <1>8, <4>1 DEF First
      <4>3. \A ch \in Changes : ch[2] <= ev[2] => ch[2] = ev[2]
        BY <3>a, <4>2
      <4> QED
        BY <1>1, <1>4, <1>8, <3>a, <3>1, <4>3
    <3>2. CASE pending # {}
      <4> PICK l \in pending : PendingUpTo(l)
        BY <1>1, <3>2 DEF StreamInv, PendingIsPrefix
      <4>1. ev[1] = l[1] /\ ev[2] = l[2] + 1 /\ l \in Changes
        BY <1>2, <1>3, <1>8 DEF PendingUpTo, Follows, Commits, Changes
      <4>2. \A ch \in Changes :
                ch[2] <= ev[2] <=> ch[2] <= l[2] \/ ch[2] = ev[2]
        BY <3>a, <4>1, <1>4
      <4> QED
        BY <1>1, <1>4, <1>8, <3>a, <4>1, <4>2 DEF PendingUpTo
    <3> QED
        BY <3>1, <3>2
  <2>3. /\ ev \in pending' /\ ev[1] <= slot' /\ N' > 0
        /\ Follows(ev, At(1)')
    BY <1>1, <1>3, <1>4, <1>7, <1>8, <2>1
  <2>4. PendingUpTo(ev)'
    BY <2>2, <2>3 DEF PendingUpTo, Follows, First
  <2>5. PendingIsPrefix'
    BY <1>1, <1>8, <2>3, <2>4 DEF PendingIsPrefix
  <2> QED
    BY <1>6, <2>5 DEF StreamInv
<1>9. CASE ev[2] = 0
  <2>1. N' > 0 => First(At(1)')
    BY <1>3, <1>7, <1>9 DEF Follows
  <2>2. CASE pending = {}
    BY <1>1, <1>6, <1>9, <2>1, <2>2 DEF StreamInv, PendingIsPrefix, First
  <2>3. CASE pending # {}
    <3> PICK l \in pending : PendingUpTo(l)
        BY <1>1, <2>3 DEF StreamInv, PendingIsPrefix
    <3>1. l \in Changes /\ l[2] # 0
        BY <1>2, PgAssumption DEF Changes
    <3>2. ev[1] = l[1] /\ \A ch \in Changes : ch[1] = l[1] => ch[2] <= l[2]
        BY <1>3, <1>9, <3>1 DEF PendingUpTo, Follows, Changes
    <3>3. pending' = {ch \in Changes : ch[1] = txn'}
        BY <1>1, <1>9, <3>2 DEF PendingUpTo
    <3>4. ASSUME NEW i \in 1..(n - 1) PROVE ev[1] < At(i)'[1]
      <4>1. 1 \in 1..n /\ i + 1 \in 1..n /\ 1 < i + 1
        BY <1>3
      <4>2. Before(ev, At(i + 1))
        BY <1>3, <1>5, <4>1
      <4> QED
        BY <1>3, <1>9, <4>2 DEF Before
    <3>5. pc' = "apply" /\ txn' = ev[1] /\ txn' <= slot'
        BY <1>1, <1>4, <1>9, <2>3
    <3>6. PendingIsPrefix'
        BY <1>3, <2>1, <3>3, <3>4, <3>5 DEF PendingIsPrefix, First
    <3> QED
        BY <1>6, <3>6 DEF StreamInv
  <2> QED
    BY <2>2, <2>3
<1> QED
    BY <1>8, <1>9

LEMMA StreamNext == StreamInv /\ [Next]_vars => StreamInv'
<1> SUFFICES ASSUME StreamInv, [Next]_vars PROVE StreamInv'
    OBVIOUS
<1>1. TypeInv'
    BY TypeNext DEF StreamInv
<1>2. CASE StreamKept
  <2>1. N' = N /\ \A i \in 1..N : At(i)' = At(i)
    BY <1>2 DEF StreamKept, N, At
  <2> QED
    BY <1>1, <1>2, <2>1, SamePending DEF StreamKept
<1>3. CASE StreamDropped
  <2>1. N' = 0
    BY <1>3 DEF StreamDropped, N
  <2> QED
    BY <1>1, <1>3, <2>1
       DEF StreamDropped, StreamInv, StreamIsOrdered, PendingIsPrefix
<1> QED
    BY <1>1, <1>2, <1>3, StreamSteps, StreamPolled, StreamSent,
       StreamReceived, StreamApplied

LEMMA StreamInvariant == Spec => []StreamInv
    BY StreamInit, StreamNext, PTL DEF Spec

-----------------------------------------------------------------------------
(***************************************************************************)
(* Atomicity.  What is applied is pending when its commit event arrives,   *)
(* and that is every change of the transaction.                            *)
(***************************************************************************)
BootCopied == {ch \in Changes : ch[1] <= wal}

\* What a step may do to the view.
LEMMA ViewSteps ==
    ASSUME TypeInv, [Next]_vars
    PROVE  \/ acc' = acc /\ snapPos' = snapPos
           \/ acc' = Zero /\ snapPos' = snapPos
           \/ /\ pc = "restore" /\ Saved # {} /\ Durable # Torn
              /\ acc' = Durable /\ Durable = final[LatestEpoch]
              /\ snapPos' = snapPos
           \/ pc = "copy" /\ acc' = Plus(acc, BootCopied) /\ snapPos' = wal
           \/ Apply
<1>1. CASE Restore
  <2>1. CASE RestoreLatest /\ acc' = final[LatestEpoch]
    <3>1. Saved # {} /\ Durable = final[LatestEpoch] /\ Durable # Torn
        BY <2>1, CopyType DEF RestoreLatest
    <3> QED
        BY <1>1, <2>1, <3>1 DEF Restore
  <2> QED
    BY <1>1, <2>1 DEF Restore
<1>2. CASE BootCopy
    BY <1>2 DEF BootCopy, BootCopied
<1>3. CASE Crash
    BY <1>3 DEF Crash
<1> QED
    BY <1>1, <1>2, <1>3
       DEF Next, Task, Producer, Failure, TxnCommit, Start, Stop, Cleanup,
           CleanupFails, RestoreErrs,
           RestoreFails, BootSlot, BootFails, Save0, Save0Fails, Connect,
           ConnectFails, ProdConnect, ProdConnectFails, ProdPoll, LinkBreaks,
           ProdSend, OrphanPoll, LoopEnds, Recv, StreamEnds, SavePhase,
           SaveFails, CommitPhase, ConfirmPhase, ConfirmFails, Ack, AckFails,
           vars

\* What a step may do to the files under final names.
LEMMA FileSteps ==
    ASSUME TypeInv, [Next]_vars
    PROVE  \/ final' = final
           \/ \E e \in Epochs : final' = [final EXCEPT ![e] = acc]
           \/ final' = [final EXCEPT ![0] = Torn]
<1>1. CASE Save0 \/ Save0Fails
    BY <1>1, EpochTypes
       DEF Save0, Save, Save0Fails, SaveInterrupted, dirVars
<1>2. CASE ConfirmPhase
    BY <1>2, RenamedFile
<1>3. CASE Crash
    BY <1>3 DEF Crash, dirVars
<1> QED
    BY <1>1, <1>2, <1>3
       DEF Next, Task, Producer, Failure, TxnCommit, Start, Stop, Cleanup,
           CleanupFails, RestoreErrs,
           Restore, RestoreFails, BootSlot, BootCopy, BootFails, Connect,
           ConnectFails, ProdConnect, ProdConnectFails, ProdPoll, LinkBreaks,
           ProdSend, OrphanPoll, LoopEnds, Recv, StreamEnds, Apply, SavePhase,
           SaveFails, CommitPhase, ConfirmFails, Ack, AckFails, vars, dirVars,
           CleanupUncommitted, RestoreLatest, RestoreNothing,
           RestoreUnreadable, RestoreInterrupted, CleanupInterrupted, SaveTmp,
           SaveTmpInterrupted

AtomicityInv == StreamInv /\ TransactionAtomicity

LEMMA PlusWhole ==
    ASSUME NEW v \in Views, Whole(v), NEW S,
           \A a, b \in Changes : a[1] = b[1] => (a \in S <=> b \in S)
    PROVE  Whole(Plus(v, S))
    BY DEF Whole, Plus, Views

LEMMA AtomicityNext == AtomicityInv /\ [Next]_vars => AtomicityInv'
<1> SUFFICES ASSUME AtomicityInv, [Next]_vars PROVE AtomicityInv'
    OBVIOUS
<1>1. StreamInv'
    BY StreamNext DEF AtomicityInv
<1>2. /\ TypeInv /\ acc \in Views /\ Whole(acc)
      /\ \A e \in Epochs : final[e] \in Views => Whole(final[e])
      /\ final \in [Epochs -> Views \cup {NoFile, Torn}]
    BY DEF AtomicityInv, StreamInv, TypeInv, TypeOK, TransactionAtomicity
<1>3. ASSUME NEW e \in Epochs, final'[e] \in Views PROVE Whole(final'[e])
    BY <1>2, <1>3, FileSteps, FilesAssumption
<1>4. Whole(acc')
  <2>1. Whole(Zero)
    BY DEF Whole, Zero
  <2>2. CASE /\ Saved # {} /\ Durable # Torn
             /\ acc' = Durable /\ Durable = final[LatestEpoch]
    BY <1>2, <2>2, CopyType
  <2>3. CASE acc' = Plus(acc, BootCopied)
    BY <1>2, <2>3, PlusWhole DEF BootCopied
  <2>4. CASE Apply
    <3>1. acc' = Plus(acc, pending) /\ pending = {ch \in Changes : ch[1] = txn}
        BY <2>4 DEF Apply, AtomicityInv, StreamInv, PendingIsPrefix
    <3> QED
        BY <1>2, <3>1, PlusWhole
  <2> QED
    BY <1>2, <2>1, <2>2, <2>3, <2>4, ViewSteps
<1> QED
    BY <1>1, <1>3, <1>4 DEF AtomicityInv, TransactionAtomicity, Whole

\* A view holds a transaction completely or not at all, in memory and in every
\* file that can be read, also across reconnects and restarts: events of one
\* transaction may be spread over many receives, and a producer may be cut off
\* between any two of them.
THEOREM TransactionsAreAtomic == Spec => []TransactionAtomicity
<1>1. Init => AtomicityInv
  <2> SUFFICES ASSUME Init PROVE TransactionAtomicity
    BY StreamInit DEF AtomicityInv
  <2> QED
    BY FilesAssumption
       DEF Init, TransactionAtomicity, Whole, Zero, EmptyDir
<1>2. AtomicityInv => TransactionAtomicity
    BY DEF AtomicityInv
<1> QED
    BY <1>1, <1>2, AtomicityNext, PTL DEF Spec

-----------------------------------------------------------------------------
(***************************************************************************)
(* No replays.  The slot only moves on, and everything in the view, in a   *)
(* file, in pending or on its way lies behind it: what the producer reads  *)
(* next is newer than all of that.                                         *)
(***************************************************************************)
AppliedOnce ==
    \A ch \in Changes : acc[ch] # 0 /\ ch[1] > snapPos =>
        /\ acc[ch] = 1 /\ ch[1] <= slot
        /\ \A i \in 1..N : ch[1] < At(i)[1]
        /\ \A p \in pending : ch[1] < p[1]

FilesOnce ==
    \A e \in Epochs, ch \in Changes :
        final[e] \in Views /\ final[e][ch] # 0 /\ ch[1] > snapPos
            => final[e][ch] = 1 /\ ch[1] <= slot

OnceInv == StreamInv /\ snapPos <= wal /\ AppliedOnce /\ FilesOnce

\* What is new in the stream comes from beyond the slot, and what is new in
\* pending comes from the stream.
LEMMA StreamMovesOn ==
    ASSUME StreamInv, [Next]_vars
    PROVE  /\ slot <= slot'
           /\ \A i \in 1..N' : \/ slot < At(i)'[1]
                               \/ \E j \in 1..N : At(i)' = At(j)
           /\ \A p \in pending' : p \in pending \/ \E j \in 1..N : p = At(j)
<1>0. N \in Nat /\ Len(chan) \in Nat /\ Len(buf) \in Nat /\ slot \in Int
    BY StreamTypes DEF StreamInv
<1>t. /\ chan \in Seq(Changes \cup Commits) /\ buf \in Seq(Changes \cup Commits)
    BY DEF StreamInv, TypeInv, TypeOK
<1>1. CASE StreamKept
    BY <1>0, <1>1 DEF StreamKept, N, At
<1>2. CASE StreamDropped
    BY <1>0, <1>2 DEF StreamDropped, N
<1>3. CASE ProdPoll
  <2> PICK to \in (slot + 1)..wal : slot' = to /\ buf' = Events(slot, to)
    BY <1>3 DEF ProdPoll
  <2>1. /\ buf = <<>> /\ chan' = chan /\ pending' = pending
        /\ slot \in 0..MaxTxns /\ to \in 0..MaxTxns /\ slot < to
    BY <1>3, PgAssumption
       DEF ProdPoll, taskVars, StreamInv, TypeInv, TypeOK, NoSlot
  <2>2. /\ \A i \in 1..Len(buf') : slot < buf'[i][1]
        /\ Len(buf') \in Nat
    BY <2>1, EventsAreWhole
  <2>3. Len(buf) = 0
    BY <2>1
  <2>4. ASSUME NEW i \in 1..N', ~(slot < At(i)'[1])
        PROVE  \E j \in 1..N : At(i)' = At(j)
    <3>1. i <= Len(chan)
      <4>1. SUFFICES ASSUME ~(i <= Len(chan)) PROVE FALSE
        OBVIOUS
      <4>2. i - Len(chan) \in 1..Len(buf') /\ At(i)' = buf'[i - Len(chan)]
        BY <1>0, <2>1, <2>2, <4>1 DEF N, At
      <4> QED
        BY <2>2, <2>4, <4>2
    <3> QED
        BY <1>0, <2>1, <2>3, <3>1 DEF N, At
  <2> QED
    BY <2>1, <2>4
<1>4. CASE ProdSend
    BY <1>0, <1>4, SendKeepsStream DEF StreamInv
<1>5. CASE Recv
  <2>1. /\ chan' = Tail(chan) /\ chan # <<>> /\ UNCHANGED <<slot, buf>>
        /\ pending' \in {pending, pending \cup {Head(chan)}}
    BY <1>5 DEF Recv, sourceVars
  <2>2. /\ N > 0 /\ N' = N - 1 /\ Head(chan) = At(1)
        /\ \A i \in 1..(N - 1) : At(i)' = At(i + 1)
    BY <1>0, <1>t, <2>1 DEF N, At
  <2>3. ASSUME NEW i \in 1..N' PROVE \E j \in 1..N : At(i)' = At(j)
    <3>1. i \in 1..(N - 1) /\ i + 1 \in 1..N
        BY <1>0, <2>2
    <3> QED
        BY <2>2, <3>1
  <2>4. 1 \in 1..N
    BY <1>0, <2>2
  <2> QED
    BY <1>0, <2>1, <2>2, <2>3, <2>4
<1>6. CASE Apply
    BY <1>0, <1>6 DEF Apply, sourceVars, prodVars, N, At
<1> QED
    BY <1>1, <1>2, <1>3, <1>4, <1>5, <1>6, StreamSteps

LEMMA OnceNext == OnceInv /\ [Next]_vars => OnceInv'
<1> SUFFICES ASSUME OnceInv, [Next]_vars PROVE OnceInv'
    OBVIOUS
<1>1. StreamInv'
    BY StreamNext DEF OnceInv
<1>2. /\ TypeInv /\ acc \in Views /\ slot \in Int /\ slot' \in Int
      /\ snapPos \in Int /\ wal \in Int /\ wal' \in Int /\ slot <= slot'
      /\ slot <= wal /\ snapPos <= wal
      /\ final \in [Epochs -> Views \cup {NoFile, Torn}]
      /\ N' \in Nat
      /\ \A ch \in Changes : ch[1] \in Int /\ acc[ch] \in Nat
  <2>1. N' \in Nat /\ slot' \in Int
    <3>1. /\ chan' \in Seq(Changes \cup Commits)
          /\ buf' \in Seq(Changes \cup Commits)
          /\ slot' \in Int
        BY <1>1, PgAssumption DEF StreamInv, TypeInv, TypeOK, NoSlot
    <3> QED
        BY <3>1 DEF N
  <2>2. \A ch \in Changes : ch[1] \in Int
    BY EventTypes
  <2>3. wal' \in Int
    BY <1>1, PgAssumption DEF StreamInv, TypeInv, TypeOK
  <2> QED
    BY <2>1, <2>2, <2>3, StreamMovesOn, PgAssumption
       DEF OnceInv, StreamInv, TypeInv, TypeOK, Views, NoSlot
<1>t. \A i \in 1..N' : At(i)' \in Changes \cup Commits
  <2>1. /\ chan' \in Seq(Changes \cup Commits)
        /\ buf' \in Seq(Changes \cup Commits)
    BY <1>1 DEF StreamInv, TypeInv, TypeOK
  <2> QED
    BY <2>1 DEF N, At
<1>3. wal <= wal'
    BY <1>2
       DEF Next, Task, Producer, Failure, TxnCommit, Start, Stop, Cleanup,
           CleanupFails, RestoreErrs,
           Restore, RestoreFails, BootSlot, BootCopy, BootFails, Save0,
           Save0Fails, Connect, ConnectFails, ProdConnect, ProdConnectFails,
           ProdPoll, LinkBreaks, ProdSend, OrphanPoll, LoopEnds, Recv,
           StreamEnds, Apply, SavePhase, SaveFails, CommitPhase, ConfirmPhase,
           ConfirmFails, Ack, AckFails, Crash, vars, sourceVars
<1>4. snapPos' \in {snapPos, wal}
    BY ViewSteps, <1>2 DEF Apply
<1>5. snapPos' <= wal' /\ snapPos' \in Int /\ snapPos <= snapPos'
    BY <1>2, <1>3, <1>4
\* A change beyond the copy that was applied before stays behind the stream.
<1>6. ASSUME NEW ch \in Changes, acc[ch] # 0, ch[1] > snapPos'
      PROVE  /\ acc[ch] = 1 /\ ch[1] <= slot /\ ch[1] <= slot'
             /\ \A i \in 1..N : ch[1] < At(i)[1]
             /\ \A p \in pending : ch[1] < p[1]
             /\ \A i \in 1..N' : ch[1] < At(i)'[1]
             /\ \A p \in pending' : ch[1] < p[1]
  <2>1. /\ acc[ch] = 1 /\ ch[1] <= slot
        /\ \A i \in 1..N : ch[1] < At(i)[1]
        /\ \A p \in pending : ch[1] < p[1]
    BY <1>2, <1>5, <1>6 DEF OnceInv, AppliedOnce
  <2>2. ASSUME NEW i \in 1..N' PROVE ch[1] < At(i)'[1]
    <3>1. CASE slot < At(i)'[1]
      <4>1. At(i)'[1] \in Int
        BY <1>t, EventTypes
      <4> QED
        BY <1>2, <2>1, <3>1, <4>1
    <3> QED
        BY <2>1, <3>1, StreamMovesOn DEF OnceInv
  <2>3. \A p \in pending' : ch[1] < p[1]
    BY <2>1, StreamMovesOn DEF OnceInv
  <2> QED
    BY <1>2, <2>1, <2>2, <2>3
<1>7. FilesOnce'
  <2> SUFFICES ASSUME NEW e \in Epochs, NEW ch \in Changes,
                      final'[e] \in Views, final'[e][ch] # 0,
                      ch[1] > snapPos'
               PROVE  final'[e][ch] = 1 /\ ch[1] <= slot'
    BY DEF FilesOnce
  <2>1. CASE final'[e] = final[e]
    BY <1>2, <1>5, <2>1 DEF OnceInv, FilesOnce
  <2>2. CASE final'[e] = acc
    BY <1>6, <2>2
  <2>3. final'[e] \in {final[e], acc}
    BY <1>2, FileSteps, FilesAssumption
  <2> QED
    BY <2>1, <2>2, <2>3
<1>8. AppliedOnce'
  <2> SUFFICES ASSUME NEW ch \in Changes, acc'[ch] # 0, ch[1] > snapPos'
               PROVE  /\ acc'[ch] = 1 /\ ch[1] <= slot'
                      /\ \A i \in 1..N' : ch[1] < At(i)'[1]
                      /\ \A p \in pending' : ch[1] < p[1]
    BY DEF AppliedOnce
  <2>1. CASE acc' = acc
    BY <1>6, <2>1
  <2>2. CASE acc' = Zero
    BY <2>2 DEF Zero
  <2>3. CASE /\ pc = "restore" /\ Saved # {} /\ Durable # Torn
             /\ acc' = Durable /\ Durable = final[LatestEpoch]
    <3>1. LatestEpoch \in Epochs /\ final[LatestEpoch] \in Views
        BY <1>2, <2>3, CopyType
    <3>2. acc'[ch] = 1 /\ ch[1] <= slot
        BY <1>2, <1>5, <2>3, <3>1 DEF OnceInv, FilesOnce
    <3>3. N = 0 /\ pending = {}
        BY <1>2, <2>3, NoEvents
           DEF OnceInv, StreamInv, TypeInv, TaskPCs, PendingIsPrefix, N
    <3>4. CASE slot' = slot /\ N' = 0 /\ pending' = {}
        BY <1>2, <3>2, <3>4
    <3>5. ASSUME NEW i \in 1..N' PROVE ch[1] < At(i)'[1]
      <4>1. slot < At(i)'[1]
        BY <3>3, StreamMovesOn DEF OnceInv
      <4>3. At(i)'[1] \in Int
        BY <1>t, EventTypes
      <4> QED
        BY <1>2, <3>2, <4>1, <4>3
    <3>6. pending' = {}
        BY <3>3, StreamMovesOn DEF OnceInv
    <3> QED
        BY <1>2, <3>2, <3>5, <3>6
  <2>4. CASE acc' = Plus(acc, BootCopied) /\ snapPos' = wal
    <3>1. ch \notin BootCopied
        BY <1>2, <2>4 DEF BootCopied
    <3>2. acc'[ch] = acc[ch]
        BY <2>4, <3>1 DEF Plus
    <3> QED
        BY <1>6, <3>2
  <2>5. CASE Apply
    <3>1. /\ acc' = Plus(acc, pending) /\ pending' = {}
          /\ UNCHANGED <<slot, chan, buf, snapPos>>
          /\ pending = {c \in Changes : c[1] = txn} /\ txn <= slot
          /\ \A i \in 1..N : txn < At(i)[1]
        BY <2>5 DEF Apply, sourceVars, prodVars, OnceInv, StreamInv,
                    PendingIsPrefix
    <3>2. N' = N /\ \A i \in 1..N : At(i)' = At(i)
        BY <3>1 DEF N, At
    <3>3. CASE ch \notin pending
        BY <1>6, <3>1, <3>3 DEF Plus
    <3>4. CASE ch \in pending
      <4>1. acc[ch] = 0
        BY <1>2, <1>6, <3>4
      <4>2. acc'[ch] = 1
        BY <3>1, <3>4, <4>1 DEF Plus
      <4> QED
        BY <3>1, <3>2, <3>4, <4>2
    <3> QED
        BY <3>3, <3>4
  <2> QED
    BY <1>2, <2>1, <2>2, <2>3, <2>4, <2>5, ViewSteps
<1> QED
    BY <1>1, <1>5, <1>7, <1>8 DEF OnceInv

\* A transaction no table copy has seen is applied at most once, however many
\* crashes, reconnects, orphaned producers and restarts a run has: the slot is
\* consumed as it is read.
THEOREM WalIsNotReplayed == Spec => []WalAppliedAtMostOnce
<1>1. Init => OnceInv
  <2> SUFFICES ASSUME Init PROVE snapPos <= wal /\ AppliedOnce /\ FilesOnce
    BY StreamInit DEF OnceInv
  <2> QED
    BY FilesAssumption DEF Init, AppliedOnce, FilesOnce, Zero, EmptyDir
<1>2. OnceInv => WalAppliedAtMostOnce
  <2> SUFFICES ASSUME OnceInv, NEW ch \in Changes, ch[1] > snapPos
               PROVE  acc[ch] <= 1
    BY DEF WalAppliedAtMostOnce
  <2> QED
    BY DEF OnceInv, AppliedOnce
<1> QED
    BY <1>1, <1>2, OnceNext, PTL DEF Spec

-----------------------------------------------------------------------------
(***************************************************************************)
(* The view, the copy a restart reads, and the bootstrap.  Every step is   *)
(* of one of a few kinds.                                                  *)
(***************************************************************************)
Bootstrapping == pc \in {"slot", "copy", "save0"}

\* The view and the files stay as they are, and the pipeline does not come up.
Unseen ==
    /\ final' = final /\ acc' = acc /\ snapPos' = snapPos
    /\ Live' => Live
    /\ Live /\ ~Live' => pc' = "idle"
    /\ Bootstrapping' => Bootstrapping \/ (pc = "restore" /\ Saved = {})
    /\ pc' = "save0" => pc = "save0" /\ (slot' = slot \/ orphans > 0)

ComesUp ==
    /\ pc = "restore" /\ Saved # {} /\ Durable # Torn
    /\ acc' = Durable /\ final' = final /\ snapPos' = snapPos
    /\ pc' = "connect"

Copies ==
    /\ pc = "copy" /\ pc' = "save0"
    /\ acc' = Plus(acc, BootCopied) /\ final' = final /\ snapPos' = wal
    /\ slot' = slot

Bootstraps ==
    /\ pc = "save0" /\ snapPos' = snapPos
    /\ Saved' # {}
    /\ \/ pc' = "connect" /\ acc' = acc /\ (Saved = {} => Durable' = acc)
       \/ pc' = "idle" /\ acc' \in {acc, Zero} /\ (Saved = {} => Durable' = Torn)

Applies ==
    /\ Live /\ Live' /\ ~Bootstrapping'
    /\ acc' = Plus(acc, pending) /\ final' = final /\ snapPos' = snapPos

Renames ==
    /\ Live /\ Live' /\ ~Bootstrapping'
    /\ acc' = acc /\ snapPos' = snapPos
    /\ Saved' # {}
    /\ \/ Durable' = acc
       \/ Saved # {} /\ Durable' = Durable

Dies ==
    /\ pc' = "idle" /\ acc' = Zero /\ final' = final /\ snapPos' = snapPos

LEMMA Phases ==
    /\ TaskPCs \cap {"slot", "copy", "save0"} = {}
    /\ Live /\ pc \in PCs => ~Bootstrapping
    /\ pc \in TaskPCs => Live
    BY DEF TaskPCs, Live, Bootstrapping

\* A producer that outlives its task was polling or connecting for it.
LEMMA EndedTask ==
    ASSUME TypeInv, EndTask
    PROVE  /\ pc' = "idle"
           /\ orphans' > 0 => orphans > 0 \/ Live
    BY Phases DEF EndTask, TypeInv, TypeOK

LEMMA WalGrows ==
    ASSUME TypeInv, [Next]_vars
    PROVE  wal <= wal'
<1>1. wal \in Int
    BY PgAssumption DEF TypeInv, TypeOK
<1> QED
    BY <1>1
       DEF Next, Task, Producer, Failure, TxnCommit, Start, Stop, Cleanup,
           CleanupFails, RestoreErrs,
           Restore, RestoreFails, BootSlot, BootCopy, BootFails, Save0,
           Save0Fails, Connect, ConnectFails, ProdConnect, ProdConnectFails,
           ProdPoll, LinkBreaks, ProdSend, OrphanPoll, LoopEnds, Recv,
           StreamEnds, Apply, SavePhase, SaveFails, CommitPhase, ConfirmPhase,
           ConfirmFails, Ack, AckFails, Crash, vars, sourceVars

LEMMA OrphanSteps ==
    ASSUME TypeInv, [Next]_vars
    PROVE  orphans' > 0 => orphans > 0 \/ Live
<1>1. CASE EndTask
    BY <1>1, EndedTask
<1>2. CASE Crash
    BY <1>2 DEF Crash
<1>3. CASE OrphanPoll
    BY <1>3 DEF OrphanPoll
<1>4. CASE orphans' = orphans
    BY <1>4
<1> QED
    BY <1>1, <1>2, <1>3, <1>4
       DEF Next, Task, Producer, Failure, TxnCommit, Start, Stop, Cleanup,
           CleanupFails, RestoreErrs,
           Restore, RestoreFails, BootSlot, BootCopy, BootFails, Save0,
           Save0Fails, Connect, ConnectFails, ProdConnect, ProdConnectFails,
           ProdPoll, LinkBreaks, ProdSend, LoopEnds, Recv, StreamEnds, Apply,
           SavePhase, SaveFails, CommitPhase, ConfirmPhase, ConfirmFails, Ack,
           AckFails, vars

LEMMA RecoverySteps ==
    ASSUME TypeInv, [Next]_vars
    PROVE  \/ Unseen \/ ComesUp \/ Copies \/ Bootstraps
           \/ Applies \/ Renames \/ Dies
<1> USE DEF Live, Bootstrapping
\* The task ends.
<1>a. ASSUME EndTask, final' = final, acc' = acc, snapPos' = snapPos
      PROVE  Unseen
    BY <1>a DEF EndTask, Unseen
\* A step within the task's loop.
<1>b. ASSUME final' = final, acc' = acc, snapPos' = snapPos, Live, Live'
      PROVE  Unseen
    BY <1>b DEF Unseen
\* A step that leaves the task where it is.
<1>c. ASSUME final' = final, acc' = acc, snapPos' = snapPos, pc' = pc,
             slot' = slot \/ orphans > 0 \/ pc \in TaskPCs
      PROVE  Unseen
    BY <1>c DEF Unseen, TaskPCs
<1>1. CASE TxnCommit \/ Stop
    BY <1>1, <1>c DEF TxnCommit, Stop, sourceVars, dirVars
<1>2. CASE Start \/ Cleanup
    BY <1>2 DEF Start, Cleanup, CleanupUncommitted, Unseen, dirVars
<1>3. CASE Restore
  <2>1. CASE RestoreLatest /\ acc' = final[LatestEpoch] /\ pc' = "connect"
    <3>1. Saved # {} /\ Durable = final[LatestEpoch] /\ Durable # Torn
        BY <2>1, CopyType DEF RestoreLatest
    <3> QED
        BY <1>3, <2>1, <3>1 DEF Restore, RestoreLatest, ComesUp, dirVars
  <2>2. CASE RestoreNothing /\ acc' = acc /\ pc' = "slot"
    BY <1>3, <2>2 DEF Restore, RestoreNothing, Unseen, dirVars
  <2> QED
    BY <1>3, <2>1, <2>2 DEF Restore
<1>4. CASE RestoreFails \/ RestoreErrs
    BY <1>4, <1>a
       DEF RestoreFails, RestoreUnreadable, RestoreErrs, RestoreInterrupted,
           dirVars
<1>25. CASE CleanupFails
    BY <1>25, <1>a DEF CleanupFails, CleanupInterrupted
<1>5. CASE BootSlot
    BY <1>5 DEF BootSlot, Unseen, dirVars
<1>6. CASE BootCopy
    BY <1>6 DEF BootCopy, BootCopied, Copies, dirVars, sourceVars
<1>7. CASE BootFails
    BY <1>7, <1>a DEF BootFails, dirVars
<1>8. CASE Save0
  <2>1. acc # NoFile /\ final' = [final EXCEPT ![0] = acc]
    BY <1>8, FilesAssumption DEF Save0, Save, TypeInv, TypeOK
  <2> QED
    BY <1>8, <2>1, BootstrapFile DEF Save0, Bootstraps
<1>9. ASSUME pc = "save0", pc' = "idle", snapPos' = snapPos,
             acc' \in {acc, Zero}, final' = [final EXCEPT ![0] = Torn]
      PROVE  Bootstraps
    BY <1>9, BootstrapFile, FilesAssumption DEF Bootstraps
<1>10. CASE Save0Fails
    BY <1>10, <1>9, <1>a DEF Save0Fails, SaveInterrupted, EndTask, dirVars
<1>11. CASE Connect
    BY <1>11, <1>b DEF Connect, dirVars
<1>12. CASE ConnectFails
    BY <1>12, <1>a DEF ConnectFails, dirVars
<1>13. CASE ProdConnect \/ ProdConnectFails \/ ProdSend
    BY <1>13, <1>c
       DEF ProdConnect, ProdConnectFails, ProdSend, sourceVars, dirVars
<1>14. CASE ProdPoll \/ LinkBreaks
    BY <1>14, <1>c DEF ProdPoll, LinkBreaks, dirVars, TypeInv
<1>15. CASE OrphanPoll
    BY <1>15, <1>c DEF OrphanPoll, dirVars
<1>16. CASE LoopEnds
    BY <1>16, <1>a DEF LoopEnds, dirVars
<1>17. CASE Recv \/ StreamEnds
    BY <1>17, <1>b DEF Recv, StreamEnds, dirVars
<1>18. CASE Apply
    BY <1>18 DEF Apply, Applies, dirVars
<1>19. CASE SavePhase \/ CommitPhase \/ Ack
    BY <1>19, <1>b DEF SavePhase, SaveTmp, CommitPhase, Ack, dirVars
<1>20. CASE SaveFails
    BY <1>20, <1>a DEF SaveFails, SaveTmpInterrupted, dirVars
<1>21. CASE ConfirmPhase
  <2>1. /\ Saved' # {}
        /\ \/ Durable' = acc
           \/ Saved # {} /\ Durable' = Durable
    BY <1>21, RenamedFile
  <2> QED
    BY <1>21, <2>1 DEF ConfirmPhase, Renames
<1>22. CASE ConfirmFails \/ AckFails
    BY <1>22, <1>a DEF ConfirmFails, AckFails, dirVars
<1>23. CASE Crash
    BY <1>23, <1>9 DEF Crash, Dies, dirVars
<1>24. CASE UNCHANGED vars
    BY <1>24, <1>c DEF vars, sourceVars, dirVars
<1> QED
    BY <1>1, <1>2, <1>3, <1>4, <1>5, <1>6, <1>7, <1>8, <1>10, <1>11, <1>12,
       <1>13, <1>14, <1>15, <1>16, <1>17, <1>18, <1>19, <1>20, <1>21, <1>22,
       <1>23, <1>24, <1>25
       DEF Next, Task, Producer, Failure

(***************************************************************************)
(* The handoff.  While there is no copy, the pipeline is down, so no       *)
(* producer is left that could move the slot between the table copy and    *)
(* the bootstrap's checkpoint; from the first copy on, the view and the    *)
(* copy both hold what the table copy has seen.                            *)
(***************************************************************************)
HasCopied(v) == \A ch \in Changes : ch[1] <= snapPos => v[ch] # 0

HandoffInv ==
    /\ TypeInv
    /\ snapPos <= wal
    /\ Live \/ orphans > 0 => View!Readable
    /\ Bootstrapping => Saved = {}
    /\ Live => HasCopied(acc)
    /\ View!Readable => HasCopied(Durable)
    /\ pc = "save0" => HasCopied(acc) /\ slot <= snapPos

LEMMA PlusCovers ==
    ASSUME NEW v \in Views, NEW S, NEW ch \in Changes
    PROVE  /\ v[ch] \in Nat /\ Plus(v, S)[ch] \in Nat
           /\ v[ch] <= Plus(v, S)[ch]
           /\ ch \in S => Plus(v, S)[ch] # 0
    BY DEF Plus, Views

LEMMA ReadableCopy ==
    ASSUME TypeInv
    PROVE  /\ View!Readable <=> Saved # {} /\ Durable # Torn
           /\ View!Readable => Durable \in Views
    BY CopyType DEF View!Readable

LEMMA HandoffNext == HandoffInv /\ [Next]_vars => HandoffInv'
<1> SUFFICES ASSUME HandoffInv, [Next]_vars PROVE HandoffInv'
    OBVIOUS
<1>t. TypeInv' /\ TypeInv
    BY TypeNext DEF HandoffInv
<1>w. wal <= wal' /\ wal \in Int /\ wal' \in Int /\ snapPos \in Int
      /\ slot \in Int /\ slot <= wal
    BY <1>t, WalGrows, PgAssumption DEF TypeInv, TypeOK, NoSlot
<1>o. orphans' > 0 => orphans > 0 \/ Live
    BY <1>t, OrphanSteps
<1> USE DEF HandoffInv, HasCopied
<1>k. final' = final => /\ Saved' = Saved /\ Durable' = Durable
                        /\ View!Readable' = View!Readable
    BY SameCopy DEF View!Readable
<1>p. ~(Live /\ Bootstrapping)
    BY DEF Live, Bootstrapping
<1>1. CASE Unseen
    BY <1>t, <1>w, <1>o, <1>k, <1>1, ReadableCopy
       DEF Unseen, Live, Bootstrapping
<1>2. CASE ComesUp
  <2>1. View!Readable
    BY <1>t, <1>2, ReadableCopy DEF ComesUp
  <2> QED
    BY <1>t, <1>w, <1>k, <1>2, <2>1 DEF ComesUp, Live, Bootstrapping
<1>3. CASE Copies
  <2>1. ~Live /\ ~Live' /\ Bootstrapping /\ ~View!Readable /\ orphans' = 0
    BY <1>t, <1>o, <1>3, ReadableCopy
       DEF Copies, Live, Bootstrapping, TypeInv, TypeOK
  <2>2. HasCopied(acc)'
    BY <1>t, <1>3, PlusCovers DEF Copies, BootCopied, TypeInv, TypeOK
  <2> QED
    BY <1>t, <1>w, <1>k, <1>3, <2>1, <2>2 DEF Copies
<1>4. CASE Bootstraps
  <2>1. ~Live /\ Saved = {} /\ orphans' = 0
    BY <1>t, <1>o, <1>4, ReadableCopy
       DEF Bootstraps, Live, Bootstrapping, TypeInv, TypeOK
  <2>2. CASE pc' = "connect" /\ acc' = acc /\ Durable' = acc
    <3>1. View!Readable'
        BY <2>2, <1>t, FilesAssumption DEF View!Readable, TypeInv, TypeOK
    <3> QED
        BY <1>t, <1>w, <1>4, <2>1, <2>2, <3>1
           DEF Bootstraps, Live, Bootstrapping
  <2>3. CASE pc' = "idle" /\ Durable' = Torn
    <3>1. ~View!Readable'
        BY <2>3 DEF View!Readable
    <3> QED
        BY <1>t, <1>w, <1>4, <2>1, <2>3, <3>1
           DEF Bootstraps, Live, Bootstrapping
  <2> QED
    BY <1>4, <2>1, <2>2, <2>3 DEF Bootstraps
<1>5. CASE Applies
  <2>1. HasCopied(acc)'
    <3> SUFFICES ASSUME NEW ch \in Changes, ch[1] <= snapPos
                 PROVE  acc'[ch] # 0
        BY <1>5 DEF Applies
    <3>1. acc \in Views /\ acc[ch] # 0 /\ acc' = Plus(acc, pending)
        BY <1>t, <1>5 DEF Applies, TypeInv, TypeOK
    <3>2. acc[ch] \in Nat /\ acc'[ch] \in Nat /\ acc[ch] <= acc'[ch]
        BY <3>1, PlusCovers
    <3> QED
        BY <3>1, <3>2
  <2> QED
    BY <1>t, <1>w, <1>k, <1>5, <2>1 DEF Applies, Bootstrapping
<1>6. CASE Renames
  <2>1. View!Readable' /\ HasCopied(Durable)'
    BY <1>t, <1>6, FilesAssumption DEF Renames, View!Readable, TypeInv, TypeOK
  <2> QED
    BY <1>t, <1>w, <1>6, <2>1 DEF Renames, Bootstrapping
<1>7. CASE Dies
    BY <1>t, <1>w, <1>o, <1>k, <1>7 DEF Dies, Live, Bootstrapping
<1> QED
    BY <1>t, <1>1, <1>2, <1>3, <1>4, <1>5, <1>6, <1>7, RecoverySteps

LEMMA HandoffInit == Init => HandoffInv
    BY TypeInit
       DEF Init, HandoffInv, HasCopied, Live, Bootstrapping, View!Readable,
           Durable, Saved, EmptyDir

\* The slot starts no later than the table copy, and what the copy has seen is
\* in the view of every task that reads the slot, whatever fails on the way.
THEOREM HandoffNoGap == Spec => []HandoffLeavesNoGap
<1>1. HandoffInv => HandoffLeavesNoGap
    BY DEF HandoffInv, HasCopied, HandoffLeavesNoGap
<1> QED
    BY <1>1, HandoffInit, HandoffNext, PTL DEF Spec

-----------------------------------------------------------------------------
(***************************************************************************)
(* The copy grows, and PgPipeline implements RecoverableView.              *)
(***************************************************************************)
GrowInv ==
    /\ HandoffInv
    /\ Live => View!Covers(acc, Durable)

LEMMA GrowInit == Init => GrowInv
    BY HandoffInit DEF Init, GrowInv, Live

LEMMA CoversItself ==
    ASSUME NEW v \in Views
    PROVE  View!Covers(v, v)
    BY DEF View!Covers, Views

LEMMA GrowNext == GrowInv /\ [Next]_vars => GrowInv'
<1> SUFFICES ASSUME GrowInv, [Next]_vars, Live' PROVE View!Covers(acc', Durable')
    BY HandoffNext DEF GrowInv
<1>t. TypeInv /\ acc \in Views
    BY DEF GrowInv, HandoffInv, TypeInv, TypeOK
<1>k. final' = final => Durable' = Durable
    BY SameCopy
<1>1. CASE Unseen
    BY <1>k, <1>1 DEF Unseen, GrowInv
<1>2. CASE ComesUp
    BY <1>t, <1>k, <1>2, CopyType, CoversItself DEF ComesUp
<1>3. CASE Copies \/ Dies
    BY <1>3 DEF Copies, Dies, Live
<1>4. CASE Bootstraps
    BY <1>t, <1>4, CoversItself
       DEF Bootstraps, Live, GrowInv, HandoffInv, Bootstrapping
<1>5. CASE Applies
  <2> SUFFICES ASSUME NEW ch \in Changes PROVE Durable[ch] <= acc'[ch]
    BY <1>k, <1>5 DEF View!Covers, Applies
  <2>1. Durable \in Views
    BY <1>t, <1>5, ReadableCopy DEF Applies, GrowInv, HandoffInv
  <2>2. Durable[ch] <= acc[ch] /\ Durable[ch] \in Nat
    BY <1>5, <2>1 DEF Applies, GrowInv, View!Covers, Views
  <2> QED
    BY <1>t, <1>5, <2>2, PlusCovers DEF Applies
<1>6. CASE Renames
    BY <1>t, <1>6, CoversItself DEF Renames, GrowInv
<1> QED
    BY <1>t, <1>1, <1>2, <1>3, <1>4, <1>5, <1>6, RecoverySteps

LEMMA GrowInvariant == Spec => []GrowInv
    BY GrowInit, GrowNext, PTL DEF Spec

\* What a restart would read only grows, whatever fails, although files are
\* ordered by the LSN of a commit.
THEOREM CopyGrows == Spec => DurableGrows
<1>1. GrowInv /\ [Next]_vars
        => [View!Readable => /\ View!Readable'
                             /\ View!Covers(Durable', Durable)]_vars
  <2> SUFFICES ASSUME GrowInv, [Next]_vars, View!Readable
               PROVE  View!Readable' /\ View!Covers(Durable', Durable)
    OBVIOUS
  <2>t. TypeInv /\ acc \in Views /\ Durable \in Views
    BY ReadableCopy DEF GrowInv, HandoffInv, TypeInv, TypeOK
  <2>1. CASE final' = final
    BY <2>t, <2>1, SameCopy, CoversItself DEF View!Readable
  <2>2. CASE Renames
    BY <2>t, <2>2, CoversItself, FilesAssumption
       DEF Renames, GrowInv, View!Readable
  <2>3. ~Bootstraps
    BY <2>t, ReadableCopy DEF Bootstraps, GrowInv, HandoffInv, Bootstrapping
  <2> QED
    BY <2>t, <2>1, <2>2, <2>3, RecoverySteps
       DEF Unseen, ComesUp, Copies, Applies, Dies
<1> QED
    BY <1>1, GrowInvariant, PTL DEF Spec, DurableGrows

LEMMA RefinedNext ==
    ASSUME GrowInv, [Next]_vars
    PROVE  [View!RVNext]_View!viewVars
<1> USE DEF View!viewVars, View!RVNext
<1>t. TypeInv /\ acc \in Views
    BY DEF GrowInv, HandoffInv, TypeInv, TypeOK
<1>k. final' = final => Durable' = Durable
    BY SameCopy
<1>1. CASE Unseen
    BY <1>k, <1>1 DEF Unseen, Live, View!Halt
<1>2. CASE ComesUp
    BY <1>t, <1>k, <1>2, CopyType DEF ComesUp, Live, View!Recover
<1>3. CASE Copies
  <2>1. View!Covers(acc', acc)
    BY <1>t, <1>3, PlusCovers DEF Copies, View!Covers
  <2>2. Durable = NoFile
    BY <1>t, <1>3, CopyType
       DEF Copies, GrowInv, HandoffInv, Bootstrapping
  <2> QED
    BY <1>k, <1>3, <2>1, <2>2 DEF Copies, Live, View!Preload
<1>4. CASE Bootstraps
  <2>1. Durable = NoFile /\ Saved = {}
    BY <1>t, <1>4, CopyType
       DEF Bootstraps, GrowInv, HandoffInv, Bootstrapping
  <2> QED
    BY <1>4, <2>1
       DEF Bootstraps, Live, View!FirstCopy, View!FirstCopyTorn,
           View!NoChanges, Zero
<1>5. CASE Applies
  <2>1. View!Covers(acc', acc)
    BY <1>t, <1>5, PlusCovers DEF Applies, View!Covers
  <2> QED
    BY <1>k, <1>5, <2>1 DEF Applies, View!Advance
<1>6. CASE Renames
    BY <1>6 DEF Renames, View!Persist
<1>7. CASE Dies
    BY <1>k, <1>7 DEF Dies, Live, View!Forget, View!NoChanges, Zero
<1> QED
    BY <1>t, <1>1, <1>2, <1>3, <1>4, <1>5, <1>6, <1>7, RecoverySteps

\* What the pipeline shows of itself is a recoverable view, from the table copy
\* on: a restart resumes from the copy on disk, which is a view it really had.
THEOREM RefinesRecoverableView == Spec => ImplementsRecoverableView
<1>1. Init => View!RVInit
    BY DEF Init, View!RVInit, Live, Zero, View!NoChanges, Durable, Saved,
           EmptyDir
<1>2. GrowInv /\ [Next]_vars => [View!RVNext]_View!viewVars
    BY RefinedNext
<1> QED
    BY <1>1, <1>2, GrowInvariant, PTL
       DEF Spec, ImplementsRecoverableView, View!RVSpec
=============================================================================
