----------------------- MODULE ViewMaintenanceProofs -----------------------
(***************************************************************************)
(* Theorems about the two that run plans and operators: ViewMaintenance,   *)
(* for any configurations, rows and bounds, and SqlEndpoint, for any       *)
(* requests.  What the operators do to a Z-set is proved in ZSetProofs.    *)
(***************************************************************************)
EXTENDS ViewMaintenance, SqlEndpoint, ZSetProofs, SequenceTheorems

LEMMA DeltasAreZSets ==
    ASSUME NEW rows, NEW z, NEW d \in Deltas(rows, z)
    PROVE  IsZSet(d) /\ DOMAIN d \subseteq rows
<1>1. PICK S \in SUBSET rows :
        IsFiniteSet(S) /\ d \in [S -> (-MaxWeight..MaxWeight) \ {0}]
    BY DEF Deltas
<1>2. \A r \in S : d[r] \in Int \ {0}
    BY <1>1, ViewAssumption
<1> QED
    BY <1>1, <1>2 DEF IsZSet, Canonical

-----------------------------------------------------------------------------
(***************************************************************************)
(* The join.  The joined rows are the join of the histories, for every row *)
(* and not only those that can be joined from the inputs.                  *)
(***************************************************************************)
JoinInv ==
    /\ IsZSet(left_history) /\ IsZSet(right_history) /\ IsZSet(joined)
    /\ \A row : Weight(joined, row) = JoinSum(JoinKey, row, left_history, right_history)

LEMMA EmptyJoin ==
    /\ IsZSet(Empty)
    /\ \A row : Weight(Empty, row) = JoinSum(JoinKey, row, Empty, Empty)
<1>1. \A row : Pairs(JoinKey, row, DOMAIN Empty, DOMAIN Empty) = {}
    BY EmptyIsZSet DEF Pairs
<1> QED
    BY <1>1, EmptyIsZSet, SumEmpty DEF JoinSum

LEMMA JoinNext ==
    JoinInv /\ [Next]_vars => JoinInv'
<1> SUFFICES ASSUME JoinInv, [Next]_vars PROVE JoinInv'
    OBVIOUS
<1> USE DEF JoinInv
<1>1. CASE UNCHANGED joinVars
    BY <1>1 DEF joinVars
<1>2. CASE left_history' = Empty /\ right_history' = Empty /\ joined' = Empty
    BY <1>2, EmptyJoin
<1>3. ASSUME NEW left \in Deltas(LeftRows, left_history),
             NEW right \in Deltas(RightRows, right_history),
             ApplyJoinDelta(left, right)
      PROVE  JoinInv'
  <2> DEFINE out == JoinDelta(left_history, right_history, left, right, JoinKey)
  <2>1. IsZSet(left) /\ IsZSet(right)
    BY DeltasAreZSets
  <2>2. /\ IsZSet(out)
        /\ \A r : JoinSum(JoinKey, r, Merge(left_history, left), Merge(right_history, right))
                    = JoinSum(JoinKey, r, left_history, right_history) + Weight(out, r)
    BY <2>1, JoinDeltaIsChange
  <2>3. /\ joined' = Merge(joined, out)
        /\ left_history' = Merge(left_history, left)
        /\ right_history' = Merge(right_history, right)
    BY <1>3 DEF ApplyJoinDelta
  <2> HIDE DEF out
  <2>4. IsZSet(left_history') /\ IsZSet(right_history')
    BY <2>1, <2>3, MergeAdds
  <2>5. IsZSet(joined') /\ \A r : Weight(joined', r) = Weight(joined, r) + Weight(out, r)
    BY <2>2, <2>3, MergeAdds
  <2> QED
    BY <2>2, <2>3, <2>4, <2>5
<1>4. CASE UNCHANGED vars
    BY <1>1, <1>4 DEF vars
<1>5. CASE Restart
    BY <1>2, <1>5 DEF Restart
<1>6. ASSUME NEW delta, NEW order, ApplyBatch(delta, order) PROVE JoinInv'
    BY <1>1, <1>6 DEF ApplyBatch
<1>7. CASE Save \/ Reload
    BY <1>1, <1>7 DEF Save, Reload
<1>8. ASSUME NEW rows, Bootstrap(rows) PROVE JoinInv'
    BY <1>1, <1>8 DEF Bootstrap
<1> QED
    BY <1>3, <1>4, <1>5, <1>6, <1>7, <1>8 DEF Next

LEMMA JoinWeightIsJoinSum ==
    \A row, left, right : JoinWeight(row, left, right) = JoinSum(JoinKey, row, left, right)
    BY DEF JoinWeight, JoinSum, Products, Pairs

\* apply_join_delta maintains the join of everything it was given
\* (JoinState::apply_delta, crates/operators/src/join.rs): for any inputs, any
\* batches and any mix of inserts and deletes.
THEOREM JoinMaintained == Spec => []JoinIsMaintained
<1>1. Init => JoinInv
    BY EmptyJoin DEF Init, JoinInv
<1>2. JoinInv => JoinIsMaintained
    BY JoinWeightIsJoinSum DEF JoinInv, JoinIsMaintained
<1> QED
    BY <1>1, <1>2, JoinNext, PTL DEF Spec

-----------------------------------------------------------------------------
(***************************************************************************)
(* What apply_batch makes of a batch is a fold over the operators, or over *)
(* the nodes of the plan.  It has a trace: the state after each of them.   *)
(***************************************************************************)
Step(kind, state, x, sources, order) ==
    CASE kind = "plan" -> ExecuteNode(state, x, sources, order)
      [] kind = "operators" -> RunOperator(state, x, order)
      [] kind = "rows" -> Insert(state, x.fields, x.weight)

\* F is the fold of Step over all subsets of D, the last position last.
Folds(kind, seq, base, sources, order, D, F) ==
    F = [s \in SUBSET D |->
            IF s = {} THEN base
            ELSE Step(kind, F[s \ {Max(s)}], seq[Max(s)], sources, order)]

HasLast(D) == \A s \in SUBSET D : s # {} => Max(s) \in s /\ s \ {Max(s)} \in SUBSET s

LEMMA IntervalHasLast ==
    ASSUME NEW n \in Nat
    PROVE  IsFiniteSet(1..n) /\ HasLast(1..n)
<1>1. ASSUME NEW s \in SUBSET (1..n), s # {} PROVE Max(s) \in s
  <2>1. s \in SUBSET Nat /\ \A x \in s : x <= n
    OBVIOUS
  <2> QED
    BY <1>1, <2>1, GreatestNatural
<1>2. IsFiniteSet(1..n)
    BY FS_Interval
<1> QED
    BY <1>1, <1>2 DEF HasLast

LEMMA FoldsAgree ==
    ASSUME NEW kind, NEW seq, NEW base, NEW sources, NEW order,
           NEW D, IsFiniteSet(D), HasLast(D), NEW E \in SUBSET D,
           NEW F, Folds(kind, seq, base, sources, order, D, F),
           NEW H, Folds(kind, seq, base, sources, order, E, H)
    PROVE  \A s \in SUBSET E : F[s] = H[s]
<1> DEFINE Good == {s \in SUBSET E : F[s] = H[s]}
<1>1. ASSUME NEW s \in SUBSET E, \A t \in SUBSET s : t # s => t \in Good
      PROVE  s \in Good
  <2>1. CASE s = {}
    BY <2>1 DEF Folds
  <2>2. CASE s # {}
    <3> DEFINE t == s \ {Max(s)}
    <3>1. t \in SUBSET s /\ t # s
        BY <2>2 DEF HasLast
    <3>2. F[t] = H[t]
        BY <1>1, <3>1
    <3>3. /\ F[s] = Step(kind, F[t], seq[Max(s)], sources, order)
          /\ H[s] = Step(kind, H[t], seq[Max(s)], sources, order)
        BY <2>2 DEF Folds
    <3> QED
        BY <3>2, <3>3
  <2> QED
    BY <2>1, <2>2
<1>2. IsFiniteSet(E)
    BY FS_Subset
<1>3. \A s \in SUBSET E : s \in Good
  <2> HIDE DEF Good
  <2> QED
    BY <1>1, <1>2, SubsetInduction
<1> QED
    BY <1>3

LEMMA FoldsExist ==
    ASSUME NEW kind, NEW seq, NEW base, NEW sources, NEW order,
           NEW D, IsFiniteSet(D), HasLast(D)
    PROVE  \E F : Folds(kind, seq, base, sources, order, D, F)
<1> DEFINE Is(s, F) == Folds(kind, seq, base, sources, order, s, F)
           Good == {s \in SUBSET D : \E F : Is(s, F)}
           G(s) == CHOOSE F : Is(s, F)
           Do(state, x) == Step(kind, state, seq[x], sources, order)
<1>1. ASSUME NEW s \in SUBSET D, \A t \in SUBSET s : t # s => t \in Good
      PROVE  s \in Good
  <2>1. \A t \in SUBSET s : t # s => Is(t, G(t)) /\ IsFiniteSet(t)
    BY <1>1, FS_Subset
  <2> DEFINE c == Max(s)
             H == [t \in SUBSET s |->
                    IF t # s THEN G(t)[t]
                    ELSE IF s = {} THEN base ELSE Do(G(s \ {c})[s \ {c}], c)]
  <2>2. ASSUME NEW t \in SUBSET s
        PROVE  H[t] = IF t = {} THEN base ELSE Do(H[t \ {Max(t)}], Max(t))
    <3>1. CASE t = s
      <4>1. s # {} => s \ {c} \in SUBSET s /\ s \ {c} # s
        BY DEF HasLast
      <4> HIDE DEF G, Do
      <4> QED
        BY <3>1, <4>1
    <3>2. CASE t # s /\ t = {}
      <4>1. Is(t, G(t)) /\ H[t] = G(t)[t]
        BY <2>1, <3>2
      <4> HIDE DEF G, H
      <4> QED
        BY <3>2, <4>1 DEF Folds
    <3>3. CASE t # s /\ t # {}
      <4> DEFINE u == t \ {Max(t)}
      <4>1. u \in SUBSET t /\ u # t /\ u # s /\ u \in SUBSET s
        BY <3>3 DEF HasLast
      <4>2. /\ Is(t, G(t)) /\ Is(u, G(u)) /\ IsFiniteSet(t)
            /\ H[t] = G(t)[t] /\ H[u] = G(u)[u]
        BY <2>1, <3>3, <4>1
      <4>3. HasLast(t)
        BY DEF HasLast
      <4> HIDE DEF G, H, u
      <4>4. G(t)[u] = G(u)[u]
        BY <4>1, <4>2, <4>3, FoldsAgree
      <4>5. G(t)[t] = Do(G(t)[u], Max(t))
        BY <3>3, <4>2 DEF Folds, u
      <4> QED
        BY <3>3, <4>2, <4>4, <4>5 DEF u
    <3> QED
        BY <3>1, <3>2, <3>3
  <2>3. Is(s, H)
    <3> HIDE DEF G, c
    <3>1. \A t \in SUBSET s :
            H[t] = IF t = {} THEN base ELSE Do(H[t \ {Max(t)}], Max(t))
        BY <2>2
    <3>2. H = [t \in SUBSET s |-> H[t]]
        OBVIOUS
    <3> HIDE DEF H
    <3> QED
        BY <3>1, <3>2 DEF Folds
  <2> QED
    BY <2>3
<1>2. \A s \in SUBSET D : s \in Good
  <2> HIDE DEF Good
  <2> QED
    BY <1>1, SubsetInduction
<1> QED
    BY <1>2

\* The state before the first, and after the i-th of the n members of seq.
Trace(kind, seq, n, base, sources, order, f) ==
    /\ f[0] = base
    /\ \A i \in 1..n : f[i] = Step(kind, f[i - 1], seq[i], sources, order)

LEMMA FoldsHaveTraces ==
    ASSUME NEW kind, NEW seq, NEW base, NEW sources, NEW order, NEW n \in Nat,
           NEW F, Folds(kind, seq, base, sources, order, 1..n, F)
    PROVE  \E f : Trace(kind, seq, n, base, sources, order, f) /\ f[n] = F[1..n]
<1> DEFINE f == [i \in 0..n |-> F[1..i]]
<1>1. f[0] = base
  <2>1. 1..0 = {} /\ {} \in SUBSET (1..n)
    OBVIOUS
  <2>2. F[{}] = base
    BY <2>1 DEF Folds
  <2> QED
    BY <2>1, <2>2
<1>2. ASSUME NEW i \in 1..n
      PROVE  f[i] = Step(kind, f[i - 1], seq[i], sources, order)
  <2>1. Max(1..i) = i
    <3>1. i \in 1..i /\ \A y \in 1..i : i >= y
        OBVIOUS
    <3>2. \A x \in 1..i : (\A y \in 1..i : x >= y) => x = i
        OBVIOUS
    <3> QED
        BY <3>1, <3>2 DEF Max
  <2>2. (1..i) \ {i} = 1..(i - 1) /\ 1..i # {} /\ 1..i \in SUBSET (1..n)
    <3>1. i \in Nat \ {0} /\ i <= n
        OBVIOUS
    <3> HIDE DEF f
    <3>2. (1..i) \ {i} = 1..(i - 1)
        BY <3>1
    <3>3. i \in 1..i /\ \A j \in 1..i : j \in 1..n
        BY <3>1
    <3> QED
        BY <3>2, <3>3
  <2>3. F[1..i] = Step(kind, F[1..(i - 1)], seq[i], sources, order)
    <3>1. F[1..i] = Step(kind, F[(1..i) \ {Max(1..i)}], seq[Max(1..i)], sources, order)
        BY <2>2 DEF Folds
    <3> QED
        BY <2>1, <2>2, <3>1
  <2> QED
    BY <2>3
<1>3. f[n] = F[1..n]
    OBVIOUS
<1> HIDE DEF f
<1> QED
    BY <1>1, <1>2, <1>3 DEF Trace

-----------------------------------------------------------------------------
(***************************************************************************)
(* The nodes of a plan, and the order an aggregate visits the rows in.     *)
(***************************************************************************)
ScanNode(select) == [node |-> "scan", table |-> select.from]
JoinNode(join) ==
    [node |-> "join", table |-> join.table, left_key |-> join.left,
     right_key |-> join.right]
FilterNode(select) == [node |-> "filter", predicate |-> Range(select.where)]
AggregateNode(select) ==
    [node |-> "aggregate", group_by |-> select.group_by,
     aggregates |-> Aggregates(select)]
ProjectNode(select) == [node |-> "project", columns |-> ColumnNames(select)]

Nodes(select) ==
    {ScanNode(select), FilterNode(select), AggregateNode(select), ProjectNode(select)}
        \cup {JoinNode(join) : join \in Range(select.joins)}

Joins(select) ==
    [i \in DOMAIN select.joins |->
        [node |-> "join", table |-> select.joins[i].table,
         left_key |-> select.joins[i].left, right_key |-> select.joins[i].right]]
Filters(select) == IF select.where = <<>> THEN <<>> ELSE <<FilterNode(select)>>

LEMMA PlanParts ==
    ASSUME NEW select, select.joins \in Seq(Range(select.joins))
    PROVE  /\ PlanSelect(select) =
                <<ScanNode(select)>> \o Joins(select) \o Filters(select)
                    \o AggregateOrProject(select)
           /\ <<ScanNode(select)>> \in Seq(Nodes(select))
           /\ Joins(select) \in Seq(Nodes(select))
           /\ Filters(select) \in Seq(Nodes(select))
           /\ AggregateOrProject(select) \in Seq(Nodes(select))
           /\ AggregateOrProject(select) =
                IF HasAggregate(select) THEN <<AggregateNode(select)>>
                ELSE IF ColumnNames(select) = {} THEN <<>>
                ELSE <<ProjectNode(select)>>
<1>1. PlanSelect(select) =
        <<ScanNode(select)>> \o Joins(select) \o Filters(select)
            \o AggregateOrProject(select)
    BY DEF PlanSelect, ScanNode, Joins, Filters, FilterNode
<1>2. Joins(select) \in Seq(Nodes(select))
  <2>1. \A i \in DOMAIN select.joins : Joins(select)[i] = JoinNode(select.joins[i])
    BY DEF Joins, JoinNode
  <2>2. \A i \in DOMAIN select.joins : Joins(select)[i] \in Nodes(select)
    BY <2>1 DEF Nodes, Range
  <2>3. DOMAIN select.joins = 1..Len(select.joins) /\ Len(select.joins) \in Nat
    OBVIOUS
  <2>4. Joins(select) \in [1..Len(select.joins) -> Nodes(select)]
    BY <2>2, <2>3 DEF Joins
  <2> QED
    BY <2>3, <2>4
<1>3. AggregateOrProject(select) =
        IF HasAggregate(select) THEN <<AggregateNode(select)>>
        ELSE IF ColumnNames(select) = {} THEN <<>>
        ELSE <<ProjectNode(select)>>
    BY DEF AggregateOrProject, AggregateNode, ProjectNode
<1>4. /\ <<ScanNode(select)>> \in Seq(Nodes(select))
      /\ Filters(select) \in Seq(Nodes(select))
      /\ AggregateOrProject(select) \in Seq(Nodes(select))
  <2>1. \A S, x : x \in S => <<x>> \in Seq(S) /\ <<>> \in Seq(S)
    OBVIOUS
  <2>2. {ScanNode(select), FilterNode(select), AggregateNode(select), ProjectNode(select)}
            \subseteq Nodes(select)
    BY DEF Nodes
  <2> QED
    BY <1>3, <2>1, <2>2 DEF Filters
<1> QED
    BY <1>1, <1>2, <1>3, <1>4

LEMMA PlanIsNodes ==
    ASSUME NEW select, select.joins \in Seq(Range(select.joins))
    PROVE  PlanSelect(select) \in Seq(Nodes(select))
<1> DEFINE a == <<ScanNode(select)>>
           b == Joins(select)
           c == Filters(select)
           d == AggregateOrProject(select)
           S == Nodes(select)
<1>1. PlanSelect(select) = a \o b \o c \o d /\ a \in Seq(S) /\ b \in Seq(S)
        /\ c \in Seq(S) /\ d \in Seq(S)
    BY PlanParts
<1> HIDE DEF a, b, c, d, S
<1>2. a \o b \in Seq(S)
    BY <1>1, ConcatProperties
<1>3. a \o b \o c \in Seq(S)
    BY <1>1, <1>2, ConcatProperties
<1>4. a \o b \o c \o d \in Seq(S)
    BY <1>1, <1>3, ConcatProperties
<1> QED
    BY <1>1, <1>4 DEF S

LEMMA ShortConcats ==
    /\ \A x : <<x>> \o <<>> = <<x>>
    /\ \A x, y : <<x>> \o <<y>> = <<x, y>> /\ <<x, y>> \o <<>> = <<x, y>>
    /\ \A x, y, z : <<x, y>> \o <<z>> = <<x, y, z>>
<1>1. ASSUME NEW x, NEW y, NEW z
      PROVE  /\ <<x>> \o <<>> = <<x>>
             /\ <<x>> \o <<y>> = <<x, y>> /\ <<x, y>> \o <<>> = <<x, y>>
             /\ <<x, y>> \o <<z>> = <<x, y, z>>
  <2> DEFINE S == {x, y, z}
  <2>1. /\ <<>> \in Seq(S) /\ <<x>> \in Seq(S) /\ <<y>> \in Seq(S) /\ <<z>> \in Seq(S)
        /\ <<x, y>> \in Seq(S) /\ <<x, y, z>> \in Seq(S)
    OBVIOUS
  <2> HIDE DEF S
  <2>2. <<x>> \o <<>> = <<x>> /\ <<x, y>> \o <<>> = <<x, y>>
    BY <2>1, ConcatEmptySeq
  <2>3. /\ <<x>> \o <<y>> \in Seq(S) /\ Len(<<x>> \o <<y>>) = 2
        /\ (<<x>> \o <<y>>)[1] = x /\ (<<x>> \o <<y>>)[2] = y
    BY <2>1, ConcatProperties
  <2>4. /\ <<x, y>> \o <<z>> \in Seq(S) /\ Len(<<x, y>> \o <<z>>) = 3
        /\ (<<x, y>> \o <<z>>)[1] = x /\ (<<x, y>> \o <<z>>)[2] = y
        /\ (<<x, y>> \o <<z>>)[3] = z
    BY <2>1, ConcatProperties
  <2>5. <<x>> \o <<y>> = <<x, y>>
    <3>1. Len(<<x, y>>) = 2 /\ \A i \in 1..2 : (<<x>> \o <<y>>)[i] = <<x, y>>[i]
        BY <2>3
    <3> QED
        BY <2>1, <2>3, <3>1, SeqEqual
  <2>6. <<x, y>> \o <<z>> = <<x, y, z>>
    <3>1. /\ Len(<<x, y, z>>) = 3
          /\ \A i \in 1..3 : (<<x, y>> \o <<z>>)[i] = <<x, y, z>>[i]
        BY <2>4
    <3> QED
        BY <2>1, <2>4, <3>1, SeqEqual
  <2> QED
    BY <2>2, <2>5, <2>6
<1> QED
    BY <1>1

\* Without a JOIN there are at most three nodes.
LEMMA ShortPlan ==
    ASSUME NEW select, select.joins = <<>>
    PROVE  PlanSelect(select) =
            IF select.where = <<>>
               THEN IF HasAggregate(select)
                       THEN <<ScanNode(select), AggregateNode(select)>>
                    ELSE IF ColumnNames(select) = {} THEN <<ScanNode(select)>>
                    ELSE <<ScanNode(select), ProjectNode(select)>>
               ELSE IF HasAggregate(select)
                       THEN <<ScanNode(select), FilterNode(select), AggregateNode(select)>>
                    ELSE IF ColumnNames(select) = {}
                            THEN <<ScanNode(select), FilterNode(select)>>
                    ELSE <<ScanNode(select), FilterNode(select), ProjectNode(select)>>
<1>1. select.joins \in Seq(Range(select.joins)) /\ DOMAIN select.joins = {}
    BY DEF Range
<1>2. Joins(select) = <<>>
    BY <1>1 DEF Joins
<1>3. PlanSelect(select) =
        <<ScanNode(select)>> \o <<>> \o Filters(select) \o AggregateOrProject(select)
    BY <1>1, <1>2, PlanParts
<1>4. AggregateOrProject(select) =
        IF HasAggregate(select) THEN <<AggregateNode(select)>>
        ELSE IF ColumnNames(select) = {} THEN <<>>
        ELSE <<ProjectNode(select)>>
    BY <1>1, PlanParts
<1>5. <<ScanNode(select)>> \o <<>> = <<ScanNode(select)>>
    BY ShortConcats, Zenon
<1>6. PlanSelect(select) =
        <<ScanNode(select)>> \o Filters(select) \o AggregateOrProject(select)
    BY <1>3, <1>5
<1>7. CASE select.where = <<>>
  <2>1. Filters(select) = <<>>
    BY <1>7 DEF Filters
  <2>2. PlanSelect(select) = <<ScanNode(select)>> \o AggregateOrProject(select)
    BY <1>5, <1>6, <2>1
  <2> QED
    BY <1>4, <1>7, <2>2, ShortConcats
<1>8. CASE select.where # <<>>
  <2>1. Filters(select) = <<FilterNode(select)>>
    BY <1>8 DEF Filters
  <2>2. <<ScanNode(select)>> \o <<FilterNode(select)>> =
            <<ScanNode(select), FilterNode(select)>>
    BY ShortConcats, Zenon
  <2>3. PlanSelect(select) =
            <<ScanNode(select), FilterNode(select)>> \o AggregateOrProject(select)
    BY <1>6, <2>1, <2>2
  <2> QED
    BY <1>4, <1>8, <2>3, ShortConcats
<1> QED
    BY <1>7, <1>8

LEMMA ArrangeArranges ==
    ASSUME NEW z, IsZSet(z), NEW S, IsFiniteSet(S), NEW order \in SetToSeqs(S)
    PROVE  Arranges(Arrange(z, order), DOMAIN z)
<1>1. Cardinality(S) \in Nat
    BY FS_CardinalityType
<1>2. /\ DOMAIN order = 1..Cardinality(S)
      /\ \A i, j \in DOMAIN order : i # j => order[i] # order[j]
    BY DEF SetToSeqs
<1>3. CASE DOMAIN z \subseteq Range(order)
    BY <1>1, <1>2, <1>3 DEF Arrange, Arranges, Range
<1>4. CASE ~(DOMAIN z \subseteq Range(order))
  <2>1. Arrange(z, order) = SetToSeq(DOMAIN z)
    BY <1>4 DEF Arrange
  <2> QED
    BY <2>1, SetToSeqArranges DEF IsZSet
<1> QED
    BY <1>3, <1>4

LEMMA PlanHasTrace ==
    ASSUME NEW select, NEW n \in Nat, DOMAIN PlanSelect(select) = 1..n,
           NEW sources, NEW old, NEW order
    PROVE  \E f : /\ Trace("plan", PlanSelect(select), n,
                           [result |-> old, out |-> Empty], sources, order, f)
                  /\ Execute(PlanSelect(select), sources, old, order) = f[n]
<1> DEFINE plan == PlanSelect(select)
           start == [result |-> old, out |-> Empty]
           Eq(H) == H = [s \in SUBSET DOMAIN plan |->
                            IF s = {} THEN start
                            ELSE ExecuteNode(H[s \ {Max(s)}], plan[Max(s)],
                                             sources, order)]
           F == CHOOSE H : Eq(H)
<1> HIDE DEF plan
<1>1. \A H : Folds("plan", plan, start, sources, order, DOMAIN plan, H) <=> Eq(H)
    BY DEF Folds, Step
<1>2. \E H : Folds("plan", plan, start, sources, order, DOMAIN plan, H)
  <2>1. IsFiniteSet(DOMAIN plan) /\ HasLast(DOMAIN plan)
    BY IntervalHasLast DEF plan
  <2> HIDE DEF start
  <2> QED
    BY <2>1, FoldsExist
<1>3. Execute(plan, sources, old, order) = F[DOMAIN plan]
    BY DEF Execute, FoldLeft, MapThenFoldSet
<1> HIDE DEF Eq, start
<1>4. Folds("plan", plan, start, sources, order, DOMAIN plan, F)
    BY <1>1, <1>2
<1> HIDE DEF F
<1>5. DOMAIN plan = 1..n
    BY DEF plan
<1>6. Folds("plan", plan, start, sources, order, 1..n, F)
    BY <1>4, <1>5, Zenon
<1>7. \E f : Trace("plan", plan, n, start, sources, order, f) /\ f[n] = F[1..n]
    BY <1>6, FoldsHaveTraces
<1> QED
    BY <1>3, <1>5, <1>7 DEF start, plan

Sources(delta) == [t \in {SourceTable} |-> delta]

LEMMA RunHasTrace ==
    ASSUME UsesSql, NEW n \in Nat, DOMAIN PlanSelect(config.sql) = 1..n,
           NEW delta, NEW order
    PROVE  \E f : /\ Trace("plan", PlanSelect(config.sql), n,
                           [result |-> result, out |-> Empty], Sources(delta), order, f)
                  /\ Run(delta, order) = f[n]
<1>1. Run(delta, order) = Execute(PlanSelect(config.sql), Sources(delta), result, order)
    BY DEF Run, Sources
<1> QED
    BY <1>1, PlanHasTrace

LEMMA OperatorsHaveTrace ==
    ASSUME ~UsesSql, NEW n \in Nat, DOMAIN config.ops = 1..n, NEW delta, NEW order
    PROVE  \E f : /\ Trace("operators", config.ops, n, [result |-> result, out |-> delta],
                           <<>>, order, f)
                  /\ Run(delta, order) = f[n]
<1> DEFINE ops == config.ops
           start == [result |-> result, out |-> delta]
           Eq(H) == H = [s \in SUBSET DOMAIN ops |->
                            IF s = {} THEN start
                            ELSE RunOperator(H[s \ {Max(s)}], ops[Max(s)], order)]
           F == CHOOSE H : Eq(H)
<1>1. \A H : Folds("operators", ops, start, <<>>, order, DOMAIN ops, H) <=> Eq(H)
    BY DEF Folds, Step
<1>2. \E H : Folds("operators", ops, start, <<>>, order, DOMAIN ops, H)
  <2> HIDE DEF start
  <2> QED
    BY IntervalHasLast, FoldsExist
<1>3. Run(delta, order) = F[DOMAIN ops]
    BY DEF Run, FoldLeft, MapThenFoldSet
<1> HIDE DEF Eq, start
<1>4. Folds("operators", ops, start, <<>>, order, DOMAIN ops, F)
    BY <1>1, <1>2
<1> HIDE DEF F
<1>5. Folds("operators", ops, start, <<>>, order, 1..n, F)
    BY <1>4, Zenon
<1>6. \E f : Trace("operators", ops, n, start, <<>>, order, f) /\ f[n] = F[1..n]
    BY <1>5, FoldsHaveTraces
<1> QED
    BY <1>3, <1>6 DEF start

-----------------------------------------------------------------------------
(***************************************************************************)
(* No row of weight 0: every operator and every node makes a Z-set of a    *)
(* Z-set, whatever the configuration.                                      *)
(***************************************************************************)
IsState(state) ==
    /\ state = [result |-> state.result, out |-> state.out]
    /\ IsGroups(state.result)
    /\ IsZSet(state.out)

LEMMA FilterKeeps ==
    ASSUME NEW z, IsZSet(z), NEW passing
    PROVE  /\ IsZSet(Filter(z, passing))
           /\ DOMAIN Filter(z, passing) = DOMAIN z \cap passing
           /\ \A r : Weight(Filter(z, passing), r) =
                        IF r \in passing THEN Weight(z, r) ELSE 0
<1>1. IsFiniteSet(DOMAIN z \cap passing)
    BY FS_Subset DEF IsZSet
<1> QED
    BY <1>1 DEF IsZSet, Canonical, Filter, Restrict, Weight

LEMMA GetIntType == \A row, column : GetInt(row, column) \in Int
    BY DEF GetInt

LEMMA AggregateKeeps ==
    ASSUME NEW state, IsState(state), NEW S, IsFiniteSet(S), NEW order \in SetToSeqs(S),
           NEW key, NEW agg, \A row \in DOMAIN state.out : agg[row] \in Int
    PROVE  IsState(ApplyAggregate(state.result, state.out, Arrange(state.out, order),
                                  key, agg))
<1>1. Arranges(Arrange(state.out, order), DOMAIN state.out)
    BY ArrangeArranges DEF IsState
<1> QED
    BY <1>1, AggregateIsChange DEF IsState

LEMMA OperatorKeeps ==
    ASSUME NEW state, IsState(state), NEW S, IsFiniteSet(S), NEW order \in SetToSeqs(S),
           NEW op,
           op.type \in {"filter", "aggregate_count", "aggregate_sum", "join"}
    PROVE  IsState(RunOperator(state, op, order))
<1>1. CASE op.type = "filter"
  <2> DEFINE P == {row \in DOMAIN state.out : PassesFilter(op, row)}
  <2>1. RunOperator(state, op, order) = [state EXCEPT !.out = Filter(state.out, P)]
    BY <1>1 DEF RunOperator, IsAggregateOp
  <2> HIDE DEF P
  <2>2. RunOperator(state, op, order) =
            [result |-> state.result, out |-> Filter(state.out, P)]
    BY <2>1 DEF IsState
  <2>3. IsZSet(Filter(state.out, P))
    BY FilterKeeps DEF IsState
  <2> QED
    BY <2>2, <2>3 DEF IsState
<1>2. CASE op.type \in {"aggregate_count", "aggregate_sum"}
  <2> DEFINE k == [row \in DOMAIN state.out |-> StateKey(row)]
             v == [row \in DOMAIN state.out |-> StateValue(row)]
  <2>1. RunOperator(state, op, order) =
            ApplyAggregate(state.result, state.out, Arrange(state.out, order), k, v)
    BY <1>2 DEF RunOperator, IsAggregateOp
  <2>2. \A row \in DOMAIN state.out : v[row] \in Int
    BY GetIntType DEF StateValue
  <2> HIDE DEF k, v
  <2> QED
    BY <2>1, <2>2, AggregateKeeps
<1>3. CASE op.type = "join"
  <2>1. RunOperator(state, op, order) = state
    BY <1>3 DEF RunOperator, IsAggregateOp
  <2> QED
    BY <2>1
<1> QED
    BY <1>1, <1>2, <1>3

LEMMA ScanKeeps ==
    ASSUME NEW delta, IsZSet(delta), NEW table
    PROVE  IsZSet(Scan(table, Sources(delta)))
    BY EmptyIsZSet DEF Scan, Sources

LEMMA NodeKeeps ==
    ASSUME NEW state, IsState(state), NEW S, IsFiniteSet(S), NEW order \in SetToSeqs(S),
           NEW delta, IsZSet(delta), NEW select, NEW node \in Nodes(select)
    PROVE  IsState(ExecuteNode(state, node, Sources(delta), order))
<1> DEFINE z == state.out
           next == ExecuteNode(state, node, Sources(delta), order)
<1>1. IsZSet(z)
    BY DEF IsState
<1>2. \A y : [state EXCEPT !.out = y] = [result |-> state.result, out |-> y]
    BY DEF IsState
<1>3. CASE node = ScanNode(select)
  <2>1. next = [state EXCEPT !.out = Scan(node.table, Sources(delta))]
    BY <1>3 DEF ExecuteNode, ScanNode
  <2> QED
    BY <1>2, <2>1, ScanKeeps DEF IsState
<1>4. CASE node = FilterNode(select)
  <2> DEFINE P == {row \in DOMAIN z : EvalPredicate(node.predicate, row)}
  <2>1. next = [state EXCEPT !.out = Filter(z, P)]
    BY <1>4 DEF ExecuteNode, FilterNode
  <2> HIDE DEF P
  <2>2. IsZSet(Filter(z, P))
    BY <1>1, FilterKeeps
  <2> QED
    BY <1>2, <2>1, <2>2 DEF IsState
<1>5. CASE node = ProjectNode(select)
  <2>1. next = [state EXCEPT !.out =
                    Map(z, [row \in DOMAIN z |-> Project(row, node.columns)])]
    BY <1>5 DEF ExecuteNode, ProjectNode
  <2> QED
    BY <1>1, <1>2, <2>1, MapAdds DEF IsState
<1>6. ASSUME NEW join, node = JoinNode(join)
      PROVE  IsState(next)
  <2>1. next = [state EXCEPT !.out =
                    IncrementalJoin(z, Scan(node.table, Sources(delta)),
                                    node.left_key, node.right_key)]
    BY <1>6 DEF ExecuteNode, JoinNode
  <2>2. IsZSet(IncrementalJoin(z, Scan(node.table, Sources(delta)),
                               node.left_key, node.right_key))
    BY <1>1, ScanKeeps, ProbeAdds DEF IncrementalJoin
  <2> QED
    BY <1>2, <2>1, <2>2 DEF IsState
<1>7. CASE node = AggregateNode(select)
  <2> DEFINE k == [row \in DOMAIN z |-> GroupKey(node.group_by, row)]
             v == [row \in DOMAIN z |-> Contribution(node.aggregates, row)]
  <2>1. next = ApplyAggregate(state.result, z, Arrange(z, order), k, v)
    BY <1>7 DEF ExecuteNode, AggregateNode
  <2>2. \A row \in DOMAIN z : v[row] \in Int
    BY GetIntType DEF Contribution
  <2> HIDE DEF k, v, next
  <2> QED
    BY <2>1, <2>2, AggregateKeeps DEF next
<1> QED
    BY <1>3, <1>4, <1>5, <1>6, <1>7 DEF Nodes

\* Whatever the configuration, a batch yields a state of the aggregate and a
\* Z-set.
LEMMA RunKeeps ==
    ASSUME config \in Configs, IsGroups(result), NEW delta, IsZSet(delta),
           NEW order \in SetToSeqs(DOMAIN delta)
    PROVE  IsState(Run(delta, order))
<1>0. IsFiniteSet(DOMAIN delta)
    BY DEF IsZSet
<1>1. CASE UsesSql
  <2> DEFINE p == PlanSelect(config.sql)
             n == Len(p)
             start == [result |-> result, out |-> Empty]
  <2>1. p \in Seq(Nodes(config.sql))
    BY <1>1, PlanIsNodes, ViewAssumption DEF UsesSql
  <2>2. n \in Nat /\ DOMAIN p = 1..n /\ \A i \in 1..n : p[i] \in Nodes(config.sql)
    BY <2>1, LenProperties, ElementOfSeq
  <2> HIDE DEF n
  <2>3. PICK f : /\ Trace("plan", p, n, start, Sources(delta), order, f)
                 /\ Run(delta, order) = f[n]
    BY <1>1, <2>2, RunHasTrace
  <2> HIDE DEF p
  <2> DEFINE Good == {i \in 0..n : IsState(f[i])}
  <2>4. 0 \in Good
    BY <2>2, <2>3, EmptyIsZSet DEF Trace, IsState
  <2>5. ASSUME NEW i \in 1..n, i - 1 \in Good PROVE i \in Good
    <3>1. f[i] = ExecuteNode(f[i - 1], p[i], Sources(delta), order)
        BY <2>3 DEF Trace, Step
    <3>2. IsState(f[i])
        BY <1>0, <2>2, <2>5, <3>1, NodeKeeps
    <3> QED
        BY <2>2, <3>2
  <2>6. \A i \in 0..n : i \in Good
    <3> HIDE DEF Good
    <3> QED
        BY <2>2, <2>4, <2>5, Upwards
  <2> QED
    BY <2>2, <2>3, <2>6
<1>2. CASE ~UsesSql
  <2> DEFINE n == Len(config.ops)
             start == [result |-> result, out |-> delta]
  <2>1. /\ config.ops \in Seq(Range(config.ops))
        /\ \A op \in Range(config.ops) :
            op.type \in {"filter", "aggregate_count", "aggregate_sum", "join"}
    BY ViewAssumption
  <2>2. /\ n \in Nat /\ DOMAIN config.ops = 1..n
        /\ \A i \in 1..n : config.ops[i] \in Range(config.ops)
    BY <2>1, LenProperties, ElementOfSeq
  <2> HIDE DEF n
  <2>3. PICK f : /\ Trace("operators", config.ops, n, start, <<>>, order, f)
                 /\ Run(delta, order) = f[n]
    BY <1>2, <2>2, OperatorsHaveTrace
  <2> DEFINE Good == {i \in 0..n : IsState(f[i])}
  <2>4. 0 \in Good
    BY <2>2, <2>3 DEF Trace, IsState
  <2>5. ASSUME NEW i \in 1..n, i - 1 \in Good PROVE i \in Good
    <3>1. f[i] = RunOperator(f[i - 1], config.ops[i], order)
        BY <2>3 DEF Trace, Step
    <3>2. IsState(f[i])
        BY <1>0, <2>1, <2>2, <2>5, <3>1, OperatorKeeps
    <3> QED
        BY <2>2, <3>2
  <2>6. \A i \in 0..n : i \in Good
    <3> HIDE DEF Good
    <3> QED
        BY <2>2, <2>4, <2>5, Upwards
  <2> QED
    BY <2>2, <2>3, <2>6
<1> QED
    BY <1>1, <1>2

\* What is restored from a view that was written is a Z-set, and the view.
LEMMA ReadBack ==
    ASSUME NEW z, IsZSet(z)
    PROVE  /\ IsZSet(ReadRecords(Records(z)))
           /\ (\A r \in DOMAIN z : r # NoText) => ReadRecords(Records(z)) = z
<1> DEFINE S == {record \in Records(z) : record.row_json # NoText}
           k == [record \in S |-> record.row_json]
           w == [record \in S |-> record.weight]
           Eq(H) == H = [s \in SUBSET S |->
                            IF s = {} THEN Empty
                            ELSE Insert(H[s \ {One(s)}], One(s).row_json, One(s).weight)]
           F == CHOOSE H : Eq(H)
           Rec(row) == [row_json |-> row, weight |-> z[row]]
<1>1. S = {Rec(row) : row \in {row \in DOMAIN z : row # NoText}}
    BY DEF Records
<1>2. IsFiniteSet(S)
  <2> DEFINE T == {row \in DOMAIN z : row # NoText}
             p == [row \in T |-> Rec(row)]
  <2>1. IsFiniteSet(T)
    BY FS_Subset DEF IsZSet
  <2>2. S = {p[row] : row \in T}
    BY <1>1
  <2> HIDE DEF S, T, p
  <2> QED
    BY <2>1, <2>2, ImageIsFinite
<1>3. \A x \in S : w[x] \in Int /\ w[x] = x.weight /\ k[x] = x.row_json
    BY <1>1 DEF IsZSet, Canonical
<1> HIDE DEF S, k, w
<1>4. \A H : Inserts(Empty, k, w, S, H) <=> Eq(H)
  <2>1. \A s \in SUBSET S :
            s # {} => w[One(s)] = One(s).weight /\ k[One(s)] = One(s).row_json
    BY <1>3, OneIsMember
  <2> QED
    BY <2>1 DEF Inserts
<1>5. Inserts(Empty, k, w, S, F)
  <2>1. PICK H : Inserts(Empty, k, w, S, H)
    BY <1>2, <1>3, InsertsExist, EmptyIsZSet
  <2>2. Eq(F)
    BY <1>4, <2>1
  <2> QED
    BY <1>4, <2>2
<1>6. ReadRecords(Records(z)) = F[S]
    BY DEF ReadRecords, FoldSet, MapThenFoldSet, One, S
<1> HIDE DEF F, Eq
<1>7. Inserted(Empty, k, w, S, F[S])
    BY <1>2, <1>3, <1>5, InsertsBuild, EmptyIsZSet
<1>8. IsZSet(F[S])
    BY <1>7 DEF Inserted
<1>9. ASSUME \A r \in DOMAIN z : r # NoText, NEW row
      PROVE  Weight(F[S], row) = Weight(z, row)
  <2>1. Weight(F[S], row) = 0 + SumOver(w, Standing(k, S, row))
    BY <1>7, EmptyIsZSet DEF Inserted
  <2>2. CASE row \in DOMAIN z
    <3>1. Rec(row) \in S /\ k[Rec(row)] = row /\ w[Rec(row)] = z[row] /\ z[row] \in Int
        BY <1>1, <1>3, <1>9, <2>2 DEF IsZSet, Canonical
    <3>2. \A x \in S : k[x] = row => x = Rec(row)
        BY <1>1, <1>3
    <3> HIDE DEF Rec
    <3>3. Standing(k, S, row) = {Rec(row)}
        BY <3>1, <3>2 DEF Standing
    <3>4. SumOver(w, {Rec(row)}) = w[Rec(row)]
        BY <3>1, SumOfOne
    <3> QED
        BY <2>1, <2>2, <3>1, <3>3, <3>4 DEF Weight
  <2>3. CASE row \notin DOMAIN z
    <3>1. Standing(k, S, row) = {}
        BY <1>1, <1>3, <2>3 DEF Standing
    <3> QED
        BY <2>1, <2>3, <3>1, SumEmpty DEF Weight
  <2> QED
    BY <2>2, <2>3
<1>10. (\A r \in DOMAIN z : r # NoText) => F[S] = z
    BY <1>8, <1>9, SameWeights
<1> QED
    BY <1>6, <1>8, <1>10

ZSetInv ==
    /\ config \in Configs
    /\ IsZSet(acc)
    /\ IsGroups(result)
    /\ saved # NoSave => \E view : IsZSet(view) /\ saved.view = Records(view)

LEMMA RestoredIsZSet ==
    ASSUME ZSetInv, saved # NoSave
    PROVE  IsZSet(ReadRecords(saved.view))
    BY ReadBack DEF ZSetInv

LEMMA NoGroupsIsGroups == IsGroups(NoGroups)
    BY DEF NoGroups, IsGroups, Empty

LEMMA ZSetNext ==
    ZSetInv /\ [Next]_vars => ZSetInv'
<1> SUFFICES ASSUME ZSetInv, [Next]_vars PROVE ZSetInv'
    OBVIOUS
<1>1. ASSUME NEW delta \in Deltas(config.rows, source),
             NEW order \in SetToSeqs(DOMAIN delta), ApplyBatch(delta, order)
      PROVE  ZSetInv'
  <2> DEFINE applied == Run(delta, order)
  <2>1. IsZSet(delta)
    BY DeltasAreZSets
  <2>2. IsState(applied)
    BY <2>1, RunKeeps DEF ZSetInv
  <2>3. /\ result' = applied.result /\ acc' = Merge(acc, applied.out)
        /\ config' = config /\ saved' = saved
    BY <1>1 DEF ApplyBatch
  <2> HIDE DEF applied
  <2>4. IsZSet(acc') /\ IsGroups(result')
    BY <2>2, <2>3, MergeAdds DEF IsState, ZSetInv
  <2> QED
    BY <2>3, <2>4 DEF ZSetInv
<1>2. ASSUME NEW left, NEW right, ApplyJoinDelta(left, right) PROVE ZSetInv'
    BY <1>2 DEF ApplyJoinDelta, ZSetInv
<1>3. CASE Save
    BY <1>3 DEF Save, ZSetInv
<1>4. CASE Restart
    BY <1>4, RestoredIsZSet, NoGroupsIsGroups, EmptyIsZSet DEF Restart, ZSetInv
<1>5. CASE Reload
    BY <1>5, RestoredIsZSet DEF Reload, ZSetInv
<1>6. ASSUME NEW rows \in Deltas(config.rows, Empty), Bootstrap(rows) PROVE ZSetInv'
  <2>1. acc' = Merge(acc, rows) /\ saved' = [view |-> Records(acc'), source |-> rows]
        /\ config' = config /\ result' = result
    BY <1>6 DEF Bootstrap
  <2>2. IsZSet(acc')
    BY <2>1, DeltasAreZSets, MergeAdds DEF ZSetInv
  <2> QED
    BY <2>1, <2>2 DEF ZSetInv
<1>7. CASE UNCHANGED vars
    BY <1>7 DEF vars, ZSetInv
<1> QED
    BY <1>1, <1>2, <1>3, <1>4, <1>5, <1>6, <1>7 DEF Next

\* No row of weight 0 is stored, in the view, in the histories of the join or
\* in its output (ZSet::insert, crates/core/src/lib.rs), whatever the SELECT or
\* the list of operators, across checkpoints and restarts.
THEOREM NothingStoredWithWeightZero == Spec => []NoRowOfWeightZero
<1>1. Init => JoinInv /\ ZSetInv
    BY EmptyJoin, EmptyIsZSet, NoGroupsIsGroups DEF Init, JoinInv, ZSetInv
<1>2. JoinInv /\ ZSetInv => NoRowOfWeightZero
    BY DEF JoinInv, ZSetInv, IsZSet, NoRowOfWeightZero
<1> QED
    BY <1>1, <1>2, JoinNext, ZSetNext, PTL DEF Spec

-----------------------------------------------------------------------------
(***************************************************************************)
(* What a batch becomes: the selected rows, projected or aggregated.       *)
(***************************************************************************)
Chosen(z) == Filter(z, {row \in DOMAIN z : Selected(row)})
Wanted(select, z) == {row \in DOMAIN z : EvalPredicate(Range(select.where), row)}
Projections(select, z) == [row \in DOMAIN z |-> Project(row, ColumnNames(select))]
GroupKeys(select, z) == [row \in DOMAIN z |-> GroupKey(select.group_by, row)]
Contributed(select, z) == [row \in DOMAIN z |-> Contribution(Aggregates(select), row)]
GroupsOf(z) == [row \in DOMAIN z |-> GroupOf(row)]
ValuesOf(z) == [row \in DOMAIN z |-> ValueOf(row)]

\* The query reads the table the pipeline is fed with, and no other.
ReadsItsTable == UsesSql => config.sql.joins = <<>> /\ config.sql.from = SourceTable

\* No operator comes after an aggregate.
AggregatesLast ==
    ~UsesSql => \A i \in 1..(Len(config.ops) - 1) : ~IsAggregateOp(config.ops[i])

LEMMA FilterNothing ==
    ASSUME NEW z, IsZSet(z), NEW rows, DOMAIN z \subseteq rows
    PROVE  Filter(z, rows) = z
<1>1. DOMAIN z \cap rows = DOMAIN z
    OBVIOUS
<1> QED
    BY <1>1 DEF Filter, Restrict, IsZSet

LEMMA FilterTwice ==
    ASSUME NEW z, NEW some, NEW more, NEW both,
           \A r \in DOMAIN z : r \in both <=> r \in some /\ r \in more
    PROVE  Filter(Filter(z, some), more) = Filter(z, both)
<1>1. DOMAIN Filter(z, some) = DOMAIN z \cap some
    BY DEF Filter, Restrict
<1>2. (DOMAIN z \cap some) \cap more = DOMAIN z \cap both
    OBVIOUS
<1> QED
    BY <1>1, <1>2 DEF Filter, Restrict

LEMMA NodeDoes ==
    ASSUME NEW state, NEW old, NEW z, state = [result |-> old, out |-> z],
           NEW sources, NEW order, NEW select
    PROVE  /\ ExecuteNode(state, ScanNode(select), sources, order) =
                [result |-> old, out |-> Scan(select.from, sources)]
           /\ ExecuteNode(state, FilterNode(select), sources, order) =
                [result |-> old, out |-> Filter(z, Wanted(select, z))]
           /\ ExecuteNode(state, ProjectNode(select), sources, order) =
                [result |-> old, out |-> Map(z, Projections(select, z))]
           /\ ExecuteNode(state, AggregateNode(select), sources, order) =
                ApplyAggregate(old, z, Arrange(z, order), GroupKeys(select, z),
                               Contributed(select, z))
<1>0. state.out = z /\ state.result = old
      /\ \A y : [state EXCEPT !.out = y] = [result |-> old, out |-> y]
    OBVIOUS
<1>1. ExecuteNode(state, ScanNode(select), sources, order) =
        [result |-> old, out |-> Scan(select.from, sources)]
    BY <1>0 DEF ExecuteNode, ScanNode
<1>2. ExecuteNode(state, FilterNode(select), sources, order) =
        [result |-> old, out |-> Filter(z, Wanted(select, z))]
    BY <1>0 DEF ExecuteNode, FilterNode, Wanted
<1>3. ExecuteNode(state, ProjectNode(select), sources, order) =
        [result |-> old, out |-> Map(z, Projections(select, z))]
    BY <1>0 DEF ExecuteNode, ProjectNode, Projections
<1>4. ExecuteNode(state, AggregateNode(select), sources, order) =
        ApplyAggregate(old, z, Arrange(z, order), GroupKeys(select, z),
                       Contributed(select, z))
    BY <1>0 DEF ExecuteNode, AggregateNode, GroupKeys, Contributed
<1> QED
    BY <1>1, <1>2, <1>3, <1>4

LEMMA PlanRuns ==
    ASSUME UsesSql, ReadsItsTable, NEW delta, IsZSet(delta), NEW order
    PROVE  Run(delta, order) =
            IF HasAggregate(config.sql)
               THEN ApplyAggregate(result, Chosen(delta), Arrange(Chosen(delta), order),
                                   GroupKeys(config.sql, Chosen(delta)),
                                   Contributed(config.sql, Chosen(delta)))
               ELSE [result |-> result,
                     out |-> IF ColumnNames(config.sql) = {} THEN Chosen(delta)
                             ELSE Map(Chosen(delta),
                                      Projections(config.sql, Chosen(delta)))]
<1> DEFINE select == config.sql
           p == PlanSelect(select)
           n == Len(p)
           k == IF select.where = <<>> THEN 1 ELSE 2
           start == [result |-> result, out |-> Empty]
           chosen == [result |-> result, out |-> Chosen(delta)]
<1>0. select.joins = <<>> /\ select.from = SourceTable
    BY DEF ReadsItsTable
<1>1. n \in Nat /\ DOMAIN p = 1..n
  <2>1. select.joins \in Seq(Range(select.joins))
    BY <1>0
  <2>2. p \in Seq(Nodes(select))
    BY <2>1, PlanIsNodes
  <2> HIDE DEF p
  <2> QED
    BY <2>2, LenProperties
<1>2. /\ p[1] = ScanNode(select)
      /\ k = 2 => p[2] = FilterNode(select)
      /\ HasAggregate(select) => n = k + 1 /\ p[n] = AggregateNode(select)
      /\ ~HasAggregate(select) /\ ColumnNames(select) = {} => n = k
      /\ ~HasAggregate(select) /\ ColumnNames(select) # {} =>
            n = k + 1 /\ p[n] = ProjectNode(select)
  <2>1. CASE select.where = <<>>
    BY <1>0, <2>1, ShortPlan
  <2>2. CASE select.where # <<>>
    BY <1>0, <2>2, ShortPlan
  <2> QED
    BY <2>1, <2>2
<1>3. PICK f : /\ Trace("plan", p, n, start, Sources(delta), order, f)
               /\ Run(delta, order) = f[n]
  <2> HIDE DEF n
  <2> QED
    BY <1>1, RunHasTrace
<1>4. f[0] = start
      /\ \A i \in 1..n : f[i] = ExecuteNode(f[i - 1], p[i], Sources(delta), order)
    BY <1>3 DEF Trace, Step
<1>5. k \in {1, 2} /\ k <= n /\ 1 <= n
    BY <1>1, <1>2
<1> HIDE DEF p, n
<1>6. f[1] = [result |-> result, out |-> delta]
  <2>1. f[1] = ExecuteNode(f[0], ScanNode(select), Sources(delta), order)
    <3>1. 1 \in 1..n /\ 1 - 1 = 0
        BY <1>1, <1>5
    <3> QED
        BY <1>2, <1>4, <3>1
  <2>2. f[1] = [result |-> result, out |-> Scan(select.from, Sources(delta))]
    BY <1>4, <2>1, NodeDoes
  <2>3. Scan(select.from, Sources(delta)) = delta
    BY <1>0 DEF Scan, Sources
  <2> QED
    BY <2>2, <2>3
<1>7. f[k] = chosen
  <2>1. CASE k = 1
    <3>1. Range(select.where) = {}
        BY <2>1 DEF Range
    <3>2. \A row : Selected(row)
        BY <3>1 DEF Selected, EvalPredicate
    <3>3. DOMAIN delta \subseteq {row \in DOMAIN delta : Selected(row)}
        BY <3>2
    <3>4. Chosen(delta) = delta
        BY <3>3, FilterNothing DEF Chosen
    <3> QED
        BY <1>6, <2>1, <3>4
  <2>2. CASE k = 2
    <3>1. f[2] = ExecuteNode(f[1], FilterNode(select), Sources(delta), order)
      <4>1. 2 \in 1..n /\ 2 - 1 = 1
        BY <1>1, <1>5, <2>2
      <4> QED
        BY <1>2, <1>4, <2>2, <4>1
    <3>2. f[2] = [result |-> result, out |-> Filter(delta, Wanted(select, delta))]
        BY <1>6, <3>1, NodeDoes
    <3>3. Filter(delta, Wanted(select, delta)) = Chosen(delta)
        BY DEF Wanted, Chosen, Selected
    <3> QED
        BY <2>2, <3>2, <3>3
  <2> QED
    BY <1>5, <2>1, <2>2
<1> HIDE DEF k
<1>8. CASE HasAggregate(select)
  <2>1. f[n] = ExecuteNode(f[k], AggregateNode(select), Sources(delta), order)
    <3>1. n \in 1..n /\ n - 1 = k
        BY <1>1, <1>2, <1>5, <1>8
    <3> QED
        BY <1>2, <1>4, <1>8, <3>1
  <2> HIDE DEF select
  <2> QED
    BY <1>3, <1>7, <1>8, <2>1, NodeDoes DEF select
<1>9. CASE ~HasAggregate(select) /\ ColumnNames(select) = {}
    BY <1>2, <1>3, <1>7, <1>9
<1>10. CASE ~HasAggregate(select) /\ ColumnNames(select) # {}
  <2>1. f[n] = ExecuteNode(f[k], ProjectNode(select), Sources(delta), order)
    <3>1. n \in 1..n /\ n - 1 = k
        BY <1>1, <1>2, <1>5, <1>10
    <3> QED
        BY <1>2, <1>4, <1>10, <3>1
  <2>2. f[n] = [result |-> result,
                out |-> Map(Chosen(delta), Projections(select, Chosen(delta)))]
    BY <1>7, <2>1, NodeDoes
  <2> QED
    BY <1>3, <1>10, <2>2
<1> QED
    BY <1>8, <1>9, <1>10

\* The rows of z that pass the first i operators, filters that they are.
Passing(z, i) ==
    {r \in DOMAIN z :
        \A j \in 1..i : config.ops[j].type = "filter" => PassesFilter(config.ops[j], r)}

PassedBy(op, z) == {row \in DOMAIN z : PassesFilter(op, row)}
StateKeys(z) == [row \in DOMAIN z |-> StateKey(row)]
StateValues(z) == [row \in DOMAIN z |-> StateValue(row)]

LEMMA OperatorDoes ==
    ASSUME NEW state, NEW old, NEW z, state = [result |-> old, out |-> z],
           NEW op, NEW order,
           op.type \in {"filter", "aggregate_count", "aggregate_sum", "join"}
    PROVE  /\ op.type = "filter" =>
                RunOperator(state, op, order) =
                    [result |-> old,
                     out |-> Filter(z, PassedBy(op, z))]
           /\ op.type = "join" => RunOperator(state, op, order) = state
           /\ IsAggregateOp(op) =>
                RunOperator(state, op, order) =
                    ApplyAggregate(old, z, Arrange(z, order),
                                   StateKeys(z),
                                   StateValues(z))
<1>0. state.out = z /\ state.result = old
      /\ \A y : [state EXCEPT !.out = y] = [result |-> old, out |-> y]
    OBVIOUS
<1>1. op.type = "filter" =>
        RunOperator(state, op, order) =
            [result |-> old,
             out |-> Filter(z, PassedBy(op, z))]
    BY <1>0 DEF RunOperator, IsAggregateOp, PassedBy
<1>2. op.type = "join" => RunOperator(state, op, order) = state
    BY DEF RunOperator, IsAggregateOp
<1>3. IsAggregateOp(op) =>
        RunOperator(state, op, order) =
            ApplyAggregate(old, z, Arrange(z, order),
                           StateKeys(z),
                           StateValues(z))
    BY <1>0 DEF RunOperator, IsAggregateOp, StateKeys, StateValues
<1> QED
    BY <1>1, <1>2, <1>3

\* Before the aggregate there are filters, and joins, which do nothing.
LEMMA OperatorsPick ==
    ASSUME NEW delta, IsZSet(delta), NEW order, NEW f, NEW m \in Nat,
           f[0] = [result |-> result, out |-> delta],
           \A i \in 1..m : /\ f[i] = RunOperator(f[i - 1], config.ops[i], order)
                           /\ config.ops[i].type \in {"filter", "join"}
    PROVE  f[m] = [result |-> result, out |-> Filter(delta, Passing(delta, m))]
<1> DEFINE Is(i) == f[i] = [result |-> result, out |-> Filter(delta, Passing(delta, i))]
           Good == {i \in 0..m : Is(i)}
<1>1. 0 \in Good
  <2>1. DOMAIN delta \subseteq Passing(delta, 0)
    BY DEF Passing
  <2>2. Filter(delta, Passing(delta, 0)) = delta
    BY <2>1, FilterNothing
  <2> QED
    BY <2>2
<1>2. ASSUME NEW i \in 1..m, i - 1 \in Good PROVE i \in Good
  <2> DEFINE z == Filter(delta, Passing(delta, i - 1))
             op == config.ops[i]
  <2>1. f[i - 1] = [result |-> result, out |-> z]
    BY <1>2
  <2>2. f[i] = RunOperator(f[i - 1], op, order) /\ op.type \in {"filter", "join"}
    OBVIOUS
  <2>3. \A r \in DOMAIN delta :
            r \in Passing(delta, i) <=>
                /\ r \in Passing(delta, i - 1)
                /\ op.type = "filter" => PassesFilter(op, r)
    <3>1. 1..i = (1..(i - 1)) \cup {i}
        OBVIOUS
    <3> QED
        BY <3>1 DEF Passing
  <2>4. CASE op.type = "filter"
    <3> DEFINE more == PassedBy(op, z)
    <3>1. f[i] = [result |-> result, out |-> Filter(z, more)]
        BY <2>1, <2>2, <2>4, OperatorDoes
    <3>2. DOMAIN z = DOMAIN delta \cap Passing(delta, i - 1)
        BY DEF Filter, Restrict
    <3>3. \A r \in DOMAIN delta :
            r \in Passing(delta, i) <=> r \in Passing(delta, i - 1) /\ r \in more
        BY <2>3, <2>4, <3>2 DEF PassedBy
    <3> HIDE DEF more
    <3>4. Filter(z, more) = Filter(delta, Passing(delta, i))
        BY <3>3, FilterTwice
    <3> QED
        BY <3>1, <3>4
  <2>5. CASE op.type = "join"
    <3>1. f[i] = f[i - 1]
        BY <2>1, <2>2, <2>5, OperatorDoes
    <3>2. Passing(delta, i) = Passing(delta, i - 1)
        BY <2>3, <2>5 DEF Passing
    <3> QED
        BY <2>1, <3>1, <3>2
  <2> QED
    BY <2>2, <2>4, <2>5
<1>3. \A i \in 0..m : i \in Good
  <2> HIDE DEF Good
  <2> QED
    BY <1>1, <1>2, Upwards
<1> QED
    BY <1>3

LEMMA OperatorsRun ==
    ASSUME config \in Configs, ~UsesSql, AggregatesLast,
           NEW delta, IsZSet(delta), NEW order
    PROVE  Run(delta, order) =
            IF Aggregating
               THEN ApplyAggregate(result, Chosen(delta), Arrange(Chosen(delta), order),
                                   StateKeys(Chosen(delta)),
                                   StateValues(Chosen(delta)))
               ELSE [result |-> result, out |-> Chosen(delta)]
<1> DEFINE ops == config.ops
           n == Len(ops)
<1>1. /\ ops \in Seq(Range(ops))
      /\ \A op \in Range(ops) :
            op.type \in {"filter", "aggregate_count", "aggregate_sum", "join"}
    BY ViewAssumption
<1>2. /\ n \in Nat /\ DOMAIN ops = 1..n
      /\ \A i \in 1..n : ops[i] \in Range(ops)
    BY <1>1, LenProperties, ElementOfSeq
<1>3. Range(ops) = {ops[i] : i \in 1..n}
    BY <1>2 DEF Range
<1>4. \A i \in 1..n :
        ops[i].type \in {"filter", "aggregate_count", "aggregate_sum", "join"}
    BY <1>1, <1>2
<1>5. PICK f : /\ Trace("operators", ops, n, [result |-> result, out |-> delta],
                        <<>>, order, f)
               /\ Run(delta, order) = f[n]
  <2> HIDE DEF n
  <2> QED
    BY <1>2, OperatorsHaveTrace
<1>6. /\ f[0] = [result |-> result, out |-> delta]
      /\ \A i \in 1..n : f[i] = RunOperator(f[i - 1], ops[i], order)
    BY <1>5 DEF Trace, Step
<1> HIDE DEF n
<1>7. CASE ~Aggregating
  <2>1. \A i \in 1..n : ops[i].type \in {"filter", "join"}
    BY <1>3, <1>4, <1>7 DEF Aggregating, IsAggregateOp
  <2>2. f[n] = [result |-> result, out |-> Filter(delta, Passing(delta, n))]
    BY <1>2, <1>6, <2>1, OperatorsPick
  <2>3. Passing(delta, n) = {row \in DOMAIN delta : Selected(row)}
    BY <1>3 DEF Passing, Selected
  <2> QED
    BY <1>5, <1>7, <2>2, <2>3 DEF Chosen
<1>8. CASE Aggregating
  <2>1. \A i \in 1..(n - 1) : ~IsAggregateOp(ops[i])
    BY DEF AggregatesLast, n
  <2>2. n \in 1..n /\ IsAggregateOp(ops[n])
    <3>1. PICK i \in 1..n : IsAggregateOp(ops[i])
        BY <1>3, <1>8 DEF Aggregating
    <3>2. i = n
        BY <1>2, <2>1, <3>1
    <3> QED
        BY <3>1, <3>2
  <2>3. \A i \in 1..(n - 1) : ops[i].type \in {"filter", "join"}
    BY <1>2, <1>4, <2>1 DEF IsAggregateOp
  <2>4. n - 1 \in Nat /\ 1..(n - 1) \subseteq 1..n
    BY <1>2, <2>2
  <2>5. f[n - 1] = [result |-> result, out |-> Filter(delta, Passing(delta, n - 1))]
    BY <1>6, <2>3, <2>4, OperatorsPick
  <2>6. Passing(delta, n - 1) = {row \in DOMAIN delta : Selected(row)}
    <3>1. ops[n].type # "filter"
        BY <2>2 DEF IsAggregateOp
    <3>2. 1..n = (1..(n - 1)) \cup {n}
        BY <1>2, <2>2
    <3> QED
        BY <1>3, <3>1, <3>2 DEF Passing, Selected
  <2>7. f[n - 1] = [result |-> result, out |-> Chosen(delta)]
    BY <2>5, <2>6 DEF Chosen
  <2>8. f[n] = RunOperator(f[n - 1], ops[n], order)
    BY <1>6, <2>2
  <2>9. ops[n].type \in {"filter", "aggregate_count", "aggregate_sum", "join"}
    BY <1>4, <2>2
  <2>10. f[n] = ApplyAggregate(result, Chosen(delta), Arrange(Chosen(delta), order),
                               StateKeys(Chosen(delta)),
                               StateValues(Chosen(delta)))
    BY <2>2, <2>7, <2>8, <2>9, OperatorDoes
  <2> QED
    BY <1>5, <1>8, <2>10
<1> QED
    BY <1>7, <1>8

Shaped(z) ==
    IF UsesSql /\ ColumnNames(config.sql) # {} THEN Map(z, Projections(config.sql, z)) ELSE z

\* What a batch becomes, for a plan as for a list of operators.
LEMMA RunIs ==
    ASSUME config \in Configs, ReadsItsTable, AggregatesLast,
           NEW delta, IsZSet(delta), NEW order
    PROVE  Run(delta, order) =
            IF Aggregating
               THEN ApplyAggregate(result, Chosen(delta), Arrange(Chosen(delta), order),
                                   GroupsOf(Chosen(delta)), ValuesOf(Chosen(delta)))
               ELSE [result |-> result, out |-> Shaped(Chosen(delta))]
<1>1. CASE UsesSql
  <2>1. Aggregating <=> HasAggregate(config.sql)
    BY <1>1 DEF Aggregating
  <2>2. /\ GroupsOf(Chosen(delta)) = GroupKeys(config.sql, Chosen(delta))
        /\ ValuesOf(Chosen(delta)) = Contributed(config.sql, Chosen(delta))
    BY <1>1 DEF GroupsOf, ValuesOf, GroupKeys, Contributed, GroupOf, ValueOf
  <2>3. Shaped(Chosen(delta)) =
            IF ColumnNames(config.sql) = {} THEN Chosen(delta)
            ELSE Map(Chosen(delta), Projections(config.sql, Chosen(delta)))
    BY <1>1 DEF Shaped
  <2> QED
    BY <1>1, <2>1, <2>2, <2>3, PlanRuns
<1>2. CASE ~UsesSql
  <2>1. /\ GroupsOf(Chosen(delta)) = StateKeys(Chosen(delta))
        /\ ValuesOf(Chosen(delta)) = StateValues(Chosen(delta))
    BY <1>2 DEF GroupsOf, ValuesOf, StateKeys, StateValues, GroupOf, ValueOf
  <2>2. Shaped(Chosen(delta)) = Chosen(delta)
    BY <1>2 DEF Shaped
  <2> QED
    BY <1>2, <2>1, <2>2, OperatorsRun
<1> QED
    BY <1>1, <1>2

-----------------------------------------------------------------------------
(***************************************************************************)
(* A view without an aggregate.                                            *)
(***************************************************************************)
Showing(row) == {r \in config.rows : Selected(r) /\ Projected(r) = row}

\* view is what z comes to.
Exact(view, z) == \A row : Weight(view, row) = SumOver(z, Among(z, Showing(row)))

\* What is merged into the view as it was read from a table needs no operator.
CopiedAsIs ==
    ~config.kafka => \A row \in config.rows : Selected(row) /\ Projected(row) = row

PlainView == ~Aggregating /\ ReadsItsTable /\ CopiedAsIs

LEMMA ChosenWeight ==
    ASSUME NEW z, IsZSet(z)
    PROVE  /\ DOMAIN Chosen(z) = {r \in DOMAIN z : Selected(r)}
           /\ \A r \in DOMAIN Chosen(z) : Chosen(z)[r] = z[r]
           /\ IsZSet(Chosen(z))
<1> DEFINE S == {r \in DOMAIN z : Selected(r)}
<1>1. DOMAIN z \cap S = S
    OBVIOUS
<1>2. Chosen(z) = [r \in S |-> z[r]]
    BY <1>1 DEF Chosen, Filter, Restrict
<1>3. IsFiniteSet(S)
    BY FS_Subset DEF IsZSet
<1> QED
    BY <1>2, <1>3 DEF IsZSet, Canonical

\* A Z-set is exact for itself, if nothing is done to its rows.
LEMMA UnshapedIsExact ==
    ASSUME NEW z, IsZSet(z), DOMAIN z \subseteq config.rows,
           NEW view, IsZSet(view), DOMAIN view = {r \in DOMAIN z : Selected(r)},
           \A r \in DOMAIN view : view[r] = z[r],
           \A r \in DOMAIN z : Projected(r) = r
    PROVE  Exact(view, z)
<1> SUFFICES ASSUME NEW row
             PROVE  Weight(view, row) = SumOver(z, Among(z, Showing(row)))
    BY DEF Exact
<1>1. CASE row \in DOMAIN view
  <2>1. Among(z, Showing(row)) = {row}
    BY <1>1 DEF Among, Showing
  <2>2. z[row] \in Int
    BY <1>1 DEF IsZSet, Canonical
  <2> QED
    BY <1>1, <2>1, <2>2, SumOfOne DEF Weight
<1>2. CASE row \notin DOMAIN view
  <2>1. Among(z, Showing(row)) = {}
    BY <1>2 DEF Among, Showing
  <2> QED
    BY <1>2, <2>1, SumEmpty DEF Weight
<1> QED
    BY <1>1, <1>2

LEMMA RunExact ==
    ASSUME config \in Configs, PlainView, NEW delta, IsZSet(delta),
           DOMAIN delta \subseteq config.rows, NEW order
    PROVE  IsZSet(Run(delta, order).out) /\ Exact(Run(delta, order).out, delta)
<1> DEFINE chosen == Chosen(delta)
           out == Run(delta, order).out
<1>1. AggregatesLast
  <2>1. ASSUME ~UsesSql, NEW i \in 1..(Len(config.ops) - 1)
        PROVE  ~IsAggregateOp(config.ops[i])
    <3>1. config.ops \in Seq(Range(config.ops))
        BY ViewAssumption
    <3>2. i \in 1..Len(config.ops)
        BY <3>1, LenProperties
    <3>3. config.ops[i] \in Range(config.ops)
        BY <3>1, <3>2, ElementOfSeq
    <3> QED
        BY <2>1, <3>3 DEF PlainView, Aggregating
  <2> QED
    BY <2>1 DEF AggregatesLast
<1>2. out = Shaped(chosen)
    BY <1>1, RunIs DEF PlainView
<1>3. /\ DOMAIN chosen = {r \in DOMAIN delta : Selected(r)}
      /\ \A r \in DOMAIN chosen : chosen[r] = delta[r]
      /\ IsZSet(chosen)
    BY ChosenWeight
<1> HIDE DEF chosen, out
<1>4. CASE UsesSql /\ ColumnNames(config.sql) # {}
  <2> DEFINE f == Projections(config.sql, chosen)
  <2>1. out = Map(chosen, f)
    BY <1>2, <1>4 DEF Shaped
  <2>2. \A r \in DOMAIN chosen : f[r] = Projected(r)
    BY <1>4 DEF Projections, Projected
  <2> HIDE DEF f
  <2>3. /\ IsZSet(out)
        /\ \A r : Weight(out, r) = SumOver(chosen, Standing(f, DOMAIN chosen, r))
    BY <1>3, <2>1, MapAdds
  <2>4. ASSUME NEW r
        PROVE  Weight(out, r) = SumOver(delta, Among(delta, Showing(r)))
    <3> DEFINE S == Standing(f, DOMAIN chosen, r)
    <3>1. S = Among(delta, Showing(r))
        BY <1>3, <2>2 DEF Standing, Among, Showing
    <3>2. IsFiniteSet(S) /\ \A x \in S : chosen[x] = delta[x]
        BY <1>3, FS_Subset DEF Standing, IsZSet
    <3> HIDE DEF S
    <3>3. SumOver(chosen, S) = SumOver(delta, S)
        BY <3>2, SumSame
    <3> QED
        BY <2>3, <3>1, <3>3 DEF S
  <2> QED
    BY <2>3, <2>4 DEF Exact, out
<1>5. CASE ~(UsesSql /\ ColumnNames(config.sql) # {})
  <2>1. out = chosen
    BY <1>2, <1>5 DEF Shaped
  <2>2. \A r \in DOMAIN delta : Projected(r) = r
    BY <1>5 DEF Projected
  <2>3. Exact(out, delta)
    BY <1>3, <2>1, <2>2, UnshapedIsExact
  <2> QED
    BY <1>3, <2>1, <2>3 DEF out
<1> QED
    BY <1>4, <1>5

LEMMA ExactMerge ==
    ASSUME NEW view, IsZSet(view), NEW z, IsZSet(z), Exact(view, z),
           NEW out, IsZSet(out), NEW delta, IsZSet(delta), Exact(out, delta)
    PROVE  Exact(Merge(view, out), Merge(z, delta))
<1> SUFFICES ASSUME NEW row
             PROVE  Weight(Merge(view, out), row) =
                        SumOver(Merge(z, delta), Among(Merge(z, delta), Showing(row)))
    BY DEF Exact
<1>1. Weight(Merge(view, out), row) = Weight(view, row) + Weight(out, row)
    BY MergeAdds
<1>2. SumOver(Merge(z, delta), Among(Merge(z, delta), Showing(row))) =
        SumOver(z, Among(z, Showing(row))) + SumOver(delta, Among(delta, Showing(row)))
    BY MergedSum
<1> QED
    BY <1>1, <1>2 DEF Exact

LEMMA EmptyIsExact == Exact(Empty, Empty)
<1>1. \A row : Among(Empty, Showing(row)) = {}
    BY EmptyIsZSet DEF Among
<1> QED
    BY <1>1, EmptyIsZSet, SumEmpty DEF Exact

\* A view written to a file is the view read from it.
LEMMA ExactIsRestored ==
    ASSUME config \in Configs, NEW view, IsZSet(view), NEW z, Exact(view, z)
    PROVE  ReadRecords(Records(view)) = view
<1>1. ASSUME NEW row \in DOMAIN view PROVE row # NoText
  <2>1. SumOver(z, Among(z, Showing(row))) # 0
    BY <1>1, WeightType DEF Exact
  <2>2. Among(z, Showing(row)) # {}
    BY <2>1, SumEmpty
  <2>3. PICK r \in config.rows : Projected(r) = row
    BY <2>2 DEF Among, Showing
  <2>4. /\ r # NoText
        /\ \A columns \in SUBSET DOMAIN r : Project(r, columns) # NoText
    BY <2>3, ViewAssumption
  <2>5. CASE Projected(r) = r
    BY <2>3, <2>4, <2>5
  <2>6. CASE Projected(r) = Project(r, ColumnNames(config.sql))
    <3> DEFINE C == ColumnNames(config.sql)
    <3>1. DOMAIN r \cap (DOMAIN r \cap C) = DOMAIN r \cap C
        OBVIOUS
    <3>2. Project(r, C) = Project(r, DOMAIN r \cap C)
        BY <3>1, Zenon DEF Project
    <3> QED
        BY <2>3, <2>4, <2>6, <3>2
  <2> QED
    BY <2>5, <2>6 DEF Projected
<1> QED
    BY <1>1, ReadBack

\* The checkpoint holds an exact view of what the source had sent.
SavedExact ==
    /\ IsZSet(saved.source) /\ DOMAIN saved.source \subseteq config.rows
    /\ \E view : IsZSet(view) /\ saved.view = Records(view) /\ Exact(view, saved.source)

SelectedInv ==
    /\ config \in Configs
    /\ PlainView =>
        /\ IsZSet(acc) /\ IsZSet(source) /\ DOMAIN source \subseteq config.rows
        /\ Exact(acc, source)
        /\ saved = NoSave \/ SavedExact
        /\ ~config.kafka /\ saved = NoSave => acc = Empty

\* Nothing changes the configuration, nor what it means.
LEMMA ConfigStays ==
    ASSUME [Next]_vars
    PROVE  /\ config' = config
           /\ PlainView' = PlainView
           /\ \A view, z : Exact(view, z)' = Exact(view, z)
<1>1. config' = config
    BY DEF Next, vars, ApplyBatch, ApplyJoinDelta, Save, Restart, Reload, Bootstrap
<1>2. PlainView' = PlainView
    BY <1>1 DEF PlainView, Aggregating, UsesSql, ReadsItsTable, SourceTable, CopiedAsIs,
                Selected, Projected
<1>3. ASSUME NEW row PROVE Showing(row)' = Showing(row)
    BY <1>1 DEF Showing, Selected, Projected, UsesSql
<1>4. ASSUME NEW view, NEW z PROVE Exact(view, z)' = Exact(view, z)
    BY <1>3 DEF Exact
<1> QED
    BY <1>1, <1>2, <1>4

LEMMA SelectedNext ==
    SelectedInv /\ [Next]_vars => SelectedInv'
<1> SUFFICES ASSUME SelectedInv, [Next]_vars PROVE SelectedInv'
    OBVIOUS
<1>0. /\ config' = config /\ config \in Configs
      /\ PlainView' = PlainView
      /\ \A view, z : Exact(view, z)' = Exact(view, z)
    BY ConfigStays DEF SelectedInv
<1>1. CASE ~PlainView
    BY <1>0, <1>1 DEF SelectedInv
<1> SUFFICES ASSUME PlainView PROVE SelectedInv'
    BY <1>1
<1>2. /\ IsZSet(acc) /\ IsZSet(source) /\ DOMAIN source \subseteq config.rows
      /\ Exact(acc, source)
      /\ saved = NoSave \/ SavedExact
      /\ ~config.kafka /\ saved = NoSave => acc = Empty
    BY DEF SelectedInv
<1>3. SavedExact /\ saved' = saved => SavedExact'
    BY <1>0 DEF SavedExact
<1>4. saved' = saved => saved' = NoSave \/ SavedExact'
    BY <1>2, <1>3
<1>5. SavedExact => /\ IsZSet(ReadRecords(saved.view))
                    /\ Exact(ReadRecords(saved.view), saved.source)
    BY <1>0, ExactIsRestored DEF SavedExact
<1>6. ASSUME NEW delta \in Deltas(config.rows, source),
             NEW order \in SetToSeqs(DOMAIN delta), ApplyBatch(delta, order)
      PROVE  SelectedInv'
  <2> DEFINE out == Run(delta, order).out
  <2>1. IsZSet(delta) /\ DOMAIN delta \subseteq config.rows
    BY DeltasAreZSets
  <2>2. IsZSet(out) /\ Exact(out, delta)
    BY <1>0, <2>1, RunExact
  <2>3. /\ acc' = Merge(acc, out) /\ source' = Merge(source, delta) /\ saved' = saved
        /\ config.kafka \/ saved # NoSave
    BY <1>6 DEF ApplyBatch
  <2> HIDE DEF out
  <2>4. IsZSet(acc') /\ IsZSet(source') /\ DOMAIN source' \subseteq config.rows
    BY <1>2, <2>1, <2>2, <2>3, MergeAdds
  <2>5. Exact(acc', source')
    BY <1>2, <2>1, <2>2, <2>3, ExactMerge
  <2> QED
    BY <1>0, <1>4, <2>3, <2>4, <2>5 DEF SelectedInv
<1>7. ASSUME NEW left, NEW right, ApplyJoinDelta(left, right) PROVE SelectedInv'
    BY <1>0, <1>2, <1>4, <1>7 DEF ApplyJoinDelta, SelectedInv
<1>8. CASE Save
  <2>1. /\ acc' = acc /\ source' = source
        /\ saved' = [view |-> Records(acc), source |-> source]
    BY <1>8 DEF Save
  <2>2. saved'.view = Records(acc) /\ saved'.source = source
    BY <2>1
  <2>3. SavedExact'
    BY <1>0, <1>2, <2>2 DEF SavedExact
  <2>4. saved' # NoSave
    <3>1. Records(acc) # {}
        BY DEF Records
    <3> QED
        BY <2>2, <3>1 DEF NoSave
  <2> QED
    BY <1>0, <1>2, <2>1, <2>3, <2>4 DEF SelectedInv
<1>9. CASE Restart \/ Reload
  <2>1. saved' = saved
    BY <1>9 DEF Restart, Reload
  <2>2. CASE saved = NoSave
    <3>1. acc' = Empty /\ source' = Empty
        BY <1>9, <2>2 DEF Restart, Reload
    <3> QED
        BY <1>0, <1>4, <2>1, <3>1, EmptyIsZSet, EmptyIsExact DEF SelectedInv
  <2>3. CASE saved # NoSave
    <3>1. acc' = ReadRecords(saved.view) /\ source' = saved.source
        BY <1>9, <2>3 DEF Restart, Reload
    <3>2. SavedExact
        BY <1>2, <2>3
    <3> QED
        BY <1>0, <1>4, <1>5, <2>1, <2>3, <3>1, <3>2 DEF SelectedInv, SavedExact
  <2> QED
    BY <2>2, <2>3
<1>10. ASSUME NEW rows \in Deltas(config.rows, Empty), Bootstrap(rows)
       PROVE  SelectedInv'
  <2>1. IsZSet(rows) /\ DOMAIN rows \subseteq config.rows
    BY DeltasAreZSets
  <2>2. /\ acc' = Merge(Empty, rows) /\ source' = rows
        /\ saved' = [view |-> Records(acc'), source |-> rows]
        /\ ~config.kafka
    BY <1>2, <1>10 DEF Bootstrap
  <2>3. IsZSet(acc') /\ acc' = rows
    <3>1. /\ IsZSet(acc')
          /\ \A r : Weight(acc', r) = Weight(Empty, r) + Weight(rows, r)
        BY <2>1, <2>2, EmptyIsZSet, MergeAdds
    <3>2. \A r : Weight(acc', r) = Weight(rows, r)
        BY <2>1, <3>1, EmptyIsZSet, WeightType
    <3> QED
        BY <2>1, <3>1, <3>2, SameWeights
  <2>4. Exact(rows, rows)
    <3>1. \A r \in DOMAIN rows : Selected(r) /\ Projected(r) = r
        BY <2>1, <2>2 DEF PlainView, CopiedAsIs
    <3>2. DOMAIN rows = {r \in DOMAIN rows : Selected(r)}
        BY <3>1
    <3> QED
        BY <2>1, <3>1, <3>2, UnshapedIsExact
  <2>5. saved'.view = Records(acc') /\ saved'.source = rows
    BY <2>2
  <2>6. SavedExact'
    BY <1>0, <2>1, <2>3, <2>4, <2>5 DEF SavedExact
  <2>7. saved' # NoSave
    <3>1. Records(acc') # {}
        BY DEF Records
    <3> QED
        BY <2>5, <3>1 DEF NoSave
  <2> QED
    BY <1>0, <2>1, <2>2, <2>3, <2>4, <2>6, <2>7 DEF SelectedInv
<1>11. CASE UNCHANGED vars
    BY <1>0, <1>2, <1>4, <1>11 DEF vars, SelectedInv
<1> QED
    BY <1>6, <1>7, <1>8, <1>9, <1>10, <1>11 DEF Next

\* A view without an aggregate (apply_batch, crates/runtime/src/pipeline.rs) is
\* the selection of everything its source has sent, across checkpoints,
\* restarts, reloads and the copy of the table, provided that the SELECT reads
\* the table its pipeline is fed with, and that a table that is copied is meant
\* to be shown as it is.
THEOREM SelectedViewMaintained == Spec => [](PlainView => SelectedViewExact)
<1>1. Init => SelectedInv
    BY EmptyIsZSet, EmptyIsExact DEF Init, SelectedInv
<1>2. ASSUME SelectedInv, PlainView PROVE SelectedViewExact
  <2> SUFFICES ASSUME NEW row \in {Projected(r) : r \in config.rows}
               PROVE  Weight(acc, row) =
                        SumOver(source, {r \in DOMAIN source :
                                            Selected(r) /\ Projected(r) = row})
    BY DEF SelectedViewExact
  <2>1. {r \in DOMAIN source : Selected(r) /\ Projected(r) = row}
            = Among(source, Showing(row))
    BY <1>2 DEF SelectedInv, Among, Showing
  <2> QED
    BY <1>2, <2>1 DEF SelectedInv, Exact
<1> QED
    BY <1>1, <1>2, SelectedNext, PTL DEF Spec

-----------------------------------------------------------------------------
(***************************************************************************)
(* A view with an aggregate, in a pipeline that saves no checkpoint: a     *)
(* checkpoint does not hold the aggregate's state.                         *)
(***************************************************************************)
AggregateView ==
    /\ Aggregating /\ ReadsItsTable /\ AggregatesLast
    /\ config.kafka /\ ~config.saves

Members(group) == {r \in config.rows : Selected(r) /\ GroupOf(r) = group}
Values == [row \in config.rows |-> ValueOf(row)]

\* The total of a group over the rows of z.
TotalOf(group, z) == SumOver(Weighted(Values, z), Among(z, Members(group)))

LEMMA ValuesAreIntegers == \A row : ValueOf(row) \in Int
<1>1. \A row, column : GetInt(row, column) \in Int
    BY DEF GetInt
<1> QED
    BY <1>1 DEF ValueOf, Contribution, StateValue

LEMMA TotalAdds ==
    ASSUME NEW z, IsZSet(z), DOMAIN z \subseteq config.rows,
           NEW delta, IsZSet(delta), DOMAIN delta \subseteq config.rows, NEW group
    PROVE  /\ TotalOf(group, Merge(z, delta)) = TotalOf(group, z) + TotalOf(group, delta)
           /\ TotalOf(group, z) \in Int /\ TotalOf(group, delta) \in Int
<1> DEFINE U == DOMAIN z \cup DOMAIN delta
<1>1. IsFiniteSet(U) /\ DOMAIN z \subseteq U /\ DOMAIN delta \subseteq U
    BY FS_Union DEF IsZSet
<1>2. IsFactor(Values, U)
    BY ValuesAreIntegers DEF IsFactor, Values
<1> HIDE DEF U
<1> QED
    BY <1>1, <1>2, WeightedSumAdds DEF TotalOf

\* A batch adds what its rows contribute to the value of every group, and
\* replaces the rows of the groups in the view.
LEMMA BatchAggregates ==
    ASSUME config \in Configs, AggregateView, IsGroups(result),
           NEW delta, IsZSet(delta), DOMAIN delta \subseteq config.rows,
           NEW order \in SetToSeqs(DOMAIN delta)
    PROVE  LET next == Run(delta, order)
           IN  /\ IsGroups(next.result) /\ IsZSet(next.out)
               /\ \A g : Weight(next.result, g) = Weight(result, g) + TotalOf(g, delta)
               /\ \A g, v : Weight(next.out, OutputRow(g, v)) =
                                Shown(Weight(next.result, g), v) - Shown(Weight(result, g), v)
               /\ \A row \in DOMAIN next.out : \E g, v : row = OutputRow(g, v)
<1> DEFINE z == Chosen(delta)
           o == Arrange(z, order)
           key == GroupsOf(z)
           agg == ValuesOf(z)
           next == ApplyAggregate(result, z, o, key, agg)
           Of(g) == Standing(key, DOMAIN z, g)
           f == Weighted(agg, z)
<1>1. Run(delta, order) = next
    BY RunIs DEF AggregateView
<1>2. /\ DOMAIN z = {r \in DOMAIN delta : Selected(r)}
      /\ \A r \in DOMAIN z : z[r] = delta[r]
      /\ IsZSet(z)
    BY ChosenWeight
<1>3. Arranges(o, DOMAIN z)
    BY <1>2, ArrangeArranges DEF IsZSet
<1>4. \A r \in DOMAIN z : agg[r] \in Int /\ agg[r] = ValueOf(r) /\ key[r] = GroupOf(r)
    BY ValuesAreIntegers DEF ValuesOf, GroupsOf
<1> HIDE DEF z, o, key, agg
<1>5. /\ IsGroups(next.result) /\ IsZSet(next.out)
      /\ \A g : Weight(next.result, g) = Weight(result, g) + SumOver(f, Of(g))
      /\ \A g, v : Weight(next.out, OutputRow(g, v)) =
                        Shown(Weight(next.result, g), v) - Shown(Weight(result, g), v)
      /\ \A row \in DOMAIN next.out : \E g, v : row = OutputRow(g, v)
  <2>1. IsGroups(result) /\ IsZSet(z) /\ Arranges(o, DOMAIN z)
        /\ \A r \in DOMAIN z : agg[r] \in Int
    BY <1>2, <1>3, <1>4
  <2> QED
    BY <2>1, AggregateIsChange
<1>6. ASSUME NEW g PROVE SumOver(f, Of(g)) = TotalOf(g, delta)
  <2> DEFINE S == Among(delta, Members(g))
             w == Weighted(Values, delta)
  <2>1. Of(g) = S
    BY <1>2, <1>4 DEF Among, Members, Standing
  <2>2. IsFiniteSet(Of(g))
    BY <1>2, FS_Subset DEF IsZSet, Standing
  <2>3. \A r \in Of(g) : f[r] = w[r]
    BY <1>2, <1>4 DEF Weighted, Values, Standing
  <2> HIDE DEF f, w, Of
  <2>4. SumOver(f, Of(g)) = SumOver(w, Of(g))
    BY <2>2, <2>3, SumSame
  <2> QED
    BY <2>1, <2>4 DEF TotalOf, w
<1> HIDE DEF next, f, Of
<1> QED
    BY <1>1, <1>5, <1>6

AggregateInv ==
    /\ config \in Configs
    /\ AggregateView =>
        /\ saved = NoSave
        /\ IsGroups(result) /\ IsZSet(acc)
        /\ IsZSet(source) /\ DOMAIN source \subseteq config.rows
        /\ \A g : Weight(result, g) = TotalOf(g, source)
        /\ \A g, v : Weight(acc, OutputRow(g, v)) = Shown(TotalOf(g, source), v)
        /\ \A row \in DOMAIN acc : \E g, v : row = OutputRow(g, v)

LEMMA NothingAggregated ==
    /\ IsZSet(Empty) /\ IsGroups(NoGroups)
    /\ DOMAIN Empty = {}
    /\ \A g : Weight(NoGroups, g) = TotalOf(g, Empty)
    /\ \A g, v : Weight(Empty, OutputRow(g, v)) = Shown(TotalOf(g, Empty), v)
<1>1. ASSUME NEW g PROVE TotalOf(g, Empty) = 0
  <2>1. Among(Empty, Members(g)) = {}
    BY EmptyIsZSet DEF Among
  <2> QED
    BY <2>1, SumEmpty DEF TotalOf
<1>2. \A g, v : Weight(Empty, OutputRow(g, v)) = 0
    BY EmptyIsZSet
<1>3. \A g : Weight(NoGroups, g) = 0
    BY EmptyIsZSet DEF NoGroups
<1> QED
    BY <1>1, <1>2, <1>3, EmptyIsZSet, NoGroupsIsGroups DEF Shown

LEMMA TotalStays ==
    ASSUME [Next]_vars
    PROVE  /\ config' = config
           /\ AggregateView' = AggregateView
           /\ \A g, z : TotalOf(g, z)' = TotalOf(g, z)
<1>1. config' = config
    BY ConfigStays
<1>2. AggregateView' = AggregateView
    BY <1>1 DEF AggregateView, Aggregating, UsesSql, ReadsItsTable, SourceTable,
                AggregatesLast
<1>3. ASSUME NEW g PROVE Members(g)' = Members(g)
    BY <1>1 DEF Members, Selected, GroupOf, StateKey, FirstAggregate, UsesSql
<1>4. Values' = Values
    BY <1>1 DEF Values, ValueOf, StateValue, FirstAggregate, UsesSql
<1>5. ASSUME NEW g, NEW z PROVE TotalOf(g, z)' = TotalOf(g, z)
    BY <1>3, <1>4 DEF TotalOf
<1> QED
    BY <1>1, <1>2, <1>5

LEMMA AggregateNext ==
    AggregateInv /\ [Next]_vars => AggregateInv'
<1> SUFFICES ASSUME AggregateInv, [Next]_vars PROVE AggregateInv'
    OBVIOUS
<1>0. /\ config' = config /\ config \in Configs
      /\ AggregateView' = AggregateView
      /\ \A g, z : TotalOf(g, z)' = TotalOf(g, z)
    BY TotalStays DEF AggregateInv
<1>1. CASE ~AggregateView
    BY <1>0, <1>1 DEF AggregateInv
<1> SUFFICES ASSUME AggregateView PROVE AggregateInv'
    BY <1>1
<1>2. /\ saved = NoSave
      /\ IsGroups(result) /\ IsZSet(acc)
      /\ IsZSet(source) /\ DOMAIN source \subseteq config.rows
      /\ \A g : Weight(result, g) = TotalOf(g, source)
      /\ \A g, v : Weight(acc, OutputRow(g, v)) = Shown(TotalOf(g, source), v)
      /\ \A row \in DOMAIN acc : \E g, v : row = OutputRow(g, v)
      /\ config.kafka /\ ~config.saves
    BY DEF AggregateInv, AggregateView
<1>3. CASE UNCHANGED <<acc, result, source, saved>>
    BY <1>0, <1>2, <1>3 DEF AggregateInv
<1>4. ASSUME NEW delta \in Deltas(config.rows, source),
             NEW order \in SetToSeqs(DOMAIN delta), ApplyBatch(delta, order)
      PROVE  AggregateInv'
  <2> DEFINE next == Run(delta, order)
  <2>1. IsZSet(delta) /\ DOMAIN delta \subseteq config.rows
    BY DeltasAreZSets
  <2>2. /\ IsGroups(next.result) /\ IsZSet(next.out)
        /\ \A g : Weight(next.result, g) = Weight(result, g) + TotalOf(g, delta)
        /\ \A g, v : Weight(next.out, OutputRow(g, v)) =
                        Shown(Weight(next.result, g), v) - Shown(Weight(result, g), v)
        /\ \A row \in DOMAIN next.out : \E g, v : row = OutputRow(g, v)
    BY <1>0, <1>2, <2>1, BatchAggregates
  <2>3. /\ result' = next.result /\ acc' = Merge(acc, next.out)
        /\ source' = Merge(source, delta) /\ saved' = saved
    BY <1>4 DEF ApplyBatch
  <2> HIDE DEF next
  <2>4. /\ IsZSet(acc') /\ IsZSet(source') /\ DOMAIN source' \subseteq config.rows
        /\ DOMAIN acc' \subseteq DOMAIN acc \cup DOMAIN next.out
        /\ \A r : Weight(acc', r) = Weight(acc, r) + Weight(next.out, r)
    BY <1>2, <2>1, <2>2, <2>3, MergeAdds
  <2>5. \A g : /\ TotalOf(g, source') = TotalOf(g, source) + TotalOf(g, delta)
               /\ TotalOf(g, source) \in Int
    BY <1>2, <2>1, <2>3, TotalAdds
  <2>6. \A g : Weight(result', g) = TotalOf(g, source')
    BY <1>2, <2>2, <2>3, <2>5
  <2>7. \A g, v : Weight(acc', OutputRow(g, v)) = Shown(TotalOf(g, source'), v)
    <3>1. \A u, v : Shown(u, v) \in {0, 1}
        BY DEF Shown
    <3> SUFFICES ASSUME NEW g, NEW v
                 PROVE  Weight(acc', OutputRow(g, v)) = Shown(TotalOf(g, source'), v)
        OBVIOUS
    <3>2. Weight(acc', OutputRow(g, v)) =
            Shown(TotalOf(g, source), v)
              + (Shown(TotalOf(g, source'), v) - Shown(TotalOf(g, source), v))
        BY <1>2, <2>2, <2>3, <2>4, <2>6
    <3> QED
        BY <3>1, <3>2
  <2>8. \A row \in DOMAIN acc' : \E g, v : row = OutputRow(g, v)
    BY <1>2, <2>2, <2>4
  <2> QED
    BY <1>0, <1>2, <2>2, <2>3, <2>4, <2>6, <2>7, <2>8 DEF AggregateInv
<1>5. ASSUME NEW left, NEW right, ApplyJoinDelta(left, right) PROVE AggregateInv'
    BY <1>3, <1>5 DEF ApplyJoinDelta
<1>6. CASE Restart
  <2>1. acc' = Empty /\ source' = Empty /\ result' = NoGroups /\ saved' = saved
    BY <1>2, <1>6 DEF Restart
  <2> QED
    BY <1>0, <1>2, <2>1, NothingAggregated DEF AggregateInv
<1>7. CASE Save \/ Reload
    BY <1>2, <1>7 DEF Save, Reload
<1>8. ASSUME NEW rows, Bootstrap(rows) PROVE AggregateInv'
    BY <1>2, <1>8 DEF Bootstrap
<1>9. CASE UNCHANGED vars
    BY <1>3, <1>9 DEF vars
<1> QED
    BY <1>4, <1>5, <1>6, <1>7, <1>8, <1>9 DEF Next

\* A view with an aggregate, kept by a plan or by a list of operators, has one
\* row for every group whose total is not 0, with that total, and nothing else
\* (AggregateState::apply_delta, crates/operators/src/aggregate.rs): whatever
\* the batches, the order in which the rows of a batch are visited, and the
\* restarts, provided that nothing is restored, that the SELECT reads the table
\* its pipeline is fed with, and that the aggregate is the last operator.
THEOREM AggregateViewMaintained == Spec => [](AggregateView => AggregateViewExact)
<1>1. Init => AggregateInv
    BY NothingAggregated DEF Init, AggregateInv
<1>2. ASSUME AggregateInv, AggregateView PROVE AggregateViewExact
  <2> DEFINE groups == {g \in {GroupOf(row) : row \in config.rows} : Total(g) # 0}
             rows == {OutputRow(g, Total(g)) : g \in groups}
  <2>1. /\ IsZSet(acc) /\ IsZSet(source) /\ DOMAIN source \subseteq config.rows
        /\ \A g, v : Weight(acc, OutputRow(g, v)) = Shown(TotalOf(g, source), v)
        /\ \A row \in DOMAIN acc : \E g, v : row = OutputRow(g, v)
    BY <1>2 DEF AggregateInv
  <2>2. ASSUME NEW g PROVE Total(g) = TotalOf(g, source)
    <3>1. [row \in DOMAIN source |-> ValueOf(row) * source[row]] =
            Weighted(Values, source)
        BY <2>1 DEF Weighted, Values
    <3>2. {row \in DOMAIN source : Selected(row) /\ GroupOf(row) = g} =
            Among(source, Members(g))
        BY <2>1 DEF Among, Members
    <3> QED
        BY <3>1, <3>2, Zenon DEF Total, TotalOf
  <2>3. ASSUME NEW g, Total(g) # 0 PROVE g \in groups
    <3>1. Among(source, Members(g)) # {}
        BY <2>2, <2>3, SumEmpty DEF TotalOf
    <3>2. PICK r \in config.rows : GroupOf(r) = g
        BY <3>1 DEF Among, Members
    <3> QED
        BY <2>3, <3>2
  <2> HIDE DEF groups
  <2>4. \A g \in groups : Total(g) # 0
    BY DEF groups
  <2>5. \A g, v : /\ OutputRow(g, v) \in DOMAIN acc <=> v = Total(g) /\ v # 0
                  /\ OutputRow(g, v) \in DOMAIN acc => acc[OutputRow(g, v)] = 1
    BY <2>1, <2>2, WeightType DEF Shown, Weight
  <2>6. DOMAIN acc = rows
    BY <2>1, <2>3, <2>4, <2>5
  <2>7. \A row \in DOMAIN acc : acc[row] = 1
    BY <2>1, <2>5
  <2>8. acc = [row \in DOMAIN acc |-> acc[row]]
    BY <2>1 DEF IsZSet
  <2> HIDE DEF rows
  <2>9. acc = [row \in rows |-> 1]
    BY <2>6, <2>7, <2>8
  <2> QED
    BY <2>9 DEF AggregateViewExact, rows, groups
<1> QED
    BY <1>1, <1>2, AggregateNext, PTL DEF Spec

-----------------------------------------------------------------------------
(***************************************************************************)
(* The SQL endpoint.  The rows of a source are listed by the request; a    *)
(* node of the plan makes a list of its input's.                           *)
(***************************************************************************)
LEMMA RowsHaveTrace ==
    ASSUME NEW rows, NEW n \in Nat, DOMAIN rows = 1..n
    PROVE  \E f : /\ Trace("rows", rows, n, Empty, <<>>, <<>>, f)
                  /\ SourceBatch(rows) = f[n]
<1> DEFINE Eq(H) == H = [s \in SUBSET DOMAIN rows |->
                            IF s = {} THEN Empty
                            ELSE Insert(H[s \ {Max(s)}], rows[Max(s)].fields,
                                        rows[Max(s)].weight)]
           F == CHOOSE H : Eq(H)
<1>1. \A H : Folds("rows", rows, Empty, <<>>, <<>>, DOMAIN rows, H) <=> Eq(H)
    BY DEF Folds, Step
<1>2. \E H : Folds("rows", rows, Empty, <<>>, <<>>, DOMAIN rows, H)
    BY IntervalHasLast, FoldsExist
<1>3. SourceBatch(rows) = F[DOMAIN rows]
    BY DEF SourceBatch, FoldLeft, MapThenFoldSet
<1> HIDE DEF Eq
<1>4. Folds("rows", rows, Empty, <<>>, <<>>, DOMAIN rows, F)
    BY <1>1, <1>2
<1> HIDE DEF F
<1>5. Folds("rows", rows, Empty, <<>>, <<>>, 1..n, F)
    BY <1>4, Zenon
<1>6. \E f : Trace("rows", rows, n, Empty, <<>>, <<>>, f) /\ f[n] = F[1..n]
    BY <1>5, FoldsHaveTraces
<1> QED
    BY <1>3, <1>6

FieldsIn(rows) == [i \in DOMAIN rows |-> rows[i].fields]
WeightsIn(rows) == [i \in DOMAIN rows |-> rows[i].weight]

LEMMA BatchIsListed ==
    ASSUME NEW rows, rows \in Seq(Range(rows)),
           \A row \in Range(rows) : row.weight \in Int
    PROVE  Lists(SourceBatch(rows), DOMAIN rows, FieldsIn(rows), WeightsIn(rows))
<1> DEFINE n == Len(rows)
           k == FieldsIn(rows)
           w == WeightsIn(rows)
<1>1. n \in Nat /\ DOMAIN rows = 1..n /\ \A i \in 1..n : rows[i] \in Range(rows)
    BY LenProperties, ElementOfSeq
<1>2. \A i \in 1..n : w[i] = rows[i].weight /\ w[i] \in Int /\ k[i] = rows[i].fields
    BY <1>1 DEF WeightsIn, FieldsIn
<1> HIDE DEF n
<1>3. PICK f : Trace("rows", rows, n, Empty, <<>>, <<>>, f) /\ SourceBatch(rows) = f[n]
    BY <1>1, RowsHaveTrace
<1>4. f[0] = Empty /\ \A i \in 1..n : f[i] = Insert(f[i - 1], k[i], w[i])
    BY <1>2, <1>3 DEF Trace, Step
<1> HIDE DEF k, w
<1> DEFINE Good == {i \in 0..n : Inserted(Empty, k, w, 1..i, f[i])}
<1>5. 0 \in Good
  <2>1. 1..0 = {}
    OBVIOUS
  <2>2. Inserted(Empty, k, w, {}, Empty)
    BY InsertedNothing, EmptyIsZSet
  <2> QED
    BY <1>1, <1>4, <2>1, <2>2
<1>6. ASSUME NEW i \in 1..n, i - 1 \in Good PROVE i \in Good
  <2> DEFINE S == 1..i
  <2>1. /\ i \in S /\ S \ {i} = 1..(i - 1) /\ IsFiniteSet(S) /\ i \in 0..n
        /\ \A x \in S : x \in 1..n
    <3>1. i \in Nat \ {0} /\ i <= n
        BY <1>1
    <3>2. IsFiniteSet(1..i)
        BY <3>1, IntervalHasLast
    <3> QED
        BY <1>1, <3>1, <3>2
  <2>2. Inserted(Empty, k, w, S \ {i}, f[i - 1])
    BY <1>6, <2>1
  <2>3. \A x \in S : w[x] \in Int
    BY <1>2, <2>1
  <2> HIDE DEF S
  <2>4. Inserted(Empty, k, w, S, Insert(f[i - 1], k[i], w[i]))
    BY <2>1, <2>2, <2>3, InsertedOneMore, EmptyIsZSet
  <2> QED
    BY <1>4, <2>1, <2>4 DEF S
<1>7. Inserted(Empty, k, w, 1..n, f[n])
  <2>1. \A i \in 0..n : i \in Good
    <3> HIDE DEF Good
    <3> QED
        BY <1>1, <1>5, <1>6, Upwards
  <2> QED
    BY <1>1, <2>1
<1>8. ASSUME NEW row
      PROVE  Weight(f[n], row) = SumOver(w, Standing(k, 1..n, row))
  <2>1. IsFiniteSet(Standing(k, 1..n, row)) /\ \A x \in Standing(k, 1..n, row) : w[x] \in Int
    BY <1>1, <1>2, FS_Interval, FS_Subset DEF Standing
  <2>2. SumOver(w, Standing(k, 1..n, row)) \in Int
    BY <2>1, SumType
  <2>3. Weight(f[n], row) = 0 + SumOver(w, Standing(k, 1..n, row))
    BY <1>7, EmptyIsZSet DEF Inserted
  <2> QED
    BY <2>2, <2>3
<1>9. IsFiniteSet(1..n)
    BY <1>1, FS_Interval
<1> QED
    BY <1>1, <1>2, <1>3, <1>7, <1>8, <1>9 DEF Lists, Inserted, k, w

SourcesOf(request) ==
    [t \in DOMAIN request.sources |-> SourceBatch(request.sources[t])]
Multiplicities(request, table) ==
    [r \in RowsOf(request) |-> Multiplicity(request, table, r)]
Rows(request) == [r \in RowsOf(request) |-> r]

LEMMA RowsAreFinite ==
    ASSUME NEW request \in Requests
    PROVE  IsFiniteSet(RowsOf(request))
<1> DEFINE rowsOf == [t \in DOMAIN request.sources |->
                        {r.fields : r \in Range(request.sources[t])}]
<1>1. ASSUME NEW t \in DOMAIN request.sources PROVE IsFiniteSet(rowsOf[t])
  <2> DEFINE rows == request.sources[t]
  <2>1. rows \in Seq(Range(rows))
    BY RequestAssumption
  <2>2. IsFiniteSet(DOMAIN rows)
    <3>1. PICK n \in Nat : DOMAIN rows = 1..n
        BY <2>1, LenProperties
    <3>2. IsFiniteSet(1..n)
        BY IntervalHasLast
    <3> QED
        BY <3>1, <3>2
  <2> DEFINE k == FieldsIn(rows)
  <2>3. IsFiniteSet({k[i] : i \in DOMAIN rows})
    <3> HIDE DEF k
    <3> QED
        BY <2>2, ImageIsFinite
  <2>4. rowsOf[t] = {k[i] : i \in DOMAIN rows}
    BY DEF Range, FieldsIn
  <2> QED
    BY <2>3, <2>4
<1>2. IsFiniteSet({rowsOf[t] : t \in DOMAIN request.sources})
  <2>1. IsFiniteSet(DOMAIN request.sources)
    BY RequestAssumption
  <2> HIDE DEF rowsOf
  <2> QED
    BY <2>1, ImageIsFinite
<1>3. RowsOf(request) = UNION {rowsOf[t] : t \in DOMAIN request.sources}
    BY DEF RowsOf
<1> HIDE DEF rowsOf
<1> QED
    BY <1>1, <1>2, <1>3, FS_UNION

\* A scan lists the rows of the request, each with its multiplicity.
LEMMA SourceIsListed ==
    ASSUME NEW request \in Requests, NEW table
    PROVE  Lists(Scan(table, SourcesOf(request)), RowsOf(request),
                 Rows(request), Multiplicities(request, table))
<1> DEFINE z == Scan(table, SourcesOf(request))
           R == RowsOf(request)
           v == Multiplicities(request, table)
<1>1. /\ IsZSet(z) /\ DOMAIN z \subseteq R
      /\ \A row : /\ Multiplicity(request, table, row) = Weight(z, row)
                  /\ Weight(z, row) \in Int
  <2>1. CASE table \in DOMAIN request.sources
    <3> DEFINE rows == request.sources[table]
               k == FieldsIn(rows)
               w == WeightsIn(rows)
    <3>1. z = SourceBatch(rows)
        BY <2>1 DEF Scan, SourcesOf
    <3>2. Lists(z, DOMAIN rows, k, w)
      <4>1. rows \in Seq(Range(rows)) /\ \A row \in Range(rows) : row.weight \in Int
        BY <2>1, RequestAssumption
      <4> QED
        BY <3>1, <4>1, BatchIsListed
    <3>3. \A row : Standing(k, DOMAIN rows, row) = {i \in DOMAIN rows : rows[i].fields = row}
        BY DEF Standing, FieldsIn
    <3>4. ASSUME NEW row PROVE Multiplicity(request, table, row) = Weight(z, row)
      <4>1. Multiplicity(request, table, row) =
                SumOver(w, {i \in DOMAIN rows : rows[i].fields = row})
        BY <2>1 DEF Multiplicity, WeightsIn
      <4> QED
        BY <3>2, <3>3, <4>1 DEF Lists
    <3>5. DOMAIN z \subseteq {k[i] : i \in DOMAIN rows}
      <4> HIDE DEF z, k, w
      <4> QED
        BY <3>2, ListedRows
    <3>6. {k[i] : i \in DOMAIN rows} \subseteq R
      <4>1. \A i \in DOMAIN rows : k[i] = rows[i].fields /\ rows[i] \in Range(rows)
        BY DEF FieldsIn, Range
      <4>2. {r.fields : r \in Range(rows)} \subseteq R
        BY <2>1 DEF RowsOf
      <4> QED
        BY <4>1, <4>2
    <3>7. IsZSet(z)
        BY <3>2 DEF Lists
    <3> QED
        BY <3>4, <3>5, <3>6, <3>7, WeightType
  <2>2. CASE table \notin DOMAIN request.sources
    <3>1. z = Empty
        BY <2>2 DEF Scan, SourcesOf
    <3> QED
        BY <2>2, <3>1, EmptyIsZSet DEF Multiplicity
  <2> QED
    BY <2>1, <2>2
<1>2. IsFiniteSet(R) /\ \A r \in R : v[r] \in Int /\ v[r] = Weight(z, r)
    BY <1>1, RowsAreFinite DEF Multiplicities
<1>3. ASSUME NEW row
      PROVE  Weight(z, row) = SumOver(v, Standing(Rows(request), R, row))
  <2>1. CASE row \in R
    <3>1. Standing(Rows(request), R, row) = {row}
        BY <2>1 DEF Standing, Rows
    <3> HIDE DEF v, R
    <3> QED
        BY <1>2, <2>1, <3>1, SumOfOne
  <2>2. CASE row \notin R
    <3>1. Standing(Rows(request), R, row) = {}
        BY <2>2 DEF Standing, Rows
    <3>2. Weight(z, row) = 0
        BY <1>1, <2>2 DEF Weight
    <3> QED
        BY <3>1, <3>2, SumEmpty
  <2> QED
    BY <2>1, <2>2
<1> HIDE DEF z, R, v
<1> QED
    BY <1>1, <1>2, <1>3 DEF Lists, z, R, v

(***************************************************************************)
(* Joined and Occurrences walk along a combination: g holds what they make *)
(* of its first i + 1 rows.                                                *)
(***************************************************************************)
Walked(kind, request, c, state, i) ==
    IF kind = "row"
       THEN IF i = 0 THEN c[0] ELSE JoinedRow(state, c[i])
       ELSE LET m == Multiplicity(request, TableOf(request.sql, i), c[i])
            IN IF i = 0 THEN m ELSE state * m
Walk(kind, request, c, n, g) ==
    g = [i \in 0..n |-> Walked(kind, request, c, g[i - 1], i)]

LEMMA WalksExist ==
    ASSUME NEW kind, NEW request, NEW c, NEW n \in Nat
    PROVE  \E g : Walk(kind, request, c, n, g)
<1> DEFINE Good == {m \in 0..n : \E g : Walk(kind, request, c, m, g)}
           After(state, i) == Walked(kind, request, c, state, i)
<1>1. 0 \in Good
  <2> DEFINE g == [i \in 0..0 |-> After(0, 0)]
  <2>1. \A s : After(s, 0) = After(0, 0)
    BY DEF Walked
  <2> HIDE DEF Next
  <2>2. g = [i \in 0..0 |-> After(g[i - 1], i)]
    BY <2>1
  <2> HIDE DEF g
  <2>3. Walk(kind, request, c, 0, g)
    BY <2>2 DEF Walk, Next
  <2> QED
    BY <2>3
<1>2. ASSUME NEW m \in 1..n, m - 1 \in Good PROVE m \in Good
  <2>1. PICK g : Walk(kind, request, c, m - 1, g)
    BY <1>2
  <2> DEFINE h == [i \in 0..m |-> IF i < m THEN g[i] ELSE After(g[m - 1], m)]
  <2>2. \A i \in 0..(m - 1) : g[i] = After(g[i - 1], i)
    BY <2>1 DEF Walk
  <2>3. \A s, t : After(s, 0) = After(t, 0)
    BY DEF Walked
  <2> HIDE DEF Next
  <2>4. \A i \in 0..m : h[i] = After(h[i - 1], i)
    BY <2>2, <2>3
  <2>5. h = [i \in 0..m |-> h[i]]
    OBVIOUS
  <2> HIDE DEF h
  <2>6. h = [i \in 0..m |-> After(h[i - 1], i)]
    BY <2>4, <2>5
  <2>7. Walk(kind, request, c, m, h)
    BY <2>6 DEF Walk, Next
  <2> QED
    BY <2>7
<1>3. \A m \in 0..n : m \in Good
  <2> HIDE DEF Good
  <2> QED
    BY <1>1, <1>2, Upwards
<1> QED
    BY <1>3

\* A walk sees only the rows it has passed.
LEMMA WalksAgree ==
    ASSUME NEW kind, NEW request, NEW n \in Nat, NEW m \in 0..n, NEW c, NEW d,
           \A i \in 0..m : c[i] = d[i],
           NEW g, Walk(kind, request, c, n, g), NEW h, Walk(kind, request, d, m, h)
    PROVE  g[m] = h[m]
<1> DEFINE Good == {i \in 0..m : g[i] = h[i]}
<1>1. \A i \in 0..m : /\ g[i] = Walked(kind, request, c, g[i - 1], i)
                      /\ h[i] = Walked(kind, request, d, h[i - 1], i)
    BY DEF Walk
<1>2. \A i \in 0..m : \A s : Walked(kind, request, c, s, i) = Walked(kind, request, d, s, i)
    BY DEF Walked
<1>3. 0 \in Good
  <2>1. \A s, t : Walked(kind, request, c, s, 0) = Walked(kind, request, c, t, 0)
    BY DEF Walked
  <2> QED
    BY <1>1, <1>2, <2>1
<1>4. ASSUME NEW i \in 1..m, i - 1 \in Good PROVE i \in Good
    BY <1>1, <1>2, <1>4
<1>5. \A i \in 0..m : i \in Good
  <2> HIDE DEF Good
  <2> QED
    BY <1>3, <1>4, Upwards
<1> QED
    BY <1>5

LEMMA CombinationWalks ==
    ASSUME NEW request, NEW c, NEW n \in Nat
    PROVE  /\ \E g : Walk("row", request, c, n, g) /\ Joined(c, n) = g[n]
           /\ \E g : Walk("times", request, c, n, g) /\ Occurrences(request, c, n) = g[n]
<1>1. \E g : Walk("row", request, c, n, g) /\ Joined(c, n) = g[n]
  <2> DEFINE Eq(g) == g = [i \in 0..n |-> IF i = 0 THEN c[0] ELSE JoinedRow(g[i - 1], c[i])]
             G == CHOOSE g : Eq(g)
  <2>1. \A g : Walk("row", request, c, n, g) <=> Eq(g)
    BY DEF Walk, Walked
  <2>2. Joined(c, n) = G[n]
    BY DEF Joined
  <2>3. \E g : Walk("row", request, c, n, g)
    BY WalksExist
  <2> HIDE DEF Eq
  <2> QED
    BY <2>1, <2>2, <2>3
<1>2. \E g : Walk("times", request, c, n, g) /\ Occurrences(request, c, n) = g[n]
  <2> DEFINE M(i) == Multiplicity(request, TableOf(request.sql, i), c[i])
             Eq(g) == g = [i \in 0..n |-> IF i = 0 THEN M(i) ELSE g[i - 1] * M(i)]
             G == CHOOSE g : Eq(g)
  <2>1. \A g : Walk("times", request, c, n, g) <=> Eq(g)
    BY DEF Walk, Walked
  <2>2. Occurrences(request, c, n) = G[n]
    BY DEF Occurrences
  <2>3. \E g : Walk("times", request, c, n, g)
    BY WalksExist
  <2> HIDE DEF Eq
  <2> QED
    BY <2>1, <2>2, <2>3
<1> QED
    BY <1>1, <1>2

\* The first row, and one more; d begins as c does.
LEMMA CombinationSteps ==
    ASSUME NEW request, NEW c
    PROVE  /\ Joined(c, 0) = c[0]
           /\ Occurrences(request, c, 0) = Multiplicity(request, TableOf(request.sql, 0), c[0])
           /\ \A n \in Nat \ {0} : \A d :
                (\A i \in 0..(n - 1) : c[i] = d[i]) =>
                    /\ Joined(c, n) = JoinedRow(Joined(d, n - 1), c[n])
                    /\ Occurrences(request, c, n) =
                        Occurrences(request, d, n - 1)
                            * Multiplicity(request, TableOf(request.sql, n), c[n])
<1>1. /\ Joined(c, 0) = c[0]
      /\ Occurrences(request, c, 0) = Multiplicity(request, TableOf(request.sql, 0), c[0])
  <2>1. PICK g : Walk("row", request, c, 0, g) /\ Joined(c, 0) = g[0]
    BY CombinationWalks
  <2>2. PICK h : Walk("times", request, c, 0, h) /\ Occurrences(request, c, 0) = h[0]
    BY CombinationWalks
  <2>3. /\ g[0] = Walked("row", request, c, g[0 - 1], 0)
        /\ h[0] = Walked("times", request, c, h[0 - 1], 0)
    BY <2>1, <2>2 DEF Walk
  <2> QED
    BY <2>1, <2>2, <2>3 DEF Walked
<1>2. ASSUME NEW n \in Nat \ {0}, NEW d, \A i \in 0..(n - 1) : c[i] = d[i]
      PROVE  /\ Joined(c, n) = JoinedRow(Joined(d, n - 1), c[n])
             /\ Occurrences(request, c, n) =
                    Occurrences(request, d, n - 1)
                        * Multiplicity(request, TableOf(request.sql, n), c[n])
  <2>1. n - 1 \in Nat /\ n - 1 \in 0..n /\ n \in 0..n /\ n \in Nat /\ n # 0
    OBVIOUS
  <2>2. PICK g : Walk("row", request, c, n, g) /\ Joined(c, n) = g[n]
    BY CombinationWalks
  <2>3. PICK gd : Walk("row", request, d, n - 1, gd) /\ Joined(d, n - 1) = gd[n - 1]
    BY <2>1, CombinationWalks
  <2>4. PICK h : Walk("times", request, c, n, h) /\ Occurrences(request, c, n) = h[n]
    BY CombinationWalks
  <2>5. PICK hd : Walk("times", request, d, n - 1, hd)
                    /\ Occurrences(request, d, n - 1) = hd[n - 1]
    BY <2>1, CombinationWalks
  <2>6. g[n - 1] = gd[n - 1] /\ h[n - 1] = hd[n - 1]
    BY <1>2, <2>1, <2>2, <2>3, <2>4, <2>5, WalksAgree
  <2>7. /\ g[n] = Walked("row", request, c, g[n - 1], n)
        /\ h[n] = Walked("times", request, c, h[n - 1], n)
    BY <2>1, <2>2, <2>4 DEF Walk
  <2>8. g[n] = JoinedRow(g[n - 1], c[n])
    BY <2>1, <2>7 DEF Walked
  <2>9. h[n] = h[n - 1] * Multiplicity(request, TableOf(request.sql, n), c[n])
    BY <2>1, <2>7 DEF Walked
  <2> QED
    BY <2>2, <2>3, <2>4, <2>5, <2>6, <2>8, <2>9
<1> QED
    BY <1>1, <1>2

\* What is joined of the first rows depends on these alone.
LEMMA JoinedAgrees ==
    ASSUME NEW n \in Nat, NEW c, NEW d, \A i \in 0..n : c[i] = d[i]
    PROVE  Joined(c, n) = Joined(d, n)
<1>1. PICK g : Walk("row", 0, c, n, g) /\ Joined(c, n) = g[n]
    BY CombinationWalks
<1>2. PICK h : Walk("row", 0, d, n, h) /\ Joined(d, n) = h[n]
    BY CombinationWalks
<1>3. n \in 0..n
    OBVIOUS
<1> QED
    BY <1>1, <1>2, <1>3, WalksAgree

(***************************************************************************)
(* The output of the joins lists the combinations.                         *)
(***************************************************************************)
RowsJoined(request, n) == [c \in Combinations(request, n) |-> Joined(c, n)]
Occurring(request, n) == [c \in Combinations(request, n) |-> Occurrences(request, c, n)]

LEMMA FromIsListed ==
    ASSUME NEW request \in Requests
    PROVE  Lists(Scan(request.sql.from, SourcesOf(request)), Combinations(request, 0),
                 RowsJoined(request, 0), Occurring(request, 0))
<1> DEFINE R == RowsOf(request)
           C == Combinations(request, 0)
           e == [c \in C |-> c[0]]
           b == [r \in R |-> [i \in 0..0 |-> r]]
           q == Rows(request)
           v == Multiplicities(request, request.sql.from)
           z == Scan(request.sql.from, SourcesOf(request))
           p == RowsJoined(request, 0)
           w == Occurring(request, 0)
<1>1. C = [0..0 -> R]
    BY DEF Combinations
<1>2. Lists(z, R, q, v)
    BY SourceIsListed
<1>3. {b[r] : r \in R} = C
  <2>1. \A r \in R : b[r] \in C
    BY <1>1
  <2>2. ASSUME NEW c \in C PROVE c[0] \in R /\ c = b[c[0]]
    BY <1>1
  <2> HIDE DEF b, C, R
  <2> QED
    BY <2>1, <2>2
<1>4. IsFiniteSet(C)
  <2>1. IsFiniteSet(R)
    BY RowsAreFinite
  <2> HIDE DEF R, C, b
  <2> QED
    BY <1>3, <2>1, ImageIsFinite
<1>5. {e[c] : c \in C} = R /\ \A c, d \in C : e[c] = e[d] => c = d
  <2>1. \A c \in C : c[0] \in R /\ c = b[c[0]] /\ e[c] = c[0]
    BY <1>1
  <2>2. \A r \in R : b[r] \in C /\ b[r][0] = r
    BY <1>1
  <2> HIDE DEF b, C, R, e
  <2>3. \A r \in R : e[b[r]] = r
    BY <2>1, <2>2
  <2> QED
    BY <2>1, <2>2, <2>3
<1>6. \A c \in C : p[c] = q[e[c]] /\ w[c] = v[e[c]]
  <2> SUFFICES ASSUME NEW c \in C PROVE p[c] = q[e[c]] /\ w[c] = v[e[c]]
    OBVIOUS
  <2>1. c[0] \in R /\ e[c] = c[0]
    BY <1>1
  <2>2. /\ p[c] = c[0]
        /\ w[c] = Multiplicity(request, request.sql.from, c[0])
    BY CombinationSteps DEF RowsJoined, Occurring, TableOf
  <2> QED
    BY <2>1, <2>2 DEF Rows, Multiplicities
<1> HIDE DEF R, C, e, q, v, z, p, w
<1>7. Lists(z, C, p, w)
    BY <1>2, <1>4, <1>5, <1>6, ListedAgain
<1> QED
    BY <1>7 DEF z, C, p, w

LEMMA JoinIsListed ==
    ASSUME NEW request \in Requests, NEW n \in Nat \ {0}, NEW y,
           Lists(y, Combinations(request, n - 1), RowsJoined(request, n - 1),
                 Occurring(request, n - 1)),
           NEW join, join = request.sql.joins[n]
    PROVE  Lists(Probe(y, Scan(join.table, SourcesOf(request)), join.left, join.right),
                 Combinations(request, n), RowsJoined(request, n), Occurring(request, n))
<1> DEFINE R == RowsOf(request)
           B == Combinations(request, n - 1)
           C == Combinations(request, n)
           q == Rows(request)
           v == Multiplicities(request, join.table)
           z == Scan(join.table, SourcesOf(request))
           p == RowsJoined(request, n - 1)
           w == Occurring(request, n - 1)
           M == {x \in B \X R : Get(p[x[1]], join.left) = Get(q[x[2]], join.right)}
           k == [x \in M |-> JoinedRow(p[x[1]], q[x[2]])]
           h == [x \in M |-> w[x[1]] * v[x[2]]]
           Start(c) == [i \in 0..(n - 1) |-> c[i]]
           e == [c \in C |-> <<Start(c), c[n]>>]
           b == [x \in M |-> [i \in 0..n |-> IF i < n THEN x[1][i] ELSE x[2]]]
           P == Probe(y, z, join.left, join.right)
           On(c, i) == LET j == request.sql.joins[i] IN
                       Get(Joined(c, i - 1), j.left) = Get(c[i], j.right)
<1>0. n \in Nat /\ n - 1 \in Nat /\ n \in 0..n /\ n \notin 0..(n - 1) /\ 0..(n - 1) \subseteq 0..n
    OBVIOUS
<1>1. /\ C = {c \in [0..n -> R] : \A i \in 1..n : On(c, i)}
      /\ B = {c \in [0..(n - 1) -> R] : \A i \in 1..(n - 1) : On(c, i)}
    BY DEF Combinations
<1>2. Lists(z, R, q, v) /\ \A r \in R : q[r] = r /\ v[r] = Multiplicity(request, join.table, r)
    BY SourceIsListed DEF Rows, Multiplicities
<1>3. \A c \in B : p[c] = Joined(c, n - 1) /\ w[c] = Occurrences(request, c, n - 1)
    BY DEF RowsJoined, Occurring
<1>4. Lists(P, M, k, h)
  <2>1. Lists(y, B, p, w)
    OBVIOUS
  <2> HIDE DEF B, p, w, R, q, v, z
  <2> QED
    BY <1>2, <2>1, ListedJoin
\* The two ways to write a combination.
<1>5. ASSUME NEW c \in C
      PROVE  /\ Start(c) \in B /\ c[n] \in R /\ e[c] = <<Start(c), c[n]>> /\ e[c] \in M
             /\ \A i \in 0..(n - 1) : c[i] = Start(c)[i]
  <2>1. c \in [0..n -> R] /\ \A i \in 1..n : On(c, i)
    BY <1>1
  <2>2. Start(c) \in [0..(n - 1) -> R] /\ c[n] \in R
    BY <1>0, <2>1
  <2>3. \A i \in 0..(n - 1) : c[i] = Start(c)[i]
    OBVIOUS
  <2>4. \A i \in 0..(n - 1) : Joined(c, i) = Joined(Start(c), i)
    <3> SUFFICES ASSUME NEW i \in 0..(n - 1) PROVE Joined(c, i) = Joined(Start(c), i)
        OBVIOUS
    <3>1. i \in Nat /\ \A j \in 0..i : j \in 0..(n - 1)
        BY <1>0
    <3> HIDE DEF Start
    <3> QED
        BY <2>3, <3>1, JoinedAgrees
  <2> HIDE DEF Start
  <2>5. ASSUME NEW i \in 1..(n - 1) PROVE On(Start(c), i)
    <3>1. i - 1 \in 0..(n - 1) /\ i \in 0..(n - 1) /\ i \in 1..n
        BY <1>0
    <3> QED
        BY <2>1, <2>3, <2>4, <3>1
  <2>6. Start(c) \in B
    BY <1>1, <2>2, <2>5
  <2>7. e[c] = <<Start(c), c[n]>>
    OBVIOUS
  <2>8. On(c, n)
    BY <1>0, <2>1
  <2>9. Get(p[Start(c)], join.left) = Get(q[c[n]], join.right)
    <3>1. p[Start(c)] = Joined(c, n - 1)
        BY <1>0, <1>3, <2>4, <2>6
    <3>2. q[c[n]] = c[n]
        BY <1>2, <2>2
    <3> QED
        BY <2>8, <3>1, <3>2
  <2>10. <<Start(c), c[n]>> \in M
    <3> HIDE DEF B, R, p, q, e
    <3> QED
        BY <2>2, <2>6, <2>9
  <2> QED
    BY <2>2, <2>3, <2>6, <2>7, <2>10
<1>6. ASSUME NEW x \in M
      PROVE  /\ b[x] \in C /\ Start(b[x]) = x[1] /\ b[x][n] = x[2] /\ x = <<x[1], x[2]>>
  <2> DEFINE c == b[x]
  <2>1. /\ x[1] \in B /\ x[2] \in R /\ x = <<x[1], x[2]>>
        /\ Get(p[x[1]], join.left) = Get(q[x[2]], join.right)
    OBVIOUS
  <2>2. /\ x[1] \in [0..(n - 1) -> R]
        /\ \A i \in 1..(n - 1) : On(x[1], i)
    BY <1>1, <2>1
  <2>3. c = [i \in 0..n |-> IF i < n THEN x[1][i] ELSE x[2]]
    OBVIOUS
  <2> HIDE DEF b, M, B, R, p, q
  <2>4. c \in [0..n -> R] /\ c[n] = x[2] /\ \A i \in 0..(n - 1) : c[i] = x[1][i]
    <3>1. \A i \in 0..n : i < n <=> i \in 0..(n - 1)
        BY <1>0
    <3> QED
        BY <1>0, <2>1, <2>2, <2>3, <3>1
  <2>5. \A i \in 0..(n - 1) : Joined(c, i) = Joined(x[1], i)
    <3> SUFFICES ASSUME NEW i \in 0..(n - 1) PROVE Joined(c, i) = Joined(x[1], i)
        OBVIOUS
    <3>1. i \in Nat /\ \A j \in 0..i : j \in 0..(n - 1)
        BY <1>0
    <3> HIDE DEF c
    <3> QED
        BY <2>4, <3>1, JoinedAgrees
  <2> HIDE DEF c
  <2>6. ASSUME NEW i \in 1..n PROVE On(c, i)
    <3>1. CASE i = n
      <4>1. p[x[1]] = Joined(c, n - 1)
        BY <1>0, <1>3, <2>1, <2>5
      <4>2. q[x[2]] = c[n]
        BY <1>2, <2>1, <2>4
      <4> QED
        BY <2>1, <3>1, <4>1, <4>2
    <3>2. CASE i # n
      <4>1. i \in 1..(n - 1) /\ i - 1 \in 0..(n - 1) /\ i \in 0..(n - 1)
        BY <1>0, <3>2
      <4> QED
        BY <2>2, <2>4, <2>5, <4>1
    <3> QED
        BY <3>1, <3>2
  <2>7. c \in C
    BY <1>1, <2>4, <2>6
  <2>8. Start(c) = x[1]
    BY <2>2, <2>4
  <2> QED
    BY <2>1, <2>4, <2>7, <2>8 DEF c
<1>7. \A c, d \in C : Start(c) = Start(d) /\ c[n] = d[n] => c = d
  <2> SUFFICES ASSUME NEW c \in C, NEW d \in C, Start(c) = Start(d), c[n] = d[n]
               PROVE  c = d
    OBVIOUS
  <2>1. c \in [0..n -> R] /\ d \in [0..n -> R]
    BY <1>1
  <2>2. \A i \in 0..n : i = n \/ i \in 0..(n - 1)
    BY <1>0
  <2>3. \A i \in 0..(n - 1) : c[i] = d[i]
    BY <1>5
  <2>4. \A i \in 0..n : c[i] = d[i]
    BY <2>2, <2>3
  <2> HIDE DEF C
  <2> QED
    BY <2>1, <2>4
<1>8. \A c \in C : RowsJoined(request, n)[c] = k[e[c]] /\ Occurring(request, n)[c] = h[e[c]]
  <2> SUFFICES ASSUME NEW c \in C
               PROVE  RowsJoined(request, n)[c] = k[e[c]] /\ Occurring(request, n)[c] = h[e[c]]
    OBVIOUS
  <2> DEFINE d == Start(c)
  <2>1. d \in B /\ c[n] \in R /\ e[c] = <<d, c[n]>> /\ e[c] \in M
        /\ \A i \in 0..(n - 1) : c[i] = d[i]
    BY <1>5
  <2> HIDE DEF d, e
  <2>2. /\ Joined(c, n) = JoinedRow(Joined(d, n - 1), c[n])
        /\ Occurrences(request, c, n) =
                Occurrences(request, d, n - 1)
                    * Multiplicity(request, TableOf(request.sql, n), c[n])
    BY <2>1, CombinationSteps
  <2>3. TableOf(request.sql, n) = join.table
    BY <1>0 DEF TableOf
  <2>4. /\ p[d] = Joined(d, n - 1) /\ w[d] = Occurrences(request, d, n - 1)
        /\ q[c[n]] = c[n] /\ v[c[n]] = Multiplicity(request, join.table, c[n])
    BY <1>2, <1>3, <2>1
  <2>5. k[e[c]] = JoinedRow(p[d], q[c[n]]) /\ h[e[c]] = w[d] * v[c[n]]
    <3> HIDE DEF M, p, q, w, v
    <3> QED
        BY <2>1
  <2>6. /\ RowsJoined(request, n)[c] = Joined(c, n)
        /\ Occurring(request, n)[c] = Occurrences(request, c, n)
    BY DEF RowsJoined, Occurring
  <2> HIDE DEF k, h, p, q, w, v
  <2> QED
    BY <2>2, <2>3, <2>4, <2>5, <2>6
<1>9. \A c \in C : e[c] \in M /\ b[e[c]] = c
  <2> SUFFICES ASSUME NEW c \in C PROVE e[c] \in M /\ b[e[c]] = c
    OBVIOUS
  <2>1. e[c] \in M /\ e[c] = <<Start(c), c[n]>>
    BY <1>5
  <2>2. b[e[c]] \in C /\ Start(b[e[c]]) = Start(c) /\ b[e[c]][n] = c[n]
    <3> HIDE DEF M, b, C, Start, e
    <3> QED
        BY <1>6, <2>1
  <2> HIDE DEF M, b, C, Start, e
  <2> QED
    BY <1>7, <2>1, <2>2
<1>10. \A x \in M : e[b[x]] = x
  <2> SUFFICES ASSUME NEW x \in M PROVE e[b[x]] = x
    OBVIOUS
  <2>1. /\ b[x] \in C /\ Start(b[x]) = x[1] /\ b[x][n] = x[2] /\ x = <<x[1], x[2]>>
    BY <1>6
  <2>2. e[b[x]] = <<Start(b[x]), b[x][n]>>
    <3> HIDE DEF M, b, C, Start
    <3> QED
        BY <2>1
  <2> HIDE DEF M, b, C, Start, e
  <2> QED
    BY <2>1, <2>2
<1>11. \A x \in M : b[x] \in C
    BY <1>6
<1>12. \A c \in C : e[c] \in M
    BY <1>9
<1>13. \A c, d \in C : e[c] = e[d] => c = d
  <2> HIDE DEF M, b, C, e
  <2> QED
    BY <1>9
<1>14. {e[c] : c \in C} = M /\ {b[x] : x \in M} = C
  <2> HIDE DEF M, b, C, e
  <2> QED
    BY <1>9, <1>10, <1>11
<1>15. IsFiniteSet(M)
    BY <1>4 DEF Lists
<1> DEFINE pn == RowsJoined(request, n)
           wn == Occurring(request, n)
<1> HIDE DEF R, B, C, q, v, z, p, w, M, k, h, Start, e, b, P, pn, wn
<1>16. IsFiniteSet(C)
    BY <1>14, <1>15, ImageIsFinite
<1>17. \A c \in C : pn[c] = k[e[c]] /\ wn[c] = h[e[c]]
    BY <1>8 DEF pn, wn
<1>18. Lists(P, C, pn, wn)
    BY <1>4, <1>13, <1>14, <1>16, <1>17, ListedAgain
<1> QED
    BY <1>18 DEF P, z, C, pn, wn

(***************************************************************************)
(* The plan of a request, run.                                             *)
(***************************************************************************)
LEMMA Appended ==
    ASSUME NEW S, NEW s \in Seq(S), NEW t \in Seq(S), NEW u, u = s \o t
    PROVE  /\ u \in Seq(S) /\ Len(u) = Len(s) + Len(t)
           /\ Len(s) \in Nat /\ Len(t) \in Nat
           /\ \A i \in 1..Len(s) : u[i] = s[i]
           /\ \A i \in 1..Len(t) : u[Len(s) + i] = t[i]
<1>1. Len(s) \in Nat /\ Len(t) \in Nat
    BY LenProperties
<1>2. /\ u \in Seq(S) /\ Len(u) = Len(s) + Len(t)
      /\ \A i \in 1..(Len(s) + Len(t)) :
            u[i] = IF i <= Len(s) THEN s[i] ELSE t[i - Len(s)]
    BY ConcatProperties
<1>3. ASSUME NEW i \in 1..Len(t) PROVE u[Len(s) + i] = t[i]
  <2>1. /\ Len(s) + i \in 1..(Len(s) + Len(t)) /\ ~(Len(s) + i <= Len(s))
        /\ (Len(s) + i) - Len(s) = i
    BY <1>1
  <2> QED
    BY <1>2, <2>1
<1>4. ASSUME NEW i \in 1..Len(s) PROVE u[i] = s[i]
    BY <1>1, <1>2
<1> QED
    BY <1>1, <1>2, <1>3, <1>4

LEMMA JoinNodeDoes ==
    ASSUME NEW state, NEW old, NEW z, state = [result |-> old, out |-> z],
           NEW sources, NEW order, NEW join
    PROVE  ExecuteNode(state, JoinNode(join), sources, order) =
                [result |-> old,
                 out |-> Probe(z, Scan(join.table, sources), join.left, join.right)]
<1>1. state.out = z /\ state.result = old
      /\ \A y : [state EXCEPT !.out = y] = [result |-> old, out |-> y]
    OBVIOUS
<1> QED
    BY <1>1 DEF ExecuteNode, JoinNode, IncrementalJoin

\* p is the plan of a SELECT with m joins: the k nodes below the last come from
\* FROM, the JOINs and WHERE.
PlanShape(select, m, k, p, n) ==
    /\ m \in Nat /\ n \in Nat /\ DOMAIN p = 1..n /\ k \in 1..n
    /\ p[1] = ScanNode(select)
    /\ \A i \in 1..m : p[i + 1] = JoinNode(select.joins[i]) /\ i + 1 \in 1..n
    /\ select.where # <<>> => p[k] = FilterNode(select)
    /\ HasAggregate(select) => n = k + 1 /\ p[n] = AggregateNode(select)
    /\ ~HasAggregate(select) /\ ColumnNames(select) = {} => n = k
    /\ ~HasAggregate(select) /\ ColumnNames(select) # {} =>
         n = k + 1 /\ p[n] = ProjectNode(select)

LEMMA PlanNodes ==
    ASSUME NEW select, select.joins \in Seq(Range(select.joins)),
           NEW m, m = Len(select.joins),
           NEW k, k = IF select.where = <<>> THEN m + 1 ELSE m + 2,
           NEW p, p = PlanSelect(select), NEW n, n = Len(p)
    PROVE  PlanShape(select, m, k, p, n)
<1> DEFINE a == <<ScanNode(select)>>
           b == Joins(select)
           c == Filters(select)
           d == AggregateOrProject(select)
           S == Nodes(select)
<1>1. p = a \o b \o c \o d /\ a \in Seq(S) /\ b \in Seq(S) /\ c \in Seq(S) /\ d \in Seq(S)
    BY PlanParts
<1>2. /\ m \in Nat /\ Len(b) = m
      /\ \A i \in 1..m : b[i] = JoinNode(select.joins[i])
  <2>1. m \in Nat /\ DOMAIN select.joins = 1..m
    BY LenProperties
  <2>2. DOMAIN b = 1..m /\ \A i \in 1..m : b[i] = JoinNode(select.joins[i])
    BY <2>1 DEF Joins, JoinNode
  <2>3. DOMAIN b = 1..Len(b) /\ Len(b) \in Nat
    <3> HIDE DEF b
    <3> QED
        BY <1>1, LenProperties
  <2>4. Len(b) = m
    <3> HIDE DEF b
    <3> QED
        BY <2>1, <2>2, <2>3
  <2> QED
    BY <2>1, <2>2, <2>4
<1>3. Len(a) = 1 /\ a[1] = ScanNode(select)
    OBVIOUS
<1>4. /\ select.where = <<>> => Len(c) = 0
      /\ select.where # <<>> => Len(c) = 1 /\ c[1] = FilterNode(select)
    BY DEF Filters
<1>5. /\ HasAggregate(select) => Len(d) = 1 /\ d[1] = AggregateNode(select)
      /\ ~HasAggregate(select) /\ ColumnNames(select) = {} => Len(d) = 0
      /\ ~HasAggregate(select) /\ ColumnNames(select) # {} =>
            Len(d) = 1 /\ d[1] = ProjectNode(select)
  <2>1. d = IF HasAggregate(select) THEN <<AggregateNode(select)>>
            ELSE IF ColumnNames(select) = {} THEN <<>>
            ELSE <<ProjectNode(select)>>
    BY PlanParts
  <2> HIDE DEF d
  <2> QED
    BY <2>1
<1>6. PICK ab : ab = a \o b
    OBVIOUS
<1>7. PICK abc : abc = ab \o c
    OBVIOUS
<1>8. p = abc \o d
    BY <1>1, <1>6, <1>7
<1> HIDE DEF a, b, c, d, S
<1>9. /\ ab \in Seq(S) /\ Len(ab) = 1 + m
      /\ ab[1] = ScanNode(select)
      /\ \A i \in 1..m : ab[1 + i] = b[i]
  <2>1. /\ ab \in Seq(S) /\ Len(ab) = Len(a) + Len(b)
        /\ \A i \in 1..Len(a) : ab[i] = a[i]
        /\ \A i \in 1..Len(b) : ab[Len(a) + i] = b[i]
    BY <1>1, <1>6, Appended
  <2> QED
    BY <1>2, <1>3, <2>1
<1>10. /\ abc \in Seq(S) /\ Len(abc) = k
       /\ \A i \in 1..(1 + m) : abc[i] = ab[i]
       /\ select.where # <<>> => abc[k] = FilterNode(select)
  <2>9. ab \in Seq(S) /\ c \in Seq(S)
    BY <1>1, <1>9
  <2>1. /\ abc \in Seq(S) /\ Len(abc) = Len(ab) + Len(c)
        /\ \A i \in 1..Len(ab) : abc[i] = ab[i]
        /\ \A i \in 1..Len(c) : abc[Len(ab) + i] = c[i]
    BY <1>7, <2>9, Appended
  <2>2. /\ Len(abc) = 1 + m + Len(c)
        /\ \A i \in 1..(1 + m) : abc[i] = ab[i]
        /\ \A i \in 1..Len(c) : abc[1 + m + i] = c[i]
    BY <1>9, <2>1
  <2>3. CASE select.where = <<>>
    <3>1. Len(c) = 0 /\ k = m + 1
        BY <1>4, <2>3
    <3> QED
        BY <1>2, <2>1, <2>2, <2>3, <3>1
  <2>4. CASE select.where # <<>>
    <3>1. Len(c) = 1 /\ c[1] = FilterNode(select) /\ k = m + 2
        BY <1>4, <2>4
    <3>2. 1 \in 1..Len(c) /\ 1 + m + 1 = k /\ Len(abc) = k
        BY <1>2, <2>2, <3>1
    <3> QED
        BY <2>1, <2>2, <3>1, <3>2
  <2> QED
    BY <2>3, <2>4
<1>11. /\ p \in Seq(S) /\ Len(p) = k + Len(d) /\ Len(d) \in Nat /\ k \in Nat
       /\ \A i \in 1..k : p[i] = abc[i]
       /\ \A i \in 1..Len(d) : p[k + i] = d[i]
  <2>1. abc \in Seq(S) /\ d \in Seq(S)
    BY <1>1, <1>10
  <2>2. /\ p \in Seq(S) /\ Len(p) = Len(abc) + Len(d)
        /\ Len(abc) \in Nat /\ Len(d) \in Nat
        /\ \A i \in 1..Len(abc) : p[i] = abc[i]
        /\ \A i \in 1..Len(d) : p[Len(abc) + i] = d[i]
    BY <1>8, <2>1, Appended
  <2> QED
    BY <1>10, <2>2
<1>12. m + 1 <= k
    BY <1>2
<1>13. n \in Nat /\ DOMAIN p = 1..n /\ n = k + Len(d) /\ k \in 1..n
  <2>1. DOMAIN p = 1..Len(p)
    BY <1>11, LenProperties
  <2> QED
    BY <1>2, <1>11, <1>12, <2>1
<1>14. p[1] = ScanNode(select)
  <2>1. 1 \in 1..(1 + m) /\ 1 \in 1..k
    BY <1>2, <1>12, <1>11
  <2> QED
    BY <1>9, <1>10, <1>11, <2>1
<1>15. ASSUME NEW i \in 1..m PROVE p[i + 1] = JoinNode(select.joins[i]) /\ i + 1 \in 1..n
  <2>1. i + 1 \in 1..(1 + m) /\ i + 1 \in 1..k /\ i + 1 \in 1..n /\ i + 1 = 1 + i
    BY <1>2, <1>12, <1>13
  <2> QED
    BY <1>2, <1>9, <1>10, <1>11, <2>1
<1>16. select.where # <<>> => p[k] = FilterNode(select)
  <2>1. k \in 1..k
    BY <1>2, <1>11, <1>12
  <2> QED
    BY <1>10, <1>11, <2>1
<1>17. Len(d) = 1 => p[k + 1] = d[1]
    BY <1>11
<1>18. /\ HasAggregate(select) => n = k + 1 /\ p[n] = AggregateNode(select)
       /\ ~HasAggregate(select) /\ ColumnNames(select) = {} => n = k
       /\ ~HasAggregate(select) /\ ColumnNames(select) # {} =>
            n = k + 1 /\ p[n] = ProjectNode(select)
  <2>1. CASE HasAggregate(select)
    BY <1>5, <1>11, <1>13, <1>17, <2>1
  <2>2. CASE ~HasAggregate(select) /\ ColumnNames(select) = {}
    BY <1>5, <1>11, <1>13, <2>2
  <2>3. CASE ~HasAggregate(select) /\ ColumnNames(select) # {}
    BY <1>5, <1>11, <1>13, <1>17, <2>3
  <2> QED
    BY <2>1, <2>2, <2>3
<1> QED
    BY <1>2, <1>13, <1>14, <1>15, <1>16, <1>18 DEF PlanShape

\* What the scan, the joins and the filter of a request's plan leave.
LEMMA ExecuteLists ==
    ASSUME NEW request \in Requests,
           NEW select, select = request.sql, NEW m, m = Len(select.joins)
    PROVE  \E z : /\ Lists(z, Answering(request), RowsJoined(request, m),
                           Occurring(request, m))
                  /\ Execute(PlanSelect(select), SourcesOf(request), NoGroups, <<>>) =
                        IF HasAggregate(select)
                           THEN ApplyAggregate(NoGroups, z, Arrange(z, <<>>),
                                               GroupKeys(select, z), Contributed(select, z))
                           ELSE [result |-> NoGroups,
                                 out |-> IF ColumnNames(select) = {} THEN z
                                         ELSE Map(z, Projections(select, z))]
<1> DEFINE S == SourcesOf(request)
<1>1. PICK p : p = PlanSelect(select)
    OBVIOUS
<1>2. PICK n : n = Len(p)
    OBVIOUS
<1>3. PICK k : k = IF select.where = <<>> THEN m + 1 ELSE m + 2
    OBVIOUS
<1>4. /\ m \in Nat /\ n \in Nat /\ DOMAIN p = 1..n /\ k \in 1..n
      /\ p[1] = ScanNode(select)
      /\ \A i \in 1..m : p[i + 1] = JoinNode(select.joins[i]) /\ i + 1 \in 1..n
      /\ select.where # <<>> => p[k] = FilterNode(select)
      /\ HasAggregate(select) => n = k + 1 /\ p[n] = AggregateNode(select)
      /\ ~HasAggregate(select) /\ ColumnNames(select) = {} => n = k
      /\ ~HasAggregate(select) /\ ColumnNames(select) # {} =>
            n = k + 1 /\ p[n] = ProjectNode(select)
  <2>1. select.joins \in Seq(Range(select.joins))
    BY RequestAssumption
  <2>2. PlanShape(select, m, k, p, n)
    BY <2>1, <1>1, <1>2, <1>3, PlanNodes
  <2> QED
    BY <2>2 DEF PlanShape
<1>5. PICK f : /\ Trace("plan", p, n, [result |-> NoGroups, out |-> Empty], S, <<>>, f)
               /\ Execute(p, S, NoGroups, <<>>) = f[n]
  <2>1. n \in Nat /\ DOMAIN PlanSelect(select) = 1..n
    BY <1>4, <1>1
  <2> QED
    BY <1>1, <2>1, PlanHasTrace
<1>6. /\ f[0] = [result |-> NoGroups, out |-> Empty]
      /\ \A i \in 1..n : f[i] = ExecuteNode(f[i - 1], p[i], S, <<>>)
    BY <1>5 DEF Trace, Step
<1> HIDE DEF S
<1> DEFINE Listed(i) ==
                /\ f[i + 1] = [result |-> NoGroups, out |-> f[i + 1].out]
                /\ Lists(f[i + 1].out, Combinations(request, i), RowsJoined(request, i),
                         Occurring(request, i))
           Good == {i \in Nat : Listed(i)}
<1>7. Listed(0)
  <2>1. 1 \in 1..n /\ 1 - 1 = 0 /\ 0 + 1 = 1
    BY <1>4
  <2>2. f[1] = ExecuteNode(f[0], ScanNode(select), S, <<>>)
    BY <1>4, <1>6, <2>1
  <2>3. f[1] = [result |-> NoGroups, out |-> Scan(select.from, S)]
    BY <1>6, <2>2, NodeDoes
  <2>4. f[1] = [result |-> NoGroups, out |-> f[1].out] /\ f[1].out = Scan(select.from, S)
    BY <2>3
  <2> QED
    BY <2>1, <2>4, FromIsListed DEF S
<1>8. ASSUME NEW i \in 1..m, Listed(i - 1) PROVE Listed(i)
  <2>1. /\ i \in Nat \ {0} /\ (i - 1) + 1 = i /\ i + 1 \in 1..n /\ (i + 1) - 1 = i
        /\ p[i + 1] = JoinNode(select.joins[i])
    BY <1>4
  <2>2. /\ f[i] = [result |-> NoGroups, out |-> f[i].out]
        /\ Lists(f[i].out, Combinations(request, i - 1), RowsJoined(request, i - 1),
                 Occurring(request, i - 1))
    BY <1>8, <2>1
  <2>7. PICK join, y : join = select.joins[i] /\ y = f[i].out
    OBVIOUS
  <2>3. f[i + 1] = ExecuteNode(f[i], JoinNode(join), S, <<>>)
    BY <1>6, <2>1, <2>7
  <2>4. f[i + 1] = [result |-> NoGroups,
                    out |-> Probe(y, Scan(join.table, S), join.left, join.right)]
    <3>1. f[i] = [result |-> NoGroups, out |-> y]
        BY <2>2, <2>7
    <3>2. ExecuteNode(f[i], JoinNode(join), S, <<>>) =
            [result |-> NoGroups,
             out |-> Probe(y, Scan(join.table, S), join.left, join.right)]
        BY <3>1, JoinNodeDoes
    <3> QED
        BY <2>3, <3>2
  <2>5. Lists(Probe(y, Scan(join.table, S), join.left, join.right),
              Combinations(request, i), RowsJoined(request, i), Occurring(request, i))
    BY <2>1, <2>2, <2>7, JoinIsListed DEF S
  <2>6. /\ f[i + 1] = [result |-> NoGroups, out |-> f[i + 1].out]
        /\ f[i + 1].out = Probe(y, Scan(join.table, S), join.left, join.right)
    BY <2>4
  <2> QED
    BY <2>5, <2>6
<1>9. Listed(m)
  <2>1. 0 \in Good
    BY <1>7
  <2>2. ASSUME NEW i \in 1..m, i - 1 \in Good PROVE i \in Good
    <3>1. Listed(i - 1)
        BY <2>2
    <3>2. Listed(i)
        BY <1>8, <3>1
    <3> HIDE DEF Listed
    <3> QED
        BY <1>4, <3>2
  <2> HIDE DEF Good
  <2>3. \A i \in 0..m : i \in Good
    BY <1>4, <2>1, <2>2, Upwards
  <2>4. m \in Good
    BY <1>4, <2>3
  <2> USE DEF Good
  <2> HIDE DEF Listed
  <2> QED
    BY <2>4
<1> DEFINE q == RowsJoined(request, m)
           w == Occurring(request, m)
           C == Combinations(request, m)
           y == f[m + 1].out
           D == Answering(request)
<1>10. f[m + 1] = [result |-> NoGroups, out |-> y] /\ Lists(y, C, q, w)
    BY <1>9
<1>11. /\ D = {c \in C : EvalPredicate(Range(select.where), Joined(c, m))}
      /\ \A c \in C : q[c] = Joined(c, m)
    BY DEF Answering, RowsJoined
<1> HIDE DEF Listed, C, D, q, w, y
<1>12. PICK z : f[k] = [result |-> NoGroups, out |-> z] /\ Lists(z, D, q, w)
  <2>1. CASE select.where = <<>>
    <3>1. Range(select.where) = {}
        BY <2>1 DEF Range
    <3>2. D = C
        BY <1>11, <3>1 DEF EvalPredicate
    <3>3. k = m + 1
        BY <1>3, <2>1
    <3> QED
        BY <1>10, <3>2, <3>3
  <2>2. CASE select.where # <<>>
    <3> DEFINE passing == {row \in DOMAIN y \cup {q[c] : c \in C} :
                                EvalPredicate(Range(select.where), row)}
    <3>1. k = m + 2 /\ k \in 1..n /\ k - 1 = m + 1 /\ p[k] = FilterNode(select)
        BY <1>4, <1>3, <2>2
    <3>2. f[k] = ExecuteNode(f[m + 1], FilterNode(select), S, <<>>)
        BY <1>6, <3>1
    <3>3. f[k] = [result |-> NoGroups, out |-> Filter(y, Wanted(select, y))]
        BY <1>10, <3>2, NodeDoes
    <3>4. D = {c \in C : q[c] \in passing}
        BY <1>11
    <3>5. \A row \in DOMAIN y : row \in Wanted(select, y) <=> row \in passing
        BY DEF Wanted
    <3> HIDE DEF passing
    <3>6. Lists(Filter(y, Wanted(select, y)), D, q, w)
        BY <1>10, <3>4, <3>5, ListedFilter
    <3> QED
        BY <3>3, <3>6
  <2> QED
    BY <2>1, <2>2
<1>13. Execute(p, S, NoGroups, <<>>) =
            IF HasAggregate(select)
               THEN ApplyAggregate(NoGroups, z, Arrange(z, <<>>),
                                   GroupKeys(select, z), Contributed(select, z))
               ELSE [result |-> NoGroups,
                     out |-> IF ColumnNames(select) = {} THEN z
                             ELSE Map(z, Projections(select, z))]
  <2>1. k \in Int
    BY <1>4
  <2>2. CASE HasAggregate(select)
    <3>1. n \in 1..n /\ n - 1 = k /\ p[n] = AggregateNode(select)
        BY <1>4, <2>1, <2>2
    <3>2. f[n] = ExecuteNode(f[k], AggregateNode(select), S, <<>>)
        BY <1>6, <3>1
    <3> QED
        BY <1>5, <1>12, <2>2, <3>2, NodeDoes
  <2>3. CASE ~HasAggregate(select) /\ ColumnNames(select) = {}
    BY <1>4, <1>5, <1>12, <2>3
  <2>4. CASE ~HasAggregate(select) /\ ColumnNames(select) # {}
    <3>1. n \in 1..n /\ n - 1 = k /\ p[n] = ProjectNode(select)
        BY <1>4, <2>1, <2>4
    <3>2. f[n] = ExecuteNode(f[k], ProjectNode(select), S, <<>>)
        BY <1>6, <3>1
    <3>3. f[n] = [result |-> NoGroups, out |-> Map(z, Projections(select, z))]
        BY <1>12, <3>2, NodeDoes
    <3> QED
        BY <1>5, <2>4, <3>3
  <2> QED
    BY <2>2, <2>3, <2>4
<1> QED
    BY <1>12, <1>13, <1>1 DEF S, D, q, w

\* What is asked, and what is counted, about every combination.
AskedOf(request, m) ==
    [c \in Combinations(request, m) |-> Asked(request.sql, Joined(c, m))]
CountedOf(request, m) ==
    [c \in Combinations(request, m) |->
        ValueOfRow(request.sql, Joined(c, m)) * Occurrences(request, c, m)]

LEMMA QueryTotals ==
    ASSUME NEW request, NEW m, m = Len(request.sql.joins), NEW asked,
           IsFiniteSet(Answering(request))
    PROVE  /\ QueryTotal(request, asked) =
                SumOver(CountedOf(request, m),
                        Standing(AskedOf(request, m), Answering(request), asked))
           /\ QueryTotal(request, asked) # 0 =>
                \E c \in Answering(request) : Asked(request.sql, Joined(c, m)) = asked
<1> DEFINE D == Answering(request)
           S == {c \in D : Asked(request.sql, Joined(c, m)) = asked}
           f == [c \in D |-> ValueOfRow(request.sql, Joined(c, m))
                                * Occurrences(request, c, m)]
<1>1. QueryTotal(request, asked) = SumOver(f, S)
    BY DEF QueryTotal
<1>2. \A c \in D : c \in Combinations(request, m)
    BY DEF Answering
<1>3. S = Standing(AskedOf(request, m), D, asked)
    BY <1>2 DEF Standing, AskedOf
<1>4. \A c \in S : f[c] = CountedOf(request, m)[c]
    BY <1>2 DEF CountedOf
<1>5. IsFiniteSet(S)
    BY FS_Subset
<1>6. SumOver(f, S) = SumOver(CountedOf(request, m), S)
    BY <1>4, <1>5, SumSame
<1>7. S = {} => QueryTotal(request, asked) = 0
    BY <1>1, SumEmpty
<1> QED
    BY <1>1, <1>3, <1>6, <1>7

LEMMA PlainAnswer ==
    ASSUME NEW request, NEW m, m = Len(request.sql.joins),
           ~HasAggregate(request.sql),
           NEW z, Lists(z, Answering(request), AskedOf(request, m), Occurring(request, m))
    PROVE  DOMAIN z = Query(request)
<1> DEFINE D == Answering(request)
           q == AskedOf(request, m)
           w == Occurring(request, m)
           all == {Asked(request.sql, Joined(c, m)) : c \in D}
<1>1. /\ IsZSet(z) /\ IsFiniteSet(D) /\ \A c \in D : w[c] \in Int
      /\ \A row : Weight(z, row) = SumOver(w, Standing(q, D, row))
    BY DEF Lists
<1>2. Query(request) = {asked \in all : QueryTotal(request, asked) # 0}
    BY DEF Query
<1>3. \A c \in D : w[c] = CountedOf(request, m)[c]
  <2>1. ASSUME NEW c \in D PROVE w[c] = CountedOf(request, m)[c]
    <3>1. c \in Combinations(request, m)
        BY DEF Answering
    <3>2. w[c] = Occurrences(request, c, m)
        BY <3>1 DEF Occurring
    <3>3. CountedOf(request, m)[c] = 1 * w[c]
        BY <3>1, <3>2 DEF CountedOf, ValueOfRow
    <3>4. w[c] \in Int
        BY <1>1
    <3> HIDE DEF w
    <3> QED
        BY <3>3, <3>4
  <2> QED
    BY <2>1
<1> HIDE DEF w, q
<1>4. ASSUME NEW row PROVE Weight(z, row) = QueryTotal(request, row)
  <2>1. IsFiniteSet(Standing(q, D, row)) /\ Standing(q, D, row) \subseteq D
    BY <1>1, FS_Subset DEF Standing
  <2>2. SumOver(w, Standing(q, D, row)) =
            SumOver(CountedOf(request, m), Standing(q, D, row))
    BY <1>3, <2>1, SumSame
  <2> QED
    BY <1>1, <2>2, QueryTotals DEF q
<1>5. \A row : row \in DOMAIN z <=> QueryTotal(request, row) # 0
    BY <1>1, <1>4, WeightType
<1>6. \A row : QueryTotal(request, row) # 0 => row \in all
    BY <1>1, QueryTotals
<1> HIDE DEF all
<1> QED
    BY <1>2, <1>5, <1>6

LEMMA ArrangesItself ==
    ASSUME NEW z, IsZSet(z)
    PROVE  Arranges(Arrange(z, <<>>), DOMAIN z)
<1>1. Range(<<>>) = {}
    BY DEF Range
<1>2. CASE DOMAIN z = {}
  <2>1. Arrange(z, <<>>) = <<>>
    BY <1>1, <1>2 DEF Arrange
  <2>2. DOMAIN <<>> = 1..0 /\ 0 \in Nat
    OBVIOUS
  <2> QED
    BY <1>2, <2>1, <2>2 DEF Arranges
<1>3. CASE DOMAIN z # {}
  <2>1. Arrange(z, <<>>) = SetToSeq(DOMAIN z)
    BY <1>1, <1>3 DEF Arrange
  <2> QED
    BY <2>1, SetToSeqArranges DEF IsZSet
<1> QED
    BY <1>2, <1>3

LEMMA AggregateAnswer ==
    ASSUME NEW request, NEW m, m = Len(request.sql.joins),
           HasAggregate(request.sql),
           NEW z, Lists(z, Answering(request), RowsJoined(request, m), Occurring(request, m))
    PROVE  DOMAIN ApplyAggregate(NoGroups, z, Arrange(z, <<>>),
                                 GroupKeys(request.sql, z),
                                 Contributed(request.sql, z)).out = Query(request)
<1> DEFINE select == request.sql
           D == Answering(request)
           p == RowsJoined(request, m)
           w == Occurring(request, m)
           key == GroupKeys(select, z)
           agg == Contributed(select, z)
           next == ApplyAggregate(NoGroups, z, Arrange(z, <<>>), key, agg)
           all == {Asked(select, Joined(c, m)) : c \in D}
           P(g) == {row \in DOMAIN z \cup {p[c] : c \in D} :
                        GroupKey(select.group_by, row) = g}
           v == [row \in DOMAIN z \cup {p[c] : c \in D} |->
                    Contribution(Aggregates(select), row)]
<1>1. /\ IsZSet(z) /\ IsFiniteSet(D) /\ \A c \in D : w[c] \in Int
    BY DEF Lists
<1>2. \A c \in D : /\ c \in Combinations(request, m)
                   /\ p[c] = Joined(c, m) /\ w[c] = Occurrences(request, c, m)
    BY DEF Answering, RowsJoined, Occurring
<1>3. /\ Query(request) =
            {OutputRow(g, QueryTotal(request, g)) :
                g \in {asked \in all : QueryTotal(request, asked) # 0}}
      /\ \A row : /\ Asked(select, row) = GroupKey(select.group_by, row)
                  /\ ValueOfRow(select, row) = Contribution(Aggregates(select), row)
  <2>1. Query(request) =
            {OutputRow(g, QueryTotal(request, g)) :
                g \in {asked \in all : QueryTotal(request, asked) # 0}}
    BY DEF Query
  <2>2. \A row : /\ Asked(select, row) = GroupKey(select.group_by, row)
                 /\ ValueOfRow(select, row) = Contribution(Aggregates(select), row)
    BY DEF Asked, ValueOfRow
  <2> HIDE DEF all, select
  <2> QED
    BY <2>1, <2>2
<1>4. \A row : Contribution(Aggregates(select), row) \in Int
    BY GetIntType DEF Contribution
<1>5. \A row \in DOMAIN z : agg[row] \in Int
    BY <1>4 DEF Contributed
<1>6. /\ IsZSet(next.out)
      /\ \A g : Weight(next.result, g) =
                    Weight(NoGroups, g)
                        + SumOver(Weighted(agg, z), Standing(key, DOMAIN z, g))
      /\ \A g, u : Weight(next.out, OutputRow(g, u)) =
                        Shown(Weight(next.result, g), u) - Shown(Weight(NoGroups, g), u)
      /\ \A row \in DOMAIN next.out : \E g, u : row = OutputRow(g, u)
  <2> HIDE DEF key, agg
  <2> QED
    BY <1>1, <1>5, NoGroupsIsGroups, ArrangesItself, AggregateIsChange
<1>7. \A g : Weight(NoGroups, g) = 0
    BY EmptyIsZSet DEF NoGroups
<1>8. ASSUME NEW g
      PROVE  SumOver(Weighted(agg, z), Standing(key, DOMAIN z, g)) = QueryTotal(request, g)
  <2>1. Standing(key, DOMAIN z, g) = Among(z, P(g))
    BY DEF Standing, GroupKeys, Among
  <2>2. \A c \in D : v[p[c]] \in Int
    BY <1>4
  <2>3. \A r \in Among(z, P(g)) : Weighted(agg, z)[r] = v[r] * z[r]
    BY DEF Among, Weighted, Contributed
  <2>4. \A c \in D : CountedOf(request, m)[c] = v[p[c]] * w[c]
    BY <1>2, <1>3 DEF CountedOf
  <2>5. {c \in D : p[c] \in P(g)} = Standing(AskedOf(request, m), D, g)
    BY <1>2, <1>3 DEF Standing, AskedOf
  <2>6. QueryTotal(request, g) =
            SumOver(CountedOf(request, m), Standing(AskedOf(request, m), D, g))
    BY <1>1, QueryTotals
  <2> HIDE DEF D, p, w, P, v, key, agg
  <2>7. SumOver(Weighted(agg, z), Among(z, P(g))) =
            SumOver(CountedOf(request, m), {c \in D : p[c] \in P(g)})
    BY <2>2, <2>3, <2>4, ListedSum DEF D, p, w
  <2> QED
    BY <2>1, <2>5, <2>6, <2>7
<1>9. \A g : Weight(next.result, g) = QueryTotal(request, g)
           /\ QueryTotal(request, g) \in Int
  <2>1. \A g : QueryTotal(request, g) \in Int
    <3>1. ASSUME NEW g PROVE QueryTotal(request, g) \in Int
      <4> DEFINE s == Standing(AskedOf(request, m), D, g)
      <4>1. s \subseteq D /\ IsFiniteSet(s)
        BY <1>1, FS_Subset DEF Standing
      <4>2. \A c \in s : CountedOf(request, m)[c] \in Int
        <5>1. ASSUME NEW c \in s PROVE CountedOf(request, m)[c] \in Int
            BY <1>1, <1>2, <1>3, <1>4, <4>1 DEF CountedOf
        <5> QED
            BY <5>1
      <4> HIDE DEF s
      <4>3. SumOver(CountedOf(request, m), s) \in Int
        BY <4>1, <4>2, SumType
      <4> QED
        BY <1>1, <4>3, QueryTotals DEF s
    <3> QED
        BY <3>1
  <2> HIDE DEF next, key, agg
  <2> QED
    BY <1>6, <1>7, <1>8, <2>1
<1> HIDE DEF next
<1>10. \A g, u : OutputRow(g, u) \in DOMAIN next.out <=>
                    QueryTotal(request, g) = u /\ u # 0
  <2>1. \A g, u : Weight(next.out, OutputRow(g, u)) = Shown(QueryTotal(request, g), u)
    BY <1>6, <1>7, <1>9 DEF Shown
  <2> QED
    BY <1>6, <2>1, WeightType DEF Shown
<1>11. \A g : QueryTotal(request, g) # 0 => g \in all
    BY <1>1, QueryTotals
<1> HIDE DEF all
<1>12. DOMAIN next.out \subseteq Query(request)
    BY <1>3, <1>6, <1>10, <1>11
<1>13. Query(request) \subseteq DOMAIN next.out
    BY <1>3, <1>10
<1> QED
    BY <1>12, <1>13 DEF next

\* A request that is planned is answered with its query.
LEMMA ExecutedIsQuery ==
    ASSUME NEW request \in Requests, Plannable(request.sql)
    PROVE  SqlExecute(request) = Query(request)
<1>1. PICK select, m : select = request.sql /\ m = Len(select.joins)
    OBVIOUS
<1> DEFINE D == Answering(request)
           p == RowsJoined(request, m)
           w == Occurring(request, m)
<1>2. PICK z : /\ Lists(z, D, p, w)
               /\ Execute(PlanSelect(select), SourcesOf(request), NoGroups, <<>>) =
                    IF HasAggregate(select)
                       THEN ApplyAggregate(NoGroups, z, Arrange(z, <<>>),
                                           GroupKeys(select, z), Contributed(select, z))
                       ELSE [result |-> NoGroups,
                             out |-> IF ColumnNames(select) = {} THEN z
                                     ELSE Map(z, Projections(select, z))]
    BY <1>1, ExecuteLists
<1>3. SqlExecute(request) =
        DOMAIN Execute(PlanSelect(select), SourcesOf(request), NoGroups, <<>>).out
    BY <1>1 DEF SqlExecute, SourcesOf
<1>4. CASE HasAggregate(select)
    BY <1>1, <1>2, <1>3, <1>4, AggregateAnswer
<1>5. CASE ~HasAggregate(select)
  <2> DEFINE out == IF ColumnNames(select) = {} THEN z ELSE Map(z, Projections(select, z))
             k == [row \in DOMAIN z \cup {p[c] : c \in D} |-> Asked(select, row)]
  <2>1. SqlExecute(request) = DOMAIN out
    BY <1>2, <1>3, <1>5
  <2>2. \A c \in D : /\ c \in Combinations(request, m)
                     /\ p[c] = Joined(c, m)
                     /\ AskedOf(request, m)[c] = Asked(select, Joined(c, m))
    BY <1>1 DEF Answering, RowsJoined, AskedOf
  <2>3. \A c \in D : AskedOf(request, m)[c] = k[p[c]]
    BY <2>2
  <2>4. Lists(out, D, AskedOf(request, m), w)
    <3>1. CASE ColumnNames(select) = {}
      <4>1. \A row : Asked(select, row) = row
        BY <1>5, <3>1 DEF Asked
      <4>2. \A c \in D : AskedOf(request, m)[c] = p[c]
        BY <2>2, <4>1
      <4>3. \A row : Standing(AskedOf(request, m), D, row) = Standing(p, D, row)
        BY <4>2 DEF Standing
      <4> QED
        BY <1>2, <3>1, <4>3 DEF Lists
    <3>2. CASE ColumnNames(select) # {}
      <4>1. \A row \in DOMAIN z : Projections(select, z)[row] = k[row]
        BY <1>5, <3>2 DEF Projections, Asked
      <4> HIDE DEF k, D, p, w
      <4>2. Lists(Map(z, Projections(select, z)), D, AskedOf(request, m), w)
        BY <1>2, <2>3, <4>1, ListedMap
      <4> QED
        BY <3>2, <4>2
    <3> QED
        BY <3>1, <3>2
  <2> HIDE DEF out
  <2> QED
    BY <1>1, <1>5, <2>1, <2>4, PlainAnswer
<1> QED
    BY <1>4, <1>5

\* sql_execute (crates/api/src/sql_handlers.rs) answers every request it can
\* plan with the query itself: whatever the tables, the number of joins, the
\* conditions and the weights of the rows that are sent, the scans, hash joins,
\* filter, projection and aggregate of the plan (crates/planner/src/executor.rs)
\* come to the rows the SELECT asks for on whole tables.
THEOREM AnswersAreQueries == EndpointSpec => []AnswerIsQuery
<1> DEFINE Inv == \/ response = NoResponse
                  \/ \E request \in Requests :
                        response = [request |-> request, answer |-> SqlExecute(request)]
<1>1. EndpointInit => Inv
    BY DEF EndpointInit
<1>2. Inv /\ [EndpointNext]_response => Inv'
    BY DEF EndpointNext
<1>3. Inv => AnswerIsQuery
  <2>1. ASSUME NEW request \in Requests, SqlExecute(request) # BadRequest
        PROVE  SqlExecute(request) = Query(request)
    BY <2>1, ExecutedIsQuery DEF SqlExecute
  <2> QED
    BY <2>1 DEF AnswerIsQuery
<1> QED
    BY <1>1, <1>2, <1>3, PTL DEF EndpointSpec
=============================================================================
