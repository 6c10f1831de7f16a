----------------------------- MODULE ZSetProofs -----------------------------
(***************************************************************************)
(* Lemmas about Z-sets and the incremental operators.  The operators are   *)
(* folds: what a fold computes is proved by induction on the finite set it *)
(* runs over, as the argument that a smallest counterexample would have a  *)
(* smaller one.                                                            *)
(***************************************************************************)
EXTENDS Operators, FiniteSetTheorems, WellFoundedInduction, TLAPS

\* Every non-empty set of naturals has a least member.
LEMMA LeastNatural ==
    ASSUME NEW S \in SUBSET Nat, S # {}
    PROVE  \E x \in S : \A y \in S : x <= y
<1> DEFINE R == {ss \in Nat \X Nat : ss[1] < ss[2]}
<1>1. OpToRel(<, Nat) = R
    BY Zenon DEF OpToRel
<1>2. IsWellFoundedOn(R, Nat)
    BY <1>1, NatLessThanWellFounded, Zenon
<1>3. PICK x \in S : \A y \in S : <<y, x>> \notin R
  <2> HIDE DEF R
  <2> QED
      BY <1>2, WFMin, Zenon
<1>4. ASSUME NEW y \in S PROVE x <= y
  <2>1. <<y, x>> \notin R /\ x \in Nat /\ y \in Nat
      BY <1>3
  <2> QED
      BY <2>1
<1> QED
    BY <1>4

\* What holds of the first, and is kept by every step, holds of all.
LEMMA Upwards ==
    ASSUME NEW n \in Nat, NEW Good, 0 \in Good,
           \A i \in 1..n : i - 1 \in Good => i \in Good
    PROVE  \A i \in 0..n : i \in Good
<1> SUFFICES ASSUME NEW b \in 0..n, b \notin Good PROVE FALSE
    OBVIOUS
<1> DEFINE Bad == {i \in 0..n : i \notin Good}
<1>1. Bad \in SUBSET Nat /\ Bad # {}
    OBVIOUS
<1>2. PICK i \in Bad : \A k \in Bad : i <= k
  <2> HIDE DEF Bad
  <2> QED
    BY <1>1, LeastNatural
<1>3. i \in 1..n /\ i - 1 \notin Bad /\ i - 1 \in 0..n
    BY <1>2
<1> QED
    BY <1>2, <1>3

\* Induction on the subsets of a finite set: Good holds them all if it holds
\* every subset whose proper subsets it holds.
LEMMA SubsetInduction ==
    ASSUME NEW D, IsFiniteSet(D), NEW Good,
           \A s \in SUBSET D : (\A t \in SUBSET s : t # s => t \in Good) => s \in Good
    PROVE  \A s \in SUBSET D : s \in Good
<1> SUFFICES ASSUME NEW b \in SUBSET D, b \notin Good PROVE FALSE
    OBVIOUS
<1> DEFINE Bad == {s \in SUBSET D : s \notin Good}
           Sizes == {n \in Nat : \E s \in Bad : Cardinality(s) = n}
<1>1. \A s \in SUBSET D : IsFiniteSet(s) /\ Cardinality(s) \in Nat
    BY FS_Subset, FS_CardinalityType
<1>2. Sizes \in SUBSET Nat /\ Sizes # {}
    BY <1>1
<1>3. PICK n \in Sizes : \A k \in Sizes : n <= k
    BY <1>2, LeastNatural
<1>4. PICK s \in Bad : Cardinality(s) = n
    OBVIOUS
<1>5. ASSUME NEW t \in SUBSET s, t # s PROVE t \in Good
  <2>0. /\ IsFiniteSet(s) /\ t \in SUBSET D
        /\ Cardinality(s) \in Nat /\ Cardinality(t) \in Nat
    BY <1>1
  <2>1. Cardinality(t) <= n /\ Cardinality(t) # n
    <3>1. /\ Cardinality(t) <= Cardinality(s)
          /\ Cardinality(s) = Cardinality(t) => s = t
        BY <2>0, FS_Subset
    <3> QED
        BY <1>4, <1>5, <3>1
  <2>2. Cardinality(t) \notin Sizes
    BY <1>3, <2>1
  <2> QED
    BY <2>0, <2>1, <2>2
<1>6. s \in SUBSET D /\ s \notin Good
    BY <1>4
<1> HIDE DEF Bad, Sizes
<1>7. \A t \in SUBSET s : t # s => t \in Good
    BY <1>5
<1> QED
    BY <1>6, <1>7

-----------------------------------------------------------------------------
(***************************************************************************)
(* Sums.  SumOver is a fold: it follows its defining equation because      *)
(* there is a function that does, built from the bottom up.                *)
(***************************************************************************)
One(s) == CHOOSE x \in s : TRUE

LEMMA OneIsMember == \A s : s # {} => One(s) \in s /\ s \ {One(s)} \in SUBSET s
    BY DEF One

\* g holds, for every subset of D, the sum of f over it.
Sums(f, D, g) ==
    g = [s \in SUBSET D |-> IF s = {} THEN 0 ELSE f[One(s)] + g[s \ {One(s)}]]

LEMMA SumsAgree ==
    ASSUME NEW f, NEW D, IsFiniteSet(D), NEW E \in SUBSET D,
           NEW g, Sums(f, D, g), NEW h, Sums(f, E, h)
    PROVE  \A s \in SUBSET E : g[s] = h[s]
<1> DEFINE Good == {s \in SUBSET E : g[s] = h[s]}
<1>0. IsFiniteSet(E)
    BY FS_Subset
<1>1. ASSUME NEW s \in SUBSET E, \A t \in SUBSET s : t # s => t \in Good
      PROVE  s \in Good
  <2>1. CASE s = {}
    BY <2>1 DEF Sums
  <2>2. CASE s # {}
    <3> DEFINE t == s \ {One(s)}
    <3>1. t \in SUBSET s /\ t # s
        BY <2>2, OneIsMember
    <3>2. g[t] = h[t]
        BY <1>1, <3>1
    <3>3. g[s] = f[One(s)] + g[t] /\ h[s] = f[One(s)] + h[t]
        BY <2>2 DEF Sums
    <3> QED
        BY <3>2, <3>3
  <2> QED
    BY <2>1, <2>2
<1>2. \A s \in SUBSET E : s \in Good
  <2> HIDE DEF Good
  <2> QED
    BY <1>0, <1>1, SubsetInduction
<1> QED
    BY <1>2

LEMMA SumsExist ==
    ASSUME NEW f, NEW D, IsFiniteSet(D)
    PROVE  \E g : Sums(f, D, g)
<1> DEFINE Good == {s \in SUBSET D : \E g : Sums(f, s, g)}
           G(s) == CHOOSE g : Sums(f, s, g)
<1>1. ASSUME NEW s \in SUBSET D, \A t \in SUBSET s : t # s => t \in Good
      PROVE  s \in Good
  <2>1. \A t \in SUBSET s : t # s => Sums(f, t, G(t)) /\ IsFiniteSet(t)
    BY <1>1, FS_Subset
  <2> DEFINE c == One(s)
             H == [t \in SUBSET s |->
                    IF t # s THEN G(t)[t]
                    ELSE IF s = {} THEN 0 ELSE f[c] + G(s \ {c})[s \ {c}]]
  <2>2. ASSUME NEW t \in SUBSET s
        PROVE  H[t] = IF t = {} THEN 0 ELSE f[One(t)] + H[t \ {One(t)}]
    <3>1. CASE t = s
      <4>1. s # {} => s \ {c} \in SUBSET s /\ s \ {c} # s
        BY OneIsMember
      <4> QED
        BY <3>1, <4>1
    <3>2. CASE t # s /\ t = {}
      <4>1. Sums(f, t, G(t)) /\ H[t] = G(t)[t]
        BY <2>1, <3>2
      <4> HIDE DEF G, H
      <4> QED
        BY <3>2, <4>1 DEF Sums
    <3>3. CASE t # s /\ t # {}
      <4> DEFINE u == t \ {One(t)}
      <4>1. u \in SUBSET t /\ u # t /\ u # s /\ u \in SUBSET s
        BY <3>3, OneIsMember
      <4>2. /\ Sums(f, t, G(t)) /\ Sums(f, u, G(u)) /\ IsFiniteSet(t)
            /\ H[t] = G(t)[t] /\ H[u] = G(u)[u]
        BY <2>1, <3>3, <4>1
      <4> HIDE DEF G, H, u
      <4>3. G(t)[u] = G(u)[u]
        BY <4>1, <4>2, SumsAgree
      <4>4. G(t)[t] = f[One(t)] + G(t)[u]
        BY <3>3, <4>2 DEF Sums, u
      <4> QED
        BY <3>3, <4>2, <4>3, <4>4 DEF u
    <3> QED
        BY <3>1, <3>2, <3>3
  <2>3. Sums(f, s, H)
    <3> HIDE DEF G, c
    <3>1. \A t \in SUBSET s :
            H[t] = IF t = {} THEN 0 ELSE f[One(t)] + H[t \ {One(t)}]
        BY <2>2
    <3>2. H = [t \in SUBSET s |-> H[t]]
        OBVIOUS
    <3> HIDE DEF H
    <3> QED
        BY <3>1, <3>2 DEF Sums
  <2> QED
    BY <2>3
<1>2. \A s \in SUBSET D : s \in Good
  <2> HIDE DEF Good
  <2> QED
    BY <1>1, SubsetInduction
<1> QED
    BY <1>2

LEMMA SumIsSum ==
    ASSUME NEW f, NEW S, IsFiniteSet(S)
    PROVE  \E g : Sums(f, S, g) /\ SumOver(f, S) = g[S]
<1> DEFINE g == CHOOSE g : Sums(f, S, g)
<1>1. Sums(f, S, g)
    BY SumsExist
<1>2. SumOver(f, S) = g[S]
    BY DEF SumOver, MapThenSumSet, MapThenFoldSet, Sums, One
<1> QED
    BY <1>1, <1>2

LEMMA SumEquation ==
    ASSUME NEW f, NEW S, IsFiniteSet(S)
    PROVE  SumOver(f, S) =
            IF S = {} THEN 0 ELSE f[One(S)] + SumOver(f, S \ {One(S)})
<1> PICK g : Sums(f, S, g) /\ SumOver(f, S) = g[S]
    BY SumIsSum
<1> DEFINE t == S \ {One(S)}
<1>1. IsFiniteSet(t) /\ t \in SUBSET S
    BY FS_RemoveElement
<1> PICK h : Sums(f, t, h) /\ SumOver(f, t) = h[t]
    BY <1>1, SumIsSum
<1>2. g[t] = h[t]
    BY <1>1, SumsAgree
<1>3. g[S] = IF S = {} THEN 0 ELSE f[One(S)] + g[t]
    BY DEF Sums
<1> QED
    BY <1>2, <1>3

LEMMA SumEmpty == \A f : SumOver(f, {}) = 0
    BY SumEquation, FS_EmptySet

LEMMA SumType ==
    ASSUME NEW S, IsFiniteSet(S), NEW f, \A x \in S : f[x] \in Int
    PROVE  SumOver(f, S) \in Int
<1> DEFINE Good == {s \in SUBSET S : SumOver(f, s) \in Int}
<1>1. ASSUME NEW s \in SUBSET S, \A t \in SUBSET s : t # s => t \in Good
      PROVE  s \in Good
  <2>1. IsFiniteSet(s)
    BY FS_Subset
  <2>2. s # {} => s \ {One(s)} \in Good /\ f[One(s)] \in Int
    BY <1>1, OneIsMember
  <2> QED
    BY <2>1, <2>2, SumEquation
<1>2. \A s \in SUBSET S : s \in Good
  <2> HIDE DEF Good
  <2> QED
    BY <1>1, SubsetInduction
<1> QED
    BY <1>2

\* Any member can be taken out first.
LEMMA SumTakes ==
    ASSUME NEW S, IsFiniteSet(S), NEW f, \A x \in S : f[x] \in Int, NEW x \in S
    PROVE  SumOver(f, S) = f[x] + SumOver(f, S \ {x})
<1> DEFINE Good == {s \in SUBSET S :
                        \A y \in s : SumOver(f, s) = f[y] + SumOver(f, s \ {y})}
<1>1. ASSUME NEW s \in SUBSET S, \A t \in SUBSET s : t # s => t \in Good
      PROVE  s \in Good
  <2> SUFFICES ASSUME NEW y \in s
               PROVE  SumOver(f, s) = f[y] + SumOver(f, s \ {y})
    OBVIOUS
  <2> DEFINE c == One(s)
             both == (s \ {c}) \ {y}
  <2>1. c \in s /\ f[c] \in Int /\ f[y] \in Int
    BY OneIsMember
  <2>2. \A t \in SUBSET s : IsFiniteSet(t) /\ SumOver(f, t) \in Int
    BY FS_Subset, SumType
  <2>3. SumOver(f, s) = f[c] + SumOver(f, s \ {c})
    BY <2>2, SumEquation
  <2>4. CASE c = y
    BY <2>3, <2>4
  <2>5. CASE c # y
    <3>1. y \in s \ {c} /\ c \in s \ {y} /\ both = (s \ {y}) \ {c}
        BY <2>1, <2>5
    <3>2. s \ {c} \in Good /\ s \ {y} \in Good
        BY <1>1, <2>1
    <3>3. SumOver(f, s \ {c}) = f[y] + SumOver(f, both)
        BY <3>1, <3>2
    <3>4. SumOver(f, s \ {y}) = f[c] + SumOver(f, both)
        BY <3>1, <3>2
    <3>5. SumOver(f, both) \in Int
        BY <2>2
    <3> QED
        BY <2>1, <2>3, <3>3, <3>4, <3>5
  <2> QED
    BY <2>4, <2>5
<1>2. \A s \in SUBSET S : s \in Good
  <2> HIDE DEF Good
  <2> QED
    BY <1>1, SubsetInduction
<1> QED
    BY <1>2

LEMMA SumOfOne ==
    ASSUME NEW f, NEW x, f[x] \in Int
    PROVE  SumOver(f, {x}) = f[x]
<1>1. IsFiniteSet({x}) /\ (\A y \in {x} : f[y] \in Int) /\ x \in {x} /\ {x} \ {x} = {}
    BY FS_Singleton
<1>2. SumOver(f, {x}) = f[x] + SumOver(f, {x} \ {x})
    BY <1>1, SumTakes
<1> QED
    BY <1>1, <1>2, SumEmpty

LEMMA SumSame ==
    ASSUME NEW S, IsFiniteSet(S), NEW f, NEW g, \A x \in S : f[x] = g[x]
    PROVE  SumOver(f, S) = SumOver(g, S)
<1> DEFINE Good == {s \in SUBSET S : SumOver(f, s) = SumOver(g, s)}
<1>1. ASSUME NEW s \in SUBSET S, \A t \in SUBSET s : t # s => t \in Good
      PROVE  s \in Good
  <2>1. IsFiniteSet(s)
    BY FS_Subset
  <2>2. s # {} => s \ {One(s)} \in Good /\ f[One(s)] = g[One(s)]
    BY <1>1, OneIsMember
  <2> QED
    BY <2>1, <2>2, SumEquation
<1>2. \A s \in SUBSET S : s \in Good
  <2> HIDE DEF Good
  <2> QED
    BY <1>1, SubsetInduction
<1> QED
    BY <1>2

\* The sum of a pointwise sum.
LEMMA SumAdds ==
    ASSUME NEW S, IsFiniteSet(S), NEW f, NEW g, NEW h,
           \A x \in S : f[x] \in Int /\ g[x] \in Int /\ h[x] = f[x] + g[x]
    PROVE  SumOver(h, S) = SumOver(f, S) + SumOver(g, S)
<1> DEFINE Good == {s \in SUBSET S :
                        SumOver(h, s) = SumOver(f, s) + SumOver(g, s)}
<1>1. ASSUME NEW s \in SUBSET S, \A t \in SUBSET s : t # s => t \in Good
      PROVE  s \in Good
  <2>1. IsFiniteSet(s)
    BY FS_Subset
  <2>2. CASE s = {}
    BY <2>2, SumEmpty
  <2>3. CASE s # {}
    <3> DEFINE t == s \ {One(s)}
    <3>1. t \in Good /\ One(s) \in S
        BY <1>1, <2>3, OneIsMember
    <3>2. /\ SumOver(h, s) = h[One(s)] + SumOver(h, t)
          /\ SumOver(f, s) = f[One(s)] + SumOver(f, t)
          /\ SumOver(g, s) = g[One(s)] + SumOver(g, t)
        BY <2>1, <2>3, SumEquation
    <3>3. /\ SumOver(f, t) \in Int /\ SumOver(g, t) \in Int
          /\ f[One(s)] \in Int /\ g[One(s)] \in Int
          /\ h[One(s)] = f[One(s)] + g[One(s)]
          /\ SumOver(h, t) = SumOver(f, t) + SumOver(g, t)
      <4>1. IsFiniteSet(t)
        BY FS_Subset
      <4> QED
        BY <3>1, <4>1, SumType
    <3> QED
        BY <3>2, <3>3
  <2> QED
    BY <2>2, <2>3
<1>2. \A s \in SUBSET S : s \in Good
  <2> HIDE DEF Good
  <2> QED
    BY <1>1, SubsetInduction
<1> QED
    BY <1>2

\* Members that contribute nothing can be left out.
LEMMA SumOverSupport ==
    ASSUME NEW S, IsFiniteSet(S), NEW f, \A x \in S : f[x] \in Int,
           NEW T \in SUBSET S, \A x \in S \ T : f[x] = 0
    PROVE  SumOver(f, S) = SumOver(f, T)
<1> DEFINE Good == {s \in SUBSET S : SumOver(f, s) = SumOver(f, s \cap T)}
<1>1. ASSUME NEW s \in SUBSET S, \A t \in SUBSET s : t # s => t \in Good
      PROVE  s \in Good
  <2>1. IsFiniteSet(s) /\ IsFiniteSet(s \cap T)
    BY FS_Subset
  <2>2. CASE s = {}
    BY <2>2
  <2>3. CASE s # {}
    <3> DEFINE x == One(s)
               t == s \ {x}
    <3>1. t \in Good /\ x \in s /\ f[x] \in Int
        BY <1>1, <2>3, OneIsMember
    <3>2. SumOver(f, s) = f[x] + SumOver(f, t)
        BY <2>1, <2>3, SumEquation
    <3>3. SumOver(f, t) = SumOver(f, t \cap T)
        BY <3>1
    <3>4. CASE x \in T
      <4>1. x \in s \cap T /\ (s \cap T) \ {x} = t \cap T
        BY <3>1, <3>4
      <4>2. SumOver(f, s \cap T) = f[x] + SumOver(f, (s \cap T) \ {x})
        BY <2>1, <4>1, SumTakes
      <4> QED
        BY <3>2, <3>3, <4>1, <4>2
    <3>5. CASE x \notin T
      <4>1. s \cap T = t \cap T /\ f[x] = 0
        BY <3>1, <3>5
      <4>2. SumOver(f, t \cap T) \in Int
        BY <2>1, <4>1, SumType
      <4>3. SumOver(f, s) = 0 + SumOver(f, t \cap T)
        BY <3>2, <3>3, <4>1
      <4>4. SumOver(f, s) = SumOver(f, s \cap T)
        <5> HIDE DEF t, x
        <5>1. SumOver(f, s \cap T) = SumOver(f, t \cap T)
            BY <4>1, Zenon
        <5> QED
            BY <4>2, <4>3, <5>1
      <4> QED
        BY <4>4
    <3> QED
        BY <3>4, <3>5
  <2> QED
    BY <2>2, <2>3
<1>2. \A s \in SUBSET S : s \in Good
  <2> HIDE DEF Good
  <2> QED
    BY <1>1, SubsetInduction
<1>3. S \cap T = T
    OBVIOUS
<1> QED
    BY <1>2, <1>3

-----------------------------------------------------------------------------
(***************************************************************************)
(* Z-sets: functions from finitely many rows to weights other than 0.  Two *)
(* Z-sets with the same weights are the same.                              *)
(***************************************************************************)
IsZSet(z) ==
    /\ z = [r \in DOMAIN z |-> z[r]]
    /\ IsFiniteSet(DOMAIN z)
    /\ Canonical(z)

LEMMA EmptyIsZSet == IsZSet(Empty) /\ DOMAIN Empty = {} /\ \A r : Weight(Empty, r) = 0
    BY FS_EmptySet DEF IsZSet, Empty, Canonical, Weight

LEMMA WeightType ==
    ASSUME NEW z, IsZSet(z)
    PROVE  \A r : Weight(z, r) \in Int /\ (Weight(z, r) # 0 <=> r \in DOMAIN z)
    BY DEF IsZSet, Canonical, Weight

LEMMA SameWeights ==
    ASSUME NEW y, IsZSet(y), NEW z, IsZSet(z), \A r : Weight(y, r) = Weight(z, r)
    PROVE  y = z
<1>1. DOMAIN y = DOMAIN z
    BY WeightType
<1>2. \A r \in DOMAIN y : y[r] = z[r]
    BY <1>1 DEF Weight
<1> QED
    BY <1>1, <1>2 DEF IsZSet

\* Insert adds its weight to one row.
LEMMA InsertAdds ==
    ASSUME NEW z, IsZSet(z), NEW row, NEW w \in Int
    PROVE  /\ IsZSet(Insert(z, row, w))
           /\ \A r : Weight(Insert(z, row, w), r) =
                        Weight(z, r) + (IF r = row THEN w ELSE 0)
           /\ DOMAIN Insert(z, row, w) \subseteq DOMAIN z \cup {row}
<1> DEFINE y == Insert(z, row, w)
           v == Weight(z, row) + w
<1>1. /\ \A r : Weight(z, r) \in Int
      /\ IsFiniteSet(DOMAIN z) /\ IsFiniteSet(DOMAIN z \ {row})
      /\ IsFiniteSet(DOMAIN z \cup {row})
    BY WeightType, FS_RemoveElement, FS_AddElement DEF IsZSet
<1>2. CASE v = 0
  <2>1. y = [r \in DOMAIN z \ {row} |-> z[r]]
    BY <1>2 DEF Insert
  <2>2. DOMAIN y = DOMAIN z \ {row} /\ \A r \in DOMAIN y : y[r] = z[r]
    BY <2>1
  <2>3. \A r : Weight(y, r) = Weight(z, r) + (IF r = row THEN w ELSE 0)
    <3> HIDE DEF y
    <3> QED
        BY <1>1, <1>2, <2>2 DEF Weight
  <2>4. IsZSet(y)
    <3>1. Canonical(y)
        BY <2>2 DEF IsZSet, Canonical
    <3> QED
        BY <1>1, <2>1, <2>2, <3>1 DEF IsZSet
  <2> QED
    BY <2>2, <2>3, <2>4
<1>3. CASE v # 0
  <2>1. y = [r \in DOMAIN z \cup {row} |-> IF r = row THEN v ELSE z[r]]
    BY <1>3 DEF Insert
  <2>2. /\ DOMAIN y = DOMAIN z \cup {row}
        /\ \A r \in DOMAIN y : y[r] = IF r = row THEN v ELSE z[r]
    BY <2>1
  <2>3. \A r : Weight(y, r) = Weight(z, r) + (IF r = row THEN w ELSE 0)
    <3> HIDE DEF y
    <3> QED
        BY <1>1, <2>2 DEF Weight
  <2>4. IsZSet(y)
    <3>1. Canonical(y)
        BY <1>1, <1>3, <2>2 DEF IsZSet, Canonical
    <3> QED
        BY <1>1, <2>1, <2>2, <3>1 DEF IsZSet
  <2> QED
    BY <2>2, <2>3, <2>4
<1> QED
    BY <1>2, <1>3

(***************************************************************************)
(* Z-sets are built by inserting, for every x of a finite set, the weight  *)
(* w[x] for the row k[x].  The weight of a row is then the sum over the x  *)
(* that stand for it.                                                      *)
(***************************************************************************)
Inserts(base, k, w, S, F) ==
    F = [s \in SUBSET S |->
            IF s = {} THEN base
            ELSE Insert(F[s \ {One(s)}], k[One(s)], w[One(s)])]

Standing(k, s, row) == {x \in s : k[x] = row}

Inserted(base, k, w, s, z) ==
    /\ IsZSet(z)
    /\ \A row : Weight(z, row) = Weight(base, row) + SumOver(w, Standing(k, s, row))
    /\ DOMAIN z \subseteq DOMAIN base \cup {k[x] : x \in s}

LEMMA InsertedNothing ==
    ASSUME NEW base, IsZSet(base), NEW k, NEW w
    PROVE  Inserted(base, k, w, {}, base)
<1>1. \A row : Standing(k, {}, row) = {}
    BY DEF Standing
<1>2. \A row : SumOver(w, Standing(k, {}, row)) = 0
    BY <1>1, SumEmpty
<1> QED
    BY <1>2, WeightType DEF Inserted

LEMMA InsertedOneMore ==
    ASSUME NEW base, NEW k, NEW S, IsFiniteSet(S), NEW w, \A x \in S : w[x] \in Int,
           NEW x \in S, NEW z, Inserted(base, k, w, S \ {x}, z), IsZSet(base)
    PROVE  Inserted(base, k, w, S, Insert(z, k[x], w[x]))
<1> DEFINE y == Insert(z, k[x], w[x])
           t == S \ {x}
<1>1. /\ IsZSet(y)
      /\ \A r : Weight(y, r) = Weight(z, r) + (IF r = k[x] THEN w[x] ELSE 0)
      /\ DOMAIN y \subseteq DOMAIN z \cup {k[x]}
    BY InsertAdds DEF Inserted
<1>2. ASSUME NEW row
      PROVE  Weight(y, row) = Weight(base, row) + SumOver(w, Standing(k, S, row))
  <2>1. /\ Weight(z, row) = Weight(base, row) + SumOver(w, Standing(k, t, row))
        /\ Weight(y, row) = Weight(z, row) + (IF row = k[x] THEN w[x] ELSE 0)
    BY <1>1 DEF Inserted
  <2>2. IsFiniteSet(Standing(k, S, row)) /\ IsFiniteSet(Standing(k, t, row))
    BY FS_Subset DEF Standing
  <2>3. SumOver(w, Standing(k, t, row)) \in Int /\ Weight(base, row) \in Int
    <3>1. \A e \in Standing(k, t, row) : w[e] \in Int
        BY DEF Standing
    <3> QED
        BY <2>2, <3>1, SumType, WeightType
  <2>4. CASE row = k[x]
    <3>1. /\ x \in Standing(k, S, row)
          /\ Standing(k, t, row) = Standing(k, S, row) \ {x}
        BY <2>4 DEF Standing
    <3>2. \A e \in Standing(k, S, row) : w[e] \in Int
        BY DEF Standing
    <3>3. SumOver(w, Standing(k, S, row)) = w[x] + SumOver(w, Standing(k, S, row) \ {x})
        BY <2>2, <3>1, <3>2, SumTakes
    <3>4. SumOver(w, Standing(k, S, row)) = w[x] + SumOver(w, Standing(k, t, row))
        BY <3>1, <3>3
    <3> QED
        BY <2>1, <2>3, <2>4, <3>4
  <2>5. CASE row # k[x]
    <3>1. Standing(k, S, row) = Standing(k, t, row)
        BY <2>5 DEF Standing
    <3>2. Weight(y, row) = Weight(base, row) + SumOver(w, Standing(k, t, row))
        BY <2>1, <2>3, <2>5
    <3> QED
        BY <3>1, <3>2
  <2> QED
    BY <2>4, <2>5
<1>3. DOMAIN y \subseteq DOMAIN base \cup {k[e] : e \in S}
    BY <1>1 DEF Inserted
<1> HIDE DEF y
<1> QED
    BY <1>1, <1>2, <1>3 DEF Inserted, y

\* Whatever follows the equation builds that Z-set.
LEMMA InsertsBuild ==
    ASSUME NEW base, IsZSet(base), NEW k, NEW S, IsFiniteSet(S),
           NEW w, \A x \in S : w[x] \in Int,
           NEW F, Inserts(base, k, w, S, F)
    PROVE  Inserted(base, k, w, S, F[S])
<1> DEFINE Good == {s \in SUBSET S : Inserted(base, k, w, s, F[s])}
<1>1. ASSUME NEW s \in SUBSET S, \A t \in SUBSET s : t # s => t \in Good
      PROVE  s \in Good
  <2>1. IsFiniteSet(s)
    BY FS_Subset
  <2>2. CASE s = {}
    BY <2>2, InsertedNothing DEF Inserts
  <2>3. CASE s # {}
    <3> DEFINE t == s \ {One(s)}
    <3>1. t \in Good /\ One(s) \in s
        BY <1>1, <2>3, OneIsMember
    <3>2. F[s] = Insert(F[t], k[One(s)], w[One(s)])
        BY <2>3 DEF Inserts
    <3>3. Inserted(base, k, w, t, F[t])
        BY <3>1
    <3> HIDE DEF Good
    <3>4. Inserted(base, k, w, s, Insert(F[t], k[One(s)], w[One(s)]))
        BY <2>1, <3>1, <3>3, InsertedOneMore
    <3> QED
        BY <3>2, <3>4 DEF Good
  <2> QED
    BY <2>2, <2>3
<1>2. \A s \in SUBSET S : s \in Good
  <2> HIDE DEF Good
  <2> QED
    BY <1>1, SubsetInduction
<1> QED
    BY <1>2

\* There is a function that follows the equation: the one that holds, for
\* every set, the Z-set with the weights it must have.
LEMMA InsertedExists ==
    ASSUME NEW base, IsZSet(base), NEW k, NEW S, IsFiniteSet(S),
           NEW w, \A x \in S : w[x] \in Int
    PROVE  \E z : Inserted(base, k, w, S, z)
<1> DEFINE Good == {s \in SUBSET S : \E z : Inserted(base, k, w, s, z)}
<1>1. ASSUME NEW s \in SUBSET S, \A t \in SUBSET s : t # s => t \in Good
      PROVE  s \in Good
  <2>1. IsFiniteSet(s)
    BY FS_Subset
  <2>2. CASE s = {}
    BY <2>2, InsertedNothing
  <2>3. CASE s # {}
    <3>1. s \ {One(s)} \in Good /\ One(s) \in s
        BY <1>1, <2>3, OneIsMember
    <3>2. PICK z : Inserted(base, k, w, s \ {One(s)}, z)
        BY <3>1
    <3> HIDE DEF Good
    <3>3. Inserted(base, k, w, s, Insert(z, k[One(s)], w[One(s)]))
        BY <2>1, <3>1, <3>2, InsertedOneMore
    <3> QED
        BY <3>3 DEF Good
  <2> QED
    BY <2>2, <2>3
<1>2. \A s \in SUBSET S : s \in Good
  <2> HIDE DEF Good
  <2> QED
    BY <1>1, SubsetInduction
<1> QED
    BY <1>2

LEMMA InsertedIsOne ==
    ASSUME NEW base, NEW k, NEW w, NEW s, NEW y, NEW z,
           Inserted(base, k, w, s, y), Inserted(base, k, w, s, z)
    PROVE  y = z
<1>1. \A r : Weight(y, r) = Weight(z, r)
    BY DEF Inserted
<1> QED
    BY <1>1, SameWeights DEF Inserted

LEMMA InsertsExist ==
    ASSUME NEW base, IsZSet(base), NEW k, NEW S, IsFiniteSet(S),
           NEW w, \A x \in S : w[x] \in Int
    PROVE  \E F : Inserts(base, k, w, S, F)
<1> DEFINE F == [s \in SUBSET S |-> CHOOSE z : Inserted(base, k, w, s, z)]
<1>1. ASSUME NEW s \in SUBSET S
      PROVE  /\ Inserted(base, k, w, s, F[s])
             /\ IsFiniteSet(s)
  <2>1. IsFiniteSet(s)
    BY FS_Subset
  <2>2. \E z : Inserted(base, k, w, s, z)
    BY <2>1, InsertedExists
  <2> QED
    BY <2>1, <2>2
<1>2. ASSUME NEW s \in SUBSET S
      PROVE  F[s] = IF s = {} THEN base
                    ELSE Insert(F[s \ {One(s)}], k[One(s)], w[One(s)])
  <2>1. Inserted(base, k, w, s, F[s]) /\ IsFiniteSet(s)
    BY <1>1
  <2>2. CASE s = {}
    <3>1. Inserted(base, k, w, s, base)
        BY <2>2, InsertedNothing
    <3> HIDE DEF F
    <3> QED
        BY <2>1, <2>2, <3>1, InsertedIsOne
  <2>3. CASE s # {}
    <3> DEFINE t == s \ {One(s)}
    <3>1. One(s) \in s /\ t \in SUBSET S
        BY <2>3, OneIsMember
    <3>2. Inserted(base, k, w, t, F[t])
        BY <1>1, <3>1
    <3> HIDE DEF F
    <3>3. Inserted(base, k, w, s, Insert(F[t], k[One(s)], w[One(s)]))
        BY <2>1, <3>1, <3>2, InsertedOneMore
    <3> QED
        BY <2>1, <2>3, <3>3, InsertedIsOne
  <2> QED
    BY <2>2, <2>3
<1>3. F = [s \in SUBSET S |-> F[s]]
    OBVIOUS
<1> HIDE DEF F
<1> QED
    BY <1>2, <1>3 DEF Inserts

-----------------------------------------------------------------------------
(***************************************************************************)
(* The folds of the model are built by inserting.                          *)
(***************************************************************************)

\* merge adds weights.
THEOREM MergeAdds ==
    ASSUME NEW z, IsZSet(z), NEW other, IsZSet(other)
    PROVE  /\ IsZSet(Merge(z, other))
           /\ \A r : Weight(Merge(z, other), r) = Weight(z, r) + Weight(other, r)
           /\ DOMAIN Merge(z, other) \subseteq DOMAIN z \cup DOMAIN other
<1> DEFINE D == DOMAIN other
           k == [x \in D |-> x]
           Eq(F) == F = [s \in SUBSET D |->
                            IF s = {} THEN z
                            ELSE Insert(F[s \ {One(s)}], One(s), other[One(s)])]
           G == CHOOSE F : Eq(F)
<1>1. IsFiniteSet(D) /\ \A x \in D : other[x] \in Int
    BY DEF IsZSet, Canonical
<1>2. ASSUME NEW F PROVE Inserts(z, k, other, D, F) <=> Eq(F)
  <2>1. \A s \in SUBSET D : s # {} => k[One(s)] = One(s)
    BY OneIsMember
  <2> QED
    BY <2>1 DEF Inserts
<1>3. Inserts(z, k, other, D, G)
  <2>1. PICK F : Inserts(z, k, other, D, F)
    <3> HIDE DEF k
    <3> QED
        BY <1>1, InsertsExist
  <2>2. Eq(G)
    BY <1>2, <2>1
  <2> QED
    BY <1>2, <2>2
<1>4. Merge(z, other) = G[D]
    BY DEF Merge, FoldSet, MapThenFoldSet, One
<1>5. Inserted(z, k, other, D, G[D])
  <2> HIDE DEF k, G
  <2> QED
    BY <1>1, <1>3, InsertsBuild
<1>6. ASSUME NEW r PROVE SumOver(other, Standing(k, D, r)) = Weight(other, r)
  <2>1. CASE r \in D
    <3>1. Standing(k, D, r) = {r}
        BY <2>1 DEF Standing
    <3>2. SumOver(other, {r}) = other[r]
        BY <1>1, <2>1, SumOfOne
    <3> QED
        BY <1>1, <2>1, <3>1, <3>2 DEF Weight
  <2>2. CASE r \notin D
    <3>1. Standing(k, D, r) = {}
        BY <2>2 DEF Standing
    <3> QED
        BY <2>2, <3>1, SumEmpty DEF Weight
  <2> QED
    BY <2>1, <2>2
<1>7. DOMAIN G[D] \subseteq DOMAIN z \cup D
    BY <1>5 DEF Inserted
<1> HIDE DEF k, G, D
<1>8. \A r : Weight(G[D], r) = Weight(z, r) + Weight(other, r)
    BY <1>5, <1>6 DEF Inserted
<1>9. IsZSet(G[D])
    BY <1>5 DEF Inserted
<1> QED
    BY <1>4, <1>7, <1>8, <1>9 DEF D

\* map adds the weights of rows that become equal.
LEMMA MapAdds ==
    ASSUME NEW z, IsZSet(z), NEW f
    PROVE  /\ IsZSet(Map(z, f))
           /\ \A r : Weight(Map(z, f), r) = SumOver(z, Standing(f, DOMAIN z, r))
<1> DEFINE D == DOMAIN z
           Eq(F) == F = [s \in SUBSET D |->
                            IF s = {} THEN Empty
                            ELSE Insert(F[s \ {One(s)}], f[One(s)], z[One(s)])]
           G == CHOOSE F : Eq(F)
<1>1. IsFiniteSet(D) /\ \A x \in D : z[x] \in Int
    BY DEF IsZSet, Canonical
<1>2. Inserts(Empty, f, z, D, G)
  <2>1. PICK F : Inserts(Empty, f, z, D, F)
    BY <1>1, InsertsExist, EmptyIsZSet
  <2> QED
    BY <2>1 DEF Inserts
<1>3. Map(z, f) = G[D]
    BY DEF Map, FoldSet, MapThenFoldSet, One
<1>4. Inserted(Empty, f, z, D, G[D])
  <2> HIDE DEF G
  <2> QED
    BY <1>1, <1>2, InsertsBuild, EmptyIsZSet
<1> HIDE DEF G
<1>5. ASSUME NEW r
      PROVE  Weight(G[D], r) = SumOver(z, Standing(f, D, r))
  <2>1. Weight(G[D], r) = 0 + SumOver(z, Standing(f, D, r))
    BY <1>4, EmptyIsZSet DEF Inserted
  <2>2. SumOver(z, Standing(f, D, r)) \in Int
    <3>1. IsFiniteSet(Standing(f, D, r)) /\ \A x \in Standing(f, D, r) : z[x] \in Int
        BY <1>1, FS_Subset DEF Standing
    <3> QED
        BY <3>1, SumType
  <2> QED
    BY <2>1, <2>2
<1> QED
    BY <1>3, <1>4, <1>5 DEF Inserted

-----------------------------------------------------------------------------
(***************************************************************************)
(* Joins.                                                                  *)
(***************************************************************************)
Matching(left, right, leftKey, rightKey) ==
    {pair \in (DOMAIN left) \X (DOMAIN right) :
        Get(pair[1], leftKey) = Get(pair[2], rightKey)}

JoinedRows(left, right) ==
    [pair \in (DOMAIN left) \X (DOMAIN right) |-> JoinedRow(pair[1], pair[2])]

Products(left, right) ==
    [pair \in (DOMAIN left) \X (DOMAIN right) |-> left[pair[1]] * right[pair[2]]]

\* Probe finds every matching pair, with the product of the weights.
LEMMA ProbeAdds ==
    ASSUME NEW left, IsZSet(left), NEW right, IsZSet(right),
           NEW leftKey, NEW rightKey
    PROVE  LET P == Probe(left, right, leftKey, rightKey)
               M == Matching(left, right, leftKey, rightKey)
               k == JoinedRows(left, right)
           IN  /\ IsZSet(P)
               /\ \A r : Weight(P, r) =
                            SumOver(Products(left, right), Standing(k, M, r))
<1> DEFINE k == JoinedRows(left, right)
           w == Products(left, right)
           D == Matching(left, right, leftKey, rightKey)
           Eq(F) == F = [s \in SUBSET D |->
                            IF s = {} THEN Empty
                            ELSE Insert(F[s \ {One(s)}],
                                        JoinedRow(One(s)[1], One(s)[2]),
                                        left[One(s)[1]] * right[One(s)[2]])]
           G == CHOOSE F : Eq(F)
<1>1. IsFiniteSet(D)
  <2>1. IsFiniteSet((DOMAIN left) \X (DOMAIN right))
    BY FS_Product DEF IsZSet
  <2> QED
    BY <2>1, FS_Subset DEF Matching
<1>2. ASSUME NEW x \in D
      PROVE  /\ w[x] \in Int /\ w[x] = left[x[1]] * right[x[2]]
             /\ k[x] = JoinedRow(x[1], x[2])
    BY DEF IsZSet, Canonical, Matching, Products, JoinedRows
<1> HIDE DEF k, w
<1>3. ASSUME NEW F PROVE Inserts(Empty, k, w, D, F) <=> Eq(F)
  <2>1. \A s \in SUBSET D : s # {} =>
            /\ w[One(s)] = left[One(s)[1]] * right[One(s)[2]]
            /\ k[One(s)] = JoinedRow(One(s)[1], One(s)[2])
    BY <1>2, OneIsMember
  <2> HIDE DEF D
  <2> QED
    BY <2>1 DEF Inserts
<1>4. Inserts(Empty, k, w, D, G)
  <2>1. PICK F : Inserts(Empty, k, w, D, F)
    <3> HIDE DEF D
    <3> QED
        BY <1>1, <1>2, InsertsExist, EmptyIsZSet
  <2>2. Eq(G)
    BY <1>3, <2>1
  <2> QED
    BY <1>3, <2>2
<1>5. Probe(left, right, leftKey, rightKey) = G[D]
    BY DEF Probe, FoldSet, MapThenFoldSet, One, Matching
<1> HIDE DEF G, D
<1>6. Inserted(Empty, k, w, D, G[D])
    BY <1>1, <1>2, <1>4, InsertsBuild, EmptyIsZSet
<1>7. ASSUME NEW r
      PROVE  Weight(G[D], r) = SumOver(w, Standing(k, D, r))
  <2>1. Weight(G[D], r) = 0 + SumOver(w, Standing(k, D, r))
    BY <1>6, EmptyIsZSet DEF Inserted
  <2>2. SumOver(w, Standing(k, D, r)) \in Int
    <3>1. IsFiniteSet(Standing(k, D, r)) /\ \A x \in Standing(k, D, r) : w[x] \in Int
        BY <1>1, <1>2, FS_Subset DEF Standing
    <3> QED
        BY <3>1, SumType
  <2> QED
    BY <2>1, <2>2
<1> QED
    BY <1>5, <1>6, <1>7 DEF Inserted, D, k, w

(***************************************************************************)
(* The join of two whole inputs, and the sum it is over any finite sets    *)
(* of rows that contain them.                                              *)
(***************************************************************************)
Pairs(key, row, A, B) ==
    {pair \in A \X B : /\ Get(pair[1], key) = Get(pair[2], key)
                       /\ JoinedRow(pair[1], pair[2]) = row}

JoinSum(key, row, left, right) ==
    SumOver(Products(left, right), Pairs(key, row, DOMAIN left, DOMAIN right))

WeightProducts(left, right, A, B) ==
    [pair \in A \X B |-> Weight(left, pair[1]) * Weight(right, pair[2])]

LEMMA ProductTypes ==
    ASSUME NEW left, IsZSet(left), NEW right, IsZSet(right), NEW A, NEW B,
           IsFiniteSet(A), IsFiniteSet(B), NEW key, NEW row
    PROVE  /\ IsFiniteSet(Pairs(key, row, A, B))
           /\ \A pair \in A \X B : WeightProducts(left, right, A, B)[pair] \in Int
<1>1. IsFiniteSet(Pairs(key, row, A, B))
    BY FS_Product, FS_Subset DEF Pairs
<1>2. ASSUME NEW pair \in A \X B
      PROVE  WeightProducts(left, right, A, B)[pair] \in Int
  <2>1. Weight(left, pair[1]) \in Int /\ Weight(right, pair[2]) \in Int
    BY WeightType
  <2> QED
    BY <2>1 DEF WeightProducts
<1> QED
    BY <1>1, <1>2

LEMMA JoinSumWidens ==
    ASSUME NEW left, IsZSet(left), NEW right, IsZSet(right), NEW A, NEW B,
           IsFiniteSet(A), IsFiniteSet(B),
           DOMAIN left \subseteq A, DOMAIN right \subseteq B, NEW key, NEW row
    PROVE  JoinSum(key, row, left, right) =
            SumOver(WeightProducts(left, right, A, B), Pairs(key, row, A, B))
<1> DEFINE f == WeightProducts(left, right, A, B)
           S == Pairs(key, row, A, B)
           T == Pairs(key, row, DOMAIN left, DOMAIN right)
<1>1. IsFiniteSet(S) /\ \A x \in S : f[x] \in Int
  <2>1. IsFiniteSet(S) /\ \A x \in A \X B : f[x] \in Int
    BY ProductTypes
  <2> QED
    BY <2>1 DEF Pairs
<1>2. T \in SUBSET S
    BY DEF Pairs
<1>3. ASSUME NEW x \in S \ T PROVE f[x] = 0
  <2>1. /\ x \in A \X B
        /\ x[1] \notin DOMAIN left \/ x[2] \notin DOMAIN right
    BY DEF Pairs
  <2>2. Weight(left, x[1]) \in Int /\ Weight(right, x[2]) \in Int
    BY WeightType
  <2>3. Weight(left, x[1]) = 0 \/ Weight(right, x[2]) = 0
    BY <2>1 DEF Weight
  <2>4. Weight(left, x[1]) * Weight(right, x[2]) = 0
    BY <2>2, <2>3
  <2> QED
    BY <2>1, <2>4 DEF WeightProducts
<1>4. ASSUME NEW x \in T PROVE f[x] = Products(left, right)[x]
    BY DEF Pairs, WeightProducts, Products, Weight
<1>5. IsFiniteSet(T)
    BY <1>1, <1>2, FS_Subset
<1> HIDE DEF f, S, T
<1>6. SumOver(f, S) = SumOver(f, T)
    BY <1>1, <1>2, <1>3, SumOverSupport
<1>7. SumOver(f, T) = SumOver(Products(left, right), T)
    BY <1>4, <1>5, SumSame
<1> QED
    BY <1>6, <1>7 DEF JoinSum, f, S, T

LEMMA Distributes ==
    \A a, b, c, d \in Int :
        /\ (a + b) * c = a * c + b * c
        /\ a * (c + d) = a * c + a * d
        /\ a * c \in Int
    OBVIOUS

\* The join is linear in each of its inputs.
LEMMA JoinIsLinearLeft ==
    ASSUME NEW left, IsZSet(left), NEW more, IsZSet(more), NEW right, IsZSet(right),
           NEW key, NEW row
    PROVE  JoinSum(key, row, Merge(left, more), right) =
            JoinSum(key, row, left, right) + JoinSum(key, row, more, right)
<1> DEFINE both == Merge(left, more)
           A == DOMAIN left \cup DOMAIN more
           B == DOMAIN right
           S == Pairs(key, row, A, B)
           f(z) == WeightProducts(z, right, A, B)
<1>1. /\ IsZSet(both) /\ DOMAIN both \subseteq A
      /\ \A r : Weight(both, r) = Weight(left, r) + Weight(more, r)
    BY MergeAdds
<1>2. IsFiniteSet(A) /\ IsFiniteSet(B)
    BY FS_Union DEF IsZSet
<1>3. ASSUME NEW x \in A \X B
      PROVE  f(both)[x] = f(left)[x] + f(more)[x]
  <2>1. /\ Weight(left, x[1]) \in Int /\ Weight(more, x[1]) \in Int
        /\ Weight(right, x[2]) \in Int
    BY WeightType
  <2>2. Weight(both, x[1]) = Weight(left, x[1]) + Weight(more, x[1])
    BY <1>1
  <2> HIDE DEF both, A, B
  <2> QED
    BY <2>1, <2>2, Distributes DEF WeightProducts
<1>4. /\ IsFiniteSet(S) /\ S \subseteq A \X B
      /\ \A x \in A \X B : f(left)[x] \in Int /\ f(more)[x] \in Int
  <2>1. S \subseteq A \X B
    BY DEF Pairs
  <2> HIDE DEF A, B
  <2>2. /\ IsFiniteSet(S)
        /\ \A x \in A \X B : f(left)[x] \in Int /\ f(more)[x] \in Int
    BY <1>2, ProductTypes
  <2> QED
    BY <2>1, <2>2
<1>5. /\ JoinSum(key, row, both, right) = SumOver(f(both), S)
      /\ JoinSum(key, row, left, right) = SumOver(f(left), S)
      /\ JoinSum(key, row, more, right) = SumOver(f(more), S)
  <2> HIDE DEF both
  <2> QED
    BY <1>1, <1>2, JoinSumWidens
<1> HIDE DEF both, f, S, A, B
<1>6. SumOver(f(both), S) = SumOver(f(left), S) + SumOver(f(more), S)
    BY <1>3, <1>4, SumAdds
<1> QED
    BY <1>5, <1>6 DEF both

LEMMA JoinIsLinearRight ==
    ASSUME NEW left, IsZSet(left), NEW right, IsZSet(right), NEW more, IsZSet(more),
           NEW key, NEW row
    PROVE  JoinSum(key, row, left, Merge(right, more)) =
            JoinSum(key, row, left, right) + JoinSum(key, row, left, more)
<1> DEFINE both == Merge(right, more)
           A == DOMAIN left
           B == DOMAIN right \cup DOMAIN more
           S == Pairs(key, row, A, B)
           f(z) == WeightProducts(left, z, A, B)
<1>1. /\ IsZSet(both) /\ DOMAIN both \subseteq B
      /\ \A r : Weight(both, r) = Weight(right, r) + Weight(more, r)
    BY MergeAdds
<1>2. IsFiniteSet(A) /\ IsFiniteSet(B)
    BY FS_Union DEF IsZSet
<1>3. ASSUME NEW x \in A \X B
      PROVE  f(both)[x] = f(right)[x] + f(more)[x]
  <2>1. /\ Weight(right, x[2]) \in Int /\ Weight(more, x[2]) \in Int
        /\ Weight(left, x[1]) \in Int
    BY WeightType
  <2>2. Weight(both, x[2]) = Weight(right, x[2]) + Weight(more, x[2])
    BY <1>1
  <2> HIDE DEF both, A, B
  <2> QED
    BY <2>1, <2>2, Distributes DEF WeightProducts
<1>4. /\ IsFiniteSet(S) /\ S \subseteq A \X B
      /\ \A x \in A \X B : f(right)[x] \in Int /\ f(more)[x] \in Int
  <2>1. S \subseteq A \X B
    BY DEF Pairs
  <2> HIDE DEF A, B
  <2>2. /\ IsFiniteSet(S)
        /\ \A x \in A \X B : f(right)[x] \in Int /\ f(more)[x] \in Int
    BY <1>2, ProductTypes
  <2> QED
    BY <2>1, <2>2
<1>5. /\ JoinSum(key, row, left, both) = SumOver(f(both), S)
      /\ JoinSum(key, row, left, right) = SumOver(f(right), S)
      /\ JoinSum(key, row, left, more) = SumOver(f(more), S)
  <2> HIDE DEF both
  <2> QED
    BY <1>1, <1>2, JoinSumWidens
<1> HIDE DEF both, f, S, A, B
<1>6. SumOver(f(both), S) = SumOver(f(right), S) + SumOver(f(more), S)
    BY <1>3, <1>4, SumAdds
<1> QED
    BY <1>5, <1>6 DEF both

\* What Probe puts out is the join of its inputs.
LEMMA ProbeIsJoin ==
    ASSUME NEW left, IsZSet(left), NEW right, IsZSet(right), NEW key
    PROVE  /\ IsZSet(Probe(left, right, key, key))
           /\ \A r : /\ Weight(Probe(left, right, key, key), r) =
                            JoinSum(key, r, left, right)
                     /\ JoinSum(key, r, left, right) \in Int
<1> DEFINE P == Probe(left, right, key, key)
           k == JoinedRows(left, right)
           w == Products(left, right)
           M == Matching(left, right, key, key)
<1>1. IsZSet(P) /\ \A r : Weight(P, r) = SumOver(w, Standing(k, M, r))
    BY ProbeAdds
<1>2. ASSUME NEW r
      PROVE  Standing(k, M, r) = Pairs(key, r, DOMAIN left, DOMAIN right)
    BY DEF Standing, Matching, Pairs, JoinedRows
<1>3. \A r : Weight(P, r) = JoinSum(key, r, left, right)
    BY <1>1, <1>2 DEF JoinSum
<1> HIDE DEF P
<1> QED
    BY <1>1, <1>3, WeightType DEF P

\* apply_delta of a join puts out the change of the join: whatever was joined
\* before, and the output, is the join of the merged histories.
THEOREM JoinDeltaIsChange ==
    ASSUME NEW left, IsZSet(left), NEW right, IsZSet(right),
           NEW dl, IsZSet(dl), NEW dr, IsZSet(dr), NEW key
    PROVE  LET out == JoinDelta(left, right, dl, dr, key)
           IN  /\ IsZSet(out)
               /\ \A r : JoinSum(key, r, Merge(left, dl), Merge(right, dr)) =
                            JoinSum(key, r, left, right) + Weight(out, r)
<1> DEFINE a == Probe(dl, right, key, key)
           b == Probe(left, dr, key, key)
           c == Probe(dl, dr, key, key)
           J(l, r, row) == JoinSum(key, row, l, r)
<1>1. /\ IsZSet(a) /\ IsZSet(b) /\ IsZSet(c)
      /\ \A r : /\ Weight(a, r) = J(dl, right, r) /\ J(dl, right, r) \in Int
                /\ Weight(b, r) = J(left, dr, r) /\ J(left, dr, r) \in Int
                /\ Weight(c, r) = J(dl, dr, r) /\ J(dl, dr, r) \in Int
                /\ J(left, right, r) \in Int
    BY ProbeIsJoin
<1>2. JoinDelta(left, right, dl, dr, key) = Merge(Merge(a, b), c)
    BY DEF JoinDelta
<1> HIDE DEF a, b, c
<1>3. IsZSet(Merge(a, b)) /\ \A r : Weight(Merge(a, b), r) = Weight(a, r) + Weight(b, r)
    BY <1>1, MergeAdds
<1>4. /\ IsZSet(Merge(Merge(a, b), c))
      /\ \A r : Weight(Merge(Merge(a, b), c), r) = Weight(Merge(a, b), r) + Weight(c, r)
    BY <1>1, <1>3, MergeAdds
<1>5. IsZSet(Merge(right, dr))
    BY MergeAdds
<1>6. \A r : /\ J(Merge(left, dl), Merge(right, dr), r) =
                    J(left, Merge(right, dr), r) + J(dl, Merge(right, dr), r)
             /\ J(left, Merge(right, dr), r) = J(left, right, r) + J(left, dr, r)
             /\ J(dl, Merge(right, dr), r) = J(dl, right, r) + J(dl, dr, r)
    BY <1>5, JoinIsLinearLeft, JoinIsLinearRight
<1> HIDE DEF J
<1>7. ASSUME NEW r
      PROVE  J(Merge(left, dl), Merge(right, dr), r) =
                J(left, right, r) + Weight(Merge(Merge(a, b), c), r)
    BY <1>1, <1>3, <1>4, <1>6
<1> QED
    BY <1>2, <1>4, <1>7 DEF J

-----------------------------------------------------------------------------
(***************************************************************************)
(* The aggregate.  After some of the rows of a delta, the value of a group *)
(* has grown by what they contribute, and the output holds, for every      *)
(* group, the new value once and the old value minus once: the changes of  *)
(* value in between have cancelled each other out.                         *)
(***************************************************************************)
IsGroups(result) ==
    /\ result = [g \in DOMAIN result |-> result[g]]
    /\ \A g \in DOMAIN result : result[g] \in Int

LEMMA GroupValue ==
    ASSUME NEW result, IsGroups(result)
    PROVE  \A g : Weight(result, g) \in Int
    BY DEF IsGroups, Weight

\* The row of a group whose value is v.
Shown(value, v) == IF value = v /\ v # 0 THEN 1 ELSE 0

Given(delta, order, s) == {i \in s : order[i] \in DOMAIN delta}
GivenTo(delta, order, key, s, g) ==
    {i \in Given(delta, order, s) : key[order[i]] = g}
Contributions(delta, order, agg) ==
    [i \in DOMAIN order |->
        IF order[i] \in DOMAIN delta THEN agg[order[i]] * delta[order[i]] ELSE 0]

Aggregated(result, delta, order, key, agg, s, state) ==
    /\ state = [result |-> state.result, out |-> state.out]
    /\ state.result =
        [g \in DOMAIN result \cup {key[order[i]] : i \in Given(delta, order, s)} |->
            Weight(result, g) + SumOver(Contributions(delta, order, agg),
                                        GivenTo(delta, order, key, s, g))]
    /\ IsZSet(state.out)
    /\ \A g, v : Weight(state.out, OutputRow(g, v)) =
                    Shown(Weight(state.result, g), v) - Shown(Weight(result, g), v)
    /\ \A row \in DOMAIN state.out : \E g, v : row = OutputRow(g, v)

\* What an aggregate is given: integers to count, in some order.
IsInput(result, delta, order, agg) ==
    /\ IsGroups(result)
    /\ IsZSet(delta)
    /\ IsFiniteSet(DOMAIN order)
    /\ \A row \in DOMAIN delta : agg[row] \in Int

NextState(state, delta, order, key, agg, i) ==
    IF order[i] \in DOMAIN delta
       THEN AggregateRow(state, key[order[i]], agg[order[i]] * delta[order[i]])
       ELSE state

LEMMA OutputRowsDiffer ==
    \A g, h, u, v : OutputRow(g, u) = OutputRow(h, v) <=> g = h /\ u = v
    BY DEF OutputRow

LEMMA EmitAdds ==
    ASSUME NEW out, IsZSet(out), NEW key, NEW value, NEW w \in Int
    PROVE  LET E == Emit(out, key, value, w)
           IN  /\ IsZSet(E)
               /\ \A g, v : Weight(E, OutputRow(g, v)) =
                                Weight(out, OutputRow(g, v))
                                  + (IF g = key /\ v = value /\ v # 0 THEN w ELSE 0)
               /\ DOMAIN E \subseteq DOMAIN out \cup {OutputRow(key, value)}
<1> DEFINE E == Emit(out, key, value, w)
<1>1. CASE value = 0
  <2>1. E = out /\ \A g, v : Weight(out, OutputRow(g, v)) \in Int
    BY <1>1, WeightType DEF Emit
  <2> QED
    BY <1>1, <2>1
<1>2. CASE value # 0
  <2>1. E = Insert(out, OutputRow(key, value), w)
    BY <1>2 DEF Emit
  <2>2. /\ IsZSet(E)
        /\ \A r : Weight(E, r) =
                    Weight(out, r) + (IF r = OutputRow(key, value) THEN w ELSE 0)
        /\ DOMAIN E \subseteq DOMAIN out \cup {OutputRow(key, value)}
    BY <2>1, InsertAdds
  <2> HIDE DEF E
  <2> QED
    BY <1>2, <2>2, OutputRowsDiffer DEF E
<1> QED
    BY <1>1, <1>2

LEMMA ContributionTypes ==
    ASSUME NEW result, NEW delta, NEW order, NEW agg,
           IsInput(result, delta, order, agg)
    PROVE  \A i \in DOMAIN order : Contributions(delta, order, agg)[i] \in Int
<1>1. \A row \in DOMAIN delta : agg[row] \in Int /\ delta[row] \in Int
    BY DEF IsInput, IsZSet, Canonical
<1>2. \A row \in DOMAIN delta : agg[row] * delta[row] \in Int
    BY <1>1
<1> QED
    BY <1>2 DEF Contributions

LEMMA AggregatedNothing ==
    ASSUME NEW result, NEW delta, NEW order, NEW key, NEW agg,
           IsInput(result, delta, order, agg)
    PROVE  Aggregated(result, delta, order, key, agg, {},
                      [result |-> result, out |-> Empty])
<1> DEFINE c == Contributions(delta, order, agg)
<1>1. Given(delta, order, {}) = {} /\ \A g : GivenTo(delta, order, key, {}, g) = {}
    BY DEF Given, GivenTo
<1>2. \A g : SumOver(c, GivenTo(delta, order, key, {}, g)) = 0
    BY <1>1, SumEmpty
<1> HIDE DEF c
<1>3. DOMAIN result \cup {key[order[i]] : i \in {}} = DOMAIN result
    OBVIOUS
<1>4. \A g \in DOMAIN result : result[g] = Weight(result, g) + 0
    BY DEF IsInput, IsGroups, Weight
<1>5. result = [g \in DOMAIN result \cup {key[order[i]] : i \in Given(delta, order, {})}
                    |-> Weight(result, g) + SumOver(c, GivenTo(delta, order, key, {}, g))]
    BY <1>1, <1>2, <1>3, <1>4 DEF IsInput, IsGroups
<1>6. \A g, v : Weight(Empty, OutputRow(g, v)) =
                    Shown(Weight(result, g), v) - Shown(Weight(result, g), v)
    BY EmptyIsZSet DEF Shown
<1> QED
    BY <1>5, <1>6, EmptyIsZSet DEF Aggregated, c

LEMMA AggregatedOneMore ==
    ASSUME NEW result, NEW delta, NEW order, NEW key, NEW agg,
           IsInput(result, delta, order, agg),
           NEW s \in SUBSET DOMAIN order, NEW x \in s, NEW state,
           Aggregated(result, delta, order, key, agg, s \ {x}, state)
    PROVE  Aggregated(result, delta, order, key, agg, s,
                      NextState(state, delta, order, key, agg, x))
<1> DEFINE c == Contributions(delta, order, agg)
           t == s \ {x}
           k == key[order[x]]
           n == agg[order[x]] * delta[order[x]]
           old == Weight(state.result, k)
           new == old + n
           next == NextState(state, delta, order, key, agg, x)
           To(u, g) == GivenTo(delta, order, key, u, g)
           Value(u, g) == Weight(result, g) + SumOver(c, To(u, g))
           Keys(u) == DOMAIN result \cup {key[order[i]] : i \in Given(delta, order, u)}
<1>1. /\ \A g : IsFiniteSet(To(s, g)) /\ IsFiniteSet(To(t, g))
      /\ \A g : To(s, g) \subseteq DOMAIN order /\ To(t, g) \subseteq DOMAIN order
  <2>1. \A u \in SUBSET s : \A g : To(u, g) \in SUBSET DOMAIN order
    BY DEF GivenTo, Given
  <2> QED
    BY <2>1, FS_Subset DEF IsInput
<1>2. \A g : /\ SumOver(c, To(s, g)) \in Int /\ SumOver(c, To(t, g)) \in Int
             /\ Weight(result, g) \in Int
             /\ Value(t, g) \in Int
  <2>1. \A i \in DOMAIN order : c[i] \in Int
    BY ContributionTypes
  <2> HIDE DEF c, To
  <2>2. \A g : SumOver(c, To(s, g)) \in Int /\ SumOver(c, To(t, g)) \in Int
    BY <1>1, <2>1, SumType
  <2>3. \A g : Weight(result, g) \in Int
    BY GroupValue DEF IsInput
  <2> QED
    BY <2>2, <2>3
<1>3. /\ IsZSet(state.out) /\ state = [result |-> state.result, out |-> state.out]
      /\ state.result = [g \in Keys(t) |-> Value(t, g)]
      /\ \A g, v : Weight(state.out, OutputRow(g, v)) =
                    Shown(Weight(state.result, g), v) - Shown(Weight(result, g), v)
      /\ \A row \in DOMAIN state.out : \E g, v : row = OutputRow(g, v)
    BY DEF Aggregated
\* A group without an entry counts as 0, and nothing was given to it.
<1>4. \A g : Weight(state.result, g) = Value(t, g)
  <2> SUFFICES ASSUME NEW g, g \notin Keys(t) PROVE Value(t, g) = 0
    BY <1>3 DEF Weight
  <2>1. To(t, g) = {} /\ g \notin DOMAIN result
    BY DEF GivenTo, Given
  <2>2. SumOver(c, To(t, g)) = 0
    BY <2>1, SumEmpty
  <2> HIDE DEF To, c
  <2> QED
    BY <2>1, <2>2 DEF Weight
<1>5. CASE order[x] \notin DOMAIN delta
  <2>1. next = state
    BY <1>5 DEF NextState
  <2>2. \A g : To(s, g) = To(t, g)
    BY <1>5 DEF GivenTo, Given
  <2>3. Given(delta, order, s) = Given(delta, order, t)
    BY <1>5 DEF Given
  <2>4. state.result = [g \in Keys(s) |-> Value(s, g)]
    BY <1>3, <2>2, <2>3
  <2> QED
    BY <1>3, <2>1, <2>4 DEF Aggregated
<1>6. CASE order[x] \in DOMAIN delta
  <2>1. /\ n \in Int /\ old \in Int /\ new \in Int /\ c[x] = n
        /\ \A i \in s : c[i] \in Int
    <3>1. agg[order[x]] \in Int /\ delta[order[x]] \in Int
        BY <1>6 DEF IsInput, IsZSet, Canonical
    <3>2. n \in Int
        BY <3>1
    <3>3. old \in Int
        <4> HIDE DEF Value
        <4> QED
            BY <1>2, <1>4
    <3>4. c[x] = n
        BY <1>6 DEF Contributions
    <3>5. \A i \in DOMAIN order : c[i] \in Int
        BY ContributionTypes
    <3> HIDE DEF c, n, old
    <3> QED
        BY <3>2, <3>3, <3>4, <3>5
  <2>2. next = [result |-> [g \in DOMAIN state.result \cup {k} |->
                                IF g = k THEN new ELSE state.result[g]],
                out |-> Emit(Emit(state.out, k, old, -1), k, new, 1)]
    BY <1>6 DEF NextState, AggregateRow
  <2>3. To(s, k) = To(t, k) \cup {x} /\ x \notin To(t, k) /\ x \in To(s, k)
        /\ To(s, k) \ {x} = To(t, k)
    BY <1>6 DEF GivenTo, Given
  <2>4. \A g : g # k => To(s, g) = To(t, g)
    BY DEF GivenTo, Given
  <2>5. SumOver(c, To(s, k)) = n + SumOver(c, To(t, k))
    <3> HIDE DEF c, To
    <3>1. SumOver(c, To(s, k)) = c[x] + SumOver(c, To(s, k) \ {x})
        <4>1. \A i \in To(s, k) : c[i] \in Int
            BY <2>1 DEF To, GivenTo, Given
        <4> QED
            BY <1>1, <2>3, <4>1, SumTakes
    <3> QED
        BY <2>1, <2>3, <3>1
  <2>6. Value(s, k) = new /\ \A g : g # k => Value(s, g) = Value(t, g)
    <3>1. old = Weight(result, k) + SumOver(c, To(t, k))
        BY <1>4
    <3> HIDE DEF c, To, n, old, k
    <3>2. /\ SumOver(c, To(t, k)) \in Int /\ Weight(result, k) \in Int
          /\ n \in Int
        BY <1>2, <2>1
    <3>3. Weight(result, k) + SumOver(c, To(s, k)) = old + n
        BY <2>5, <3>1, <3>2
    <3>4. Value(s, k) = new
        BY <3>3
    <3>5. \A g : g # k => Value(s, g) = Value(t, g)
        BY <2>4
    <3> QED
        BY <3>4, <3>5
  <2>7. Keys(s) = Keys(t) \cup {k}
    <3>1. Given(delta, order, s) = Given(delta, order, t) \cup {x}
        BY <1>6 DEF Given
    <3> QED
        BY <3>1
  <2> HIDE DEF Value, Keys, new, old, k, To, c, t
  <2>8. next.result = [g \in Keys(s) |-> Value(s, g)]
    BY <1>3, <2>2, <2>6, <2>7
  <2>9. \A g : Weight(next.result, g) = IF g = k THEN new ELSE Weight(state.result, g)
    BY <1>3, <2>2 DEF Weight
  <2> DEFINE first == Emit(state.out, k, old, -1)
             second == Emit(first, k, new, 1)
  <2>10. /\ IsZSet(first)
         /\ \A g, v : Weight(first, OutputRow(g, v)) =
                        Weight(state.out, OutputRow(g, v))
                          + (IF g = k /\ v = old /\ v # 0 THEN -1 ELSE 0)
         /\ DOMAIN first \subseteq DOMAIN state.out \cup {OutputRow(k, old)}
    BY <1>3, EmitAdds
  <2> HIDE DEF first
  <2>11. /\ IsZSet(second)
         /\ \A g, v : Weight(second, OutputRow(g, v)) =
                        Weight(first, OutputRow(g, v))
                          + (IF g = k /\ v = new /\ v # 0 THEN 1 ELSE 0)
         /\ DOMAIN second \subseteq DOMAIN first \cup {OutputRow(k, new)}
    BY <2>10, EmitAdds
  <2>12. next.out = second /\ next = [result |-> next.result, out |-> next.out]
    BY <2>2 DEF first
  <2> HIDE DEF second, next
  <2>13. ASSUME NEW g, NEW v
         PROVE  Weight(second, OutputRow(g, v)) =
                    Shown(Weight(next.result, g), v) - Shown(Weight(result, g), v)
    <3>1. CASE g = k
      <4>1. Weight(next.result, g) = new /\ Weight(state.result, g) = old
        BY <2>9, <3>1 DEF old
      <4>2. Weight(state.out, OutputRow(g, v)) = Shown(old, v) - Shown(Weight(result, g), v)
        BY <1>3, <4>1
      <4>3. /\ Weight(first, OutputRow(g, v)) =
                Weight(state.out, OutputRow(g, v)) - Shown(old, v)
            /\ Weight(second, OutputRow(g, v)) =
                Weight(first, OutputRow(g, v)) + Shown(new, v)
        <5>1. Weight(state.out, OutputRow(g, v)) \in Int
            BY <1>3, WeightType
        <5> QED
            BY <2>10, <2>11, <3>1, <5>1 DEF Shown
      <4>4. /\ Shown(old, v) \in Int /\ Shown(new, v) \in Int
            /\ Shown(Weight(result, g), v) \in Int
        BY DEF Shown
      <4> QED
        BY <4>1, <4>2, <4>3, <4>4
    <3>2. CASE g # k
      <4>1. Weight(next.result, g) = Weight(state.result, g)
        BY <2>9, <3>2
      <4>2. Weight(second, OutputRow(g, v)) = Weight(state.out, OutputRow(g, v))
        <5>1. Weight(state.out, OutputRow(g, v)) \in Int
            BY <1>3, WeightType
        <5> QED
            BY <2>10, <2>11, <3>2, <5>1
      <4> QED
        BY <1>3, <4>1, <4>2
    <3> QED
        BY <3>1, <3>2
  <2>14. \A row \in DOMAIN second : \E g, v : row = OutputRow(g, v)
    BY <1>3, <2>10, <2>11
  <2> QED
    BY <2>8, <2>11, <2>12, <2>13, <2>14 DEF Aggregated, Value, Keys, To, c, next
<1> QED
    BY <1>5, <1>6
\* Numbers that are bounded have a greatest.
LEMMA GreatestNatural ==
    ASSUME NEW S \in SUBSET Nat, S # {}, NEW b \in Nat, \A x \in S : x <= b
    PROVE  Max(S) \in S /\ \A x \in S : x <= Max(S)
<1> DEFINE U == {u \in Nat : \A x \in S : x <= u}
<1>1. PICK u \in U : \A v \in U : u <= v
  <2>1. U \in SUBSET Nat /\ b \in U
    OBVIOUS
  <2> HIDE DEF U
  <2> QED
    BY <2>1, LeastNatural
<1>2. u \in S
  <2> SUFFICES ASSUME u \notin S PROVE FALSE
    OBVIOUS
  <2>1. \A x \in S : x <= u - 1 /\ u - 1 \in Nat
    BY <1>1
  <2>2. u - 1 \in U
    BY <2>1
  <2> QED
    BY <1>1, <2>2
<1>3. \A x \in S : u >= x
  BY <1>1
<1> QED
  BY <1>2, <1>3 DEF Max

\* order is a sequence without repetitions that names all members of S.
Arranges(order, S) ==
    /\ \E n \in Nat : DOMAIN order = 1..n
    /\ \A i, j \in DOMAIN order : order[i] = order[j] => i = j
    /\ \A x \in S : \E i \in DOMAIN order : order[i] = x

LEMMA SetToSeqArranges ==
    ASSUME NEW S, IsFiniteSet(S)
    PROVE  Arranges(SetToSeq(S), S)
<1> DEFINE n == Cardinality(S)
           f == SetToSeq(S)
<1>1. n \in Nat /\ ExistsBijection(1..n, S)
    BY FS_CardinalityType
<1>2. \E g \in [1..n -> S] : IsInjective(g)
    BY <1>1 DEF ExistsBijection, Bijection, Injection
<1>3. f \in [1..n -> S] /\ IsInjective(f)
    BY <1>2 DEF SetToSeq
<1> HIDE DEF f
<1>4. Cardinality(1..n) = n
    BY <1>1, FS_Interval
<1>5. f \in Injection(1..n, S)
    BY <1>3 DEF Injection
<1> HIDE DEF n
<1>6. f \in Surjection(1..n, S)
    BY <1>4, <1>5, FS_Injection DEF n
<1> QED
    BY <1>1, <1>3, <1>6 DEF Arranges, IsInjective, Surjection, f

LEMMA LastIsMember ==
    ASSUME NEW order, NEW S, Arranges(order, S)
    PROVE  /\ IsFiniteSet(DOMAIN order)
           /\ \A s \in SUBSET DOMAIN order :
                s # {} => Max(s) \in s /\ s \ {Max(s)} \in SUBSET DOMAIN order
<1>1. PICK n \in Nat : DOMAIN order = 1..n
    BY DEF Arranges
<1>2. ASSUME NEW s \in SUBSET DOMAIN order, s # {} PROVE Max(s) \in s
  <2>1. s \in SUBSET Nat /\ \A x \in s : x <= n
    BY <1>1
  <2> QED
    BY <1>2, <2>1, GreatestNatural
<1>3. IsFiniteSet(DOMAIN order)
  <2>1. IsFiniteSet(1..n)
    BY FS_Interval
  <2> QED
    BY <1>1, <2>1
<1> QED
    BY <1>2, <1>3

LEMMA ImageIsFinite ==
    ASSUME NEW S, IsFiniteSet(S), NEW p
    PROVE  IsFiniteSet({p[x] : x \in S})
<1> DEFINE T == {p[x] : x \in S}
           f == [x \in S |-> p[x]]
<1>1. f \in Surjection(S, T)
    BY DEF Surjection
<1> HIDE DEF f, T
<1>2. IsFiniteSet(T)
    BY <1>1, FS_Surjection
<1> QED
    BY <1>2 DEF T

\* A sum over the positions of rows is the sum over the rows.
LEMMA SumReindexed ==
    ASSUME NEW S, IsFiniteSet(S), NEW p, NEW f, NEW g,
           \A i, j \in S : p[i] = p[j] => i = j,
           \A i \in S : f[p[i]] \in Int /\ g[i] = f[p[i]]
    PROVE  SumOver(g, S) = SumOver(f, {p[i] : i \in S})
<1> DEFINE Image(s) == {p[i] : i \in s}
           Good == {s \in SUBSET S : SumOver(g, s) = SumOver(f, Image(s))}
<1>1. ASSUME NEW s \in SUBSET S, \A t \in SUBSET s : t # s => t \in Good
      PROVE  s \in Good
  <2>1. IsFiniteSet(s) /\ IsFiniteSet(Image(s))
    BY FS_Subset, ImageIsFinite
  <2>2. CASE s = {}
    <3>1. Image(s) = {}
        BY <2>2
    <3> QED
        BY <2>2, <3>1, SumEmpty
  <2>3. CASE s # {}
    <3> DEFINE x == One(s)
               t == s \ {x}
    <3>1. t \in Good /\ x \in s
        BY <1>1, <2>3, OneIsMember
    <3>2. SumOver(g, s) = g[x] + SumOver(g, t)
        BY <2>1, <2>3, SumEquation
    <3>3. p[x] \in Image(s) /\ Image(s) \ {p[x]} = Image(t)
        BY <3>1
    <3>4. SumOver(f, Image(s)) = f[p[x]] + SumOver(f, Image(s) \ {p[x]})
      <4>1. \A r \in Image(s) : f[r] \in Int
        OBVIOUS
      <4> HIDE DEF Image, x
      <4> QED
        BY <2>1, <3>3, <4>1, SumTakes
    <3>5. g[x] = f[p[x]] /\ SumOver(g, t) = SumOver(f, Image(t))
        BY <3>1
    <3> HIDE DEF Image, x, t
    <3> QED
        BY <3>2, <3>3, <3>4, <3>5
  <2> QED
    BY <2>2, <2>3
<1>2. \A s \in SUBSET S : s \in Good
  <2> HIDE DEF Good
  <2> QED
    BY <1>1, SubsetInduction
<1> QED
    BY <1>2

\* What is Aggregated is one state: its output has no rows but those whose
\* weights are given.
LEMMA AggregatedIsOne ==
    ASSUME NEW result, NEW delta, NEW order, NEW key, NEW agg, NEW s,
           NEW y, Aggregated(result, delta, order, key, agg, s, y),
           NEW z, Aggregated(result, delta, order, key, agg, s, z)
    PROVE  y = z
<1>1. y.result = z.result
    BY DEF Aggregated
<1>2. ASSUME NEW row PROVE Weight(y.out, row) = Weight(z.out, row)
  <2>1. ASSUME NEW g, NEW v
        PROVE  Weight(y.out, OutputRow(g, v)) = Weight(z.out, OutputRow(g, v))
    <3>1. /\ Weight(y.out, OutputRow(g, v)) =
                Shown(Weight(y.result, g), v) - Shown(Weight(result, g), v)
          /\ Weight(z.out, OutputRow(g, v)) =
                Shown(Weight(z.result, g), v) - Shown(Weight(result, g), v)
        BY DEF Aggregated
    <3> QED
        BY <1>1, <3>1
  <2>2. CASE \E g, v : row = OutputRow(g, v)
    BY <2>1, <2>2
  <2>3. CASE ~\E g, v : row = OutputRow(g, v)
    <3>1. row \notin DOMAIN y.out /\ row \notin DOMAIN z.out
        BY <2>3 DEF Aggregated
    <3> QED
        BY <3>1 DEF Weight
  <2> QED
    BY <2>2, <2>3
<1>3. y.out = z.out
    BY <1>2, SameWeights DEF Aggregated
<1> QED
    BY <1>1, <1>3 DEF Aggregated

LEMMA AggregatedExists ==
    ASSUME NEW result, NEW delta, NEW order, NEW key, NEW agg,
           IsInput(result, delta, order, agg), NEW s \in SUBSET DOMAIN order
    PROVE  \E z : Aggregated(result, delta, order, key, agg, s, z)
<1> DEFINE Good == {t \in SUBSET s :
                        \E z : Aggregated(result, delta, order, key, agg, t, z)}
<1>1. ASSUME NEW t \in SUBSET s, \A u \in SUBSET t : u # t => u \in Good
      PROVE  t \in Good
  <2>1. CASE t = {}
    <3>1. Aggregated(result, delta, order, key, agg, t, [result |-> result, out |-> Empty])
        BY <2>1, AggregatedNothing
    <3> QED
        BY <3>1
  <2>2. CASE t # {}
    <3>1. One(t) \in t /\ t \ {One(t)} \in Good
        BY <1>1, <2>2, OneIsMember
    <3>2. PICK z : Aggregated(result, delta, order, key, agg, t \ {One(t)}, z)
        BY <3>1
    <3>3. Aggregated(result, delta, order, key, agg, t,
                     NextState(z, delta, order, key, agg, One(t)))
        BY <3>1, <3>2, AggregatedOneMore
    <3> QED
        BY <3>3
  <2> QED
    BY <2>1, <2>2
<1>2. IsFiniteSet(s)
    BY FS_Subset DEF IsInput
<1>3. \A t \in SUBSET s : t \in Good
  <2> HIDE DEF Good
  <2> QED
    BY <1>1, <1>2, SubsetInduction
<1> QED
    BY <1>3

\* The fold of apply_delta over the rows in order is what Aggregated says of
\* all of them.
LEMMA ApplyAggregateFolds ==
    ASSUME NEW result, NEW delta, NEW order, NEW key, NEW agg,
           IsInput(result, delta, order, agg), NEW S, Arranges(order, S)
    PROVE  Aggregated(result, delta, order, key, agg, DOMAIN order,
                      ApplyAggregate(result, delta, order, key, agg))
<1> DEFINE D == DOMAIN order
           A(s, z) == Aggregated(result, delta, order, key, agg, s, z)
           F == [s \in SUBSET D |-> CHOOSE z : A(s, z)]
           base == [result |-> result, out |-> Empty]
           Step(state, row) ==
                IF row \in DOMAIN delta
                   THEN AggregateRow(state, key[row], agg[row] * delta[row])
                   ELSE state
           Eq(G) == G = [s \in SUBSET D |->
                            IF s = {} THEN base
                            ELSE Step(G[s \ {Max(s)}], order[Max(s)])]
           G == CHOOSE H : Eq(H)
<1>1. \A s \in SUBSET D : A(s, F[s])
  <2>1. \A s \in SUBSET D : \E z : A(s, z)
    BY AggregatedExists
  <2> HIDE DEF A
  <2> QED
    BY <2>1
<1>2. \A s \in SUBSET D : s # {} => Max(s) \in s /\ s \ {Max(s)} \in SUBSET D
    BY LastIsMember
<1>3. ASSUME NEW H, Eq(H) PROVE \A s \in SUBSET D : A(s, H[s])
  <2> DEFINE Good == {s \in SUBSET D : A(s, H[s])}
  <2>1. ASSUME NEW s \in SUBSET D, \A t \in SUBSET s : t # s => t \in Good
        PROVE  s \in Good
    <3>1. CASE s = {}
      <4>1. H[s] = base
        BY <1>3, <3>1
      <4> QED
        BY <3>1, <4>1, AggregatedNothing
    <3>2. CASE s # {}
      <4> DEFINE x == Max(s)
      <4>1. x \in s /\ A(s \ {x}, H[s \ {x}])
        BY <1>2, <2>1, <3>2
      <4>2. H[s] = Step(H[s \ {x}], order[x])
        BY <1>3, <3>2
      <4>3. Step(H[s \ {x}], order[x]) =
                NextState(H[s \ {x}], delta, order, key, agg, x)
        BY DEF NextState
      <4> HIDE DEF x, Step
      <4>4. A(s, NextState(H[s \ {x}], delta, order, key, agg, x))
        BY <4>1, AggregatedOneMore
      <4> QED
        BY <4>2, <4>3, <4>4
    <3> QED
        BY <3>1, <3>2
  <2>2. IsFiniteSet(D)
    BY DEF IsInput
  <2>3. \A s \in SUBSET D : s \in Good
    <3> HIDE DEF Good, D
    <3> QED
        BY <2>1, <2>2, SubsetInduction
  <2> QED
    BY <2>3
<1>4. Eq(F)
  <2>1. ASSUME NEW s \in SUBSET D
        PROVE  F[s] = IF s = {} THEN base
                      ELSE Step(F[s \ {Max(s)}], order[Max(s)])
    <3>1. A(s, F[s])
        BY <1>1
    <3>2. CASE s = {}
      <4>1. A(s, base)
        BY <3>2, AggregatedNothing
      <4> HIDE DEF F, base
      <4>2. F[s] = base
        BY <3>1, <4>1, AggregatedIsOne
      <4> QED
        BY <3>2, <4>2
    <3>3. CASE s # {}
      <4> DEFINE x == Max(s)
                 t == s \ {x}
      <4>1. x \in s /\ A(t, F[t])
        BY <1>1, <1>2, <3>3
      <4>2. Step(F[t], order[x]) = NextState(F[t], delta, order, key, agg, x)
        BY DEF NextState
      <4> HIDE DEF F, x, Step
      <4>3. A(s, NextState(F[t], delta, order, key, agg, x))
        BY <4>1, AggregatedOneMore
      <4>4. F[s] = NextState(F[t], delta, order, key, agg, x)
        BY <3>1, <4>3, AggregatedIsOne
      <4> QED
        BY <3>3, <4>2, <4>4 DEF x
    <3> QED
        BY <3>2, <3>3
  <2>2. F = [s \in SUBSET D |-> F[s]]
    OBVIOUS
  <2> HIDE DEF F, Step, base
  <2> QED
    BY <2>1, <2>2
<1>5. Eq(G)
  <2> HIDE DEF Eq
  <2> QED
    BY <1>4
<1>6. ApplyAggregate(result, delta, order, key, agg) = G[D]
    BY DEF ApplyAggregate, FoldLeft, MapThenFoldSet
<1> HIDE DEF G, Eq
<1>7. A(D, G[D])
    BY <1>3, <1>5
<1> QED
    BY <1>6, <1>7

\* Each row counted with a factor.
Weighted(v, z) == [r \in DOMAIN z |-> v[r] * z[r]]

\* apply_delta of an aggregate, whatever the order in which the rows of the
\* delta are visited: the value of every group grows by what the rows of the
\* group contribute, and the output replaces the old value by the new one.
THEOREM AggregateIsChange ==
    ASSUME NEW result, IsGroups(result), NEW delta, IsZSet(delta),
           NEW order, Arranges(order, DOMAIN delta),
           NEW key, NEW agg, \A row \in DOMAIN delta : agg[row] \in Int
    PROVE  LET next == ApplyAggregate(result, delta, order, key, agg)
           IN  /\ next = [result |-> next.result, out |-> next.out]
               /\ IsGroups(next.result) /\ IsZSet(next.out)
               /\ DOMAIN next.result =
                    DOMAIN result \cup {key[row] : row \in DOMAIN delta}
               /\ \A g : Weight(next.result, g) =
                            Weight(result, g)
                              + SumOver(Weighted(agg, delta), Standing(key, DOMAIN delta, g))
               /\ \A g, v : Weight(next.out, OutputRow(g, v)) =
                                Shown(Weight(next.result, g), v)
                                  - Shown(Weight(result, g), v)
               /\ \A row \in DOMAIN next.out : \E g, v : row = OutputRow(g, v)
<1> DEFINE next == ApplyAggregate(result, delta, order, key, agg)
           D == DOMAIN order
           c == Contributions(delta, order, agg)
           f == Weighted(agg, delta)
           To(g) == GivenTo(delta, order, key, D, g)
           Members(g) == Standing(key, DOMAIN delta, g)
<1>1. IsInput(result, delta, order, agg) /\ IsFiniteSet(D)
    BY LastIsMember DEF IsInput
<1>2. Aggregated(result, delta, order, key, agg, D, next)
    BY <1>1, ApplyAggregateFolds
<1>3. ASSUME NEW g
      PROVE  /\ SumOver(c, To(g)) = SumOver(f, Members(g))
             /\ SumOver(c, To(g)) \in Int
  <2>1. To(g) \in SUBSET D /\ IsFiniteSet(To(g))
    <3>1. To(g) \in SUBSET D
        BY DEF GivenTo, Given
    <3> QED
        BY <1>1, <3>1, FS_Subset
  <2>2. {order[i] : i \in To(g)} = Members(g)
    BY DEF GivenTo, Given, Arranges, Standing
  <2>3. \A i, j \in To(g) : order[i] = order[j] => i = j
    BY <2>1 DEF Arranges
  <2>4. \A i \in D : c[i] \in Int
    BY <1>1, ContributionTypes
  <2>5. \A i \in To(g) : c[i] = f[order[i]]
    BY DEF GivenTo, Given, Contributions, Weighted
  <2>6. \A i \in To(g) : f[order[i]] \in Int /\ c[i] = f[order[i]]
    BY <2>1, <2>4, <2>5
  <2>7. \A i \in To(g) : c[i] \in Int
    BY <2>1, <2>4
  <2> HIDE DEF To, Members, c, f, D
  <2>8. SumOver(c, To(g)) = SumOver(f, {order[i] : i \in To(g)})
    BY <2>1, <2>3, <2>6, SumReindexed
  <2> QED
    BY <2>1, <2>2, <2>7, <2>8, SumType
<1>4. {key[order[i]] : i \in Given(delta, order, D)} = {key[row] : row \in DOMAIN delta}
    BY DEF Given, Arranges
<1>5. \A g : Weight(result, g) \in Int
    BY GroupValue
<1>6. next.result = [g \in DOMAIN result \cup {key[row] : row \in DOMAIN delta} |->
                        Weight(result, g) + SumOver(f, Members(g))]
  <2>1. next.result = [g \in DOMAIN result \cup {key[order[i]] : i \in Given(delta, order, D)}
                        |-> Weight(result, g) + SumOver(c, To(g))]
    BY <1>2 DEF Aggregated
  <2> HIDE DEF next, c, f, To, Members, D
  <2> QED
    BY <1>3, <1>4, <2>1
<1>7. \A g : SumOver(f, Members(g)) \in Int
    BY <1>3
<1> HIDE DEF next, f, c, To
<1>8. IsGroups(next.result)
  <2>1. \A g : Weight(result, g) + SumOver(f, Members(g)) \in Int
    BY <1>5, <1>7
  <2> HIDE DEF Members
  <2> QED
    BY <1>6, <2>1 DEF IsGroups
<1>9. ASSUME NEW g PROVE Weight(next.result, g) = Weight(result, g) + SumOver(f, Members(g))
  <2>1. CASE g \in DOMAIN next.result
    BY <1>6, <2>1 DEF Weight
  <2>2. CASE g \notin DOMAIN next.result
    <3>1. Members(g) = {} /\ g \notin DOMAIN result
        BY <1>6, <2>2 DEF Standing
    <3>2. SumOver(f, Members(g)) = 0
        BY <3>1, SumEmpty
    <3> QED
        BY <2>2, <3>1, <3>2 DEF Weight
  <2> QED
    BY <2>1, <2>2
<1>10. DOMAIN next.result = DOMAIN result \cup {key[row] : row \in DOMAIN delta}
    BY <1>6
<1> QED
    BY <1>2, <1>8, <1>9, <1>10 DEF Aggregated, next, f

-----------------------------------------------------------------------------
(***************************************************************************)
(* Sums over the rows of a merged Z-set that are in P, each row counted    *)
(* with a factor.                                                          *)
(***************************************************************************)
Among(z, P) == DOMAIN z \cap P
WeightedOn(v, z, U) == [r \in U |-> v[r] * Weight(z, r)]
IsFactor(v, U) == \A r \in U : v[r] \in Int

LEMMA WeightedSumWidens ==
    ASSUME NEW z, IsZSet(z), NEW U, IsFiniteSet(U), DOMAIN z \subseteq U,
           NEW v, IsFactor(v, U), NEW P, NEW S, S = U \cap P
    PROVE  /\ SumOver(Weighted(v, z), Among(z, P)) = SumOver(WeightedOn(v, z, U), S)
           /\ \A r \in U : v[r] * Weight(z, r) \in Int
<1> DEFINE f == Weighted(v, z)
           g == WeightedOn(v, z, U)
           T == Among(z, P)
<1>1. \A r \in U : v[r] * Weight(z, r) \in Int
  <2>1. \A r \in U : v[r] \in Int /\ Weight(z, r) \in Int
    BY WeightType DEF IsFactor
  <2> QED
    BY <2>1
<1>2. IsFiniteSet(S) /\ IsFiniteSet(T) /\ T \in SUBSET S
    BY FS_Subset DEF Among
<1>3. \A r \in S : g[r] \in Int
    BY <1>1 DEF WeightedOn
<1>4. ASSUME NEW r \in S \ T PROVE g[r] = 0
  <2>1. Weight(z, r) = 0 /\ v[r] \in Int /\ r \in U
    BY DEF Weight, IsFactor, Among
  <2>2. v[r] * 0 = 0
    BY <2>1
  <2> QED
    BY <2>1, <2>2 DEF WeightedOn
<1>5. \A r \in T : f[r] = g[r]
    BY DEF Weighted, WeightedOn, Weight, Among
<1> HIDE DEF f, g, T
<1>6. SumOver(g, S) = SumOver(g, T)
    BY <1>2, <1>3, <1>4, SumOverSupport
<1>7. SumOver(f, T) = SumOver(g, T)
    BY <1>2, <1>5, SumSame
<1> QED
    BY <1>1, <1>6, <1>7 DEF f, g, T

LEMMA WeightedSumAdds ==
    ASSUME NEW z, IsZSet(z), NEW d, IsZSet(d), NEW U, IsFiniteSet(U),
           DOMAIN z \subseteq U, DOMAIN d \subseteq U, NEW v, IsFactor(v, U), NEW P
    PROVE  /\ SumOver(Weighted(v, Merge(z, d)), Among(Merge(z, d), P)) =
                SumOver(Weighted(v, z), Among(z, P)) + SumOver(Weighted(v, d), Among(d, P))
           /\ SumOver(Weighted(v, z), Among(z, P)) \in Int
           /\ SumOver(Weighted(v, d), Among(d, P)) \in Int
<1> DEFINE m == Merge(z, d)
           On(y) == WeightedOn(v, y, U)
           S == U \cap P
<1>1. IsZSet(m) /\ \A r : Weight(m, r) = Weight(z, r) + Weight(d, r)
    BY MergeAdds
<1>2. DOMAIN m \subseteq U
  <2>1. DOMAIN m \subseteq DOMAIN z \cup DOMAIN d
    BY MergeAdds
  <2> HIDE DEF m
  <2> QED
    BY <2>1
<1>3. IsFiniteSet(S) /\ \A r \in S : r \in U
    BY FS_Subset
<1> HIDE DEF m
<1>4. ASSUME NEW y, IsZSet(y), DOMAIN y \subseteq U
      PROVE  /\ SumOver(Weighted(v, y), Among(y, P)) = SumOver(On(y), S)
             /\ \A r \in U : v[r] * Weight(y, r) \in Int
    BY <1>4, WeightedSumWidens
<1> HIDE DEF S
<1>5. ASSUME NEW r \in S
      PROVE  On(z)[r] \in Int /\ On(d)[r] \in Int /\ On(m)[r] = On(z)[r] + On(d)[r]
  <2>1. Weight(z, r) \in Int /\ Weight(d, r) \in Int /\ v[r] \in Int
    BY <1>3, WeightType DEF IsFactor
  <2>2. v[r] * (Weight(z, r) + Weight(d, r)) = v[r] * Weight(z, r) + v[r] * Weight(d, r)
    BY <2>1, Distributes
  <2>3. v[r] * Weight(z, r) \in Int /\ v[r] * Weight(d, r) \in Int
    BY <1>3, <1>4
  <2> QED
    BY <1>1, <1>3, <2>2, <2>3 DEF WeightedOn
<1> HIDE DEF On
<1>6. SumOver(On(m), S) = SumOver(On(z), S) + SumOver(On(d), S)
    BY <1>3, <1>5, SumAdds
<1>7. SumOver(On(z), S) \in Int /\ SumOver(On(d), S) \in Int
    BY <1>3, <1>5, SumType
<1>8. /\ SumOver(Weighted(v, z), Among(z, P)) = SumOver(On(z), S)
      /\ SumOver(Weighted(v, d), Among(d, P)) = SumOver(On(d), S)
      /\ SumOver(Weighted(v, m), Among(m, P)) = SumOver(On(m), S)
    BY <1>1, <1>2, <1>4
<1> QED
    BY <1>6, <1>7, <1>8 DEF m

\* With the factor 1: the weights themselves.
LEMMA MergedSum ==
    ASSUME NEW z, IsZSet(z), NEW d, IsZSet(d), NEW P
    PROVE  /\ SumOver(Merge(z, d), Among(Merge(z, d), P)) =
                SumOver(z, Among(z, P)) + SumOver(d, Among(d, P))
           /\ SumOver(z, Among(z, P)) \in Int /\ SumOver(d, Among(d, P)) \in Int
<1> DEFINE U == DOMAIN z \cup DOMAIN d
           v == [r \in U |-> 1]
           m == Merge(z, d)
<1>1. ASSUME NEW y, IsZSet(y), DOMAIN y \subseteq U
      PROVE  SumOver(Weighted(v, y), Among(y, P)) = SumOver(y, Among(y, P))
  <2>1. \A r \in Among(y, P) : Weighted(v, y)[r] = y[r]
    BY <1>1 DEF Weighted, IsZSet, Canonical, Among
  <2>2. IsFiniteSet(Among(y, P))
    BY <1>1, FS_Subset DEF IsZSet, Among
  <2> HIDE DEF v
  <2> QED
    BY <2>1, <2>2, SumSame
<1>2. IsZSet(m) /\ DOMAIN m \subseteq U
    BY MergeAdds
<1>3. /\ IsFactor(v, U) /\ IsFiniteSet(U)
      /\ DOMAIN z \subseteq U /\ DOMAIN d \subseteq U
  <2>1. IsFiniteSet(U)
    BY FS_Union DEF IsZSet
  <2>2. \A r \in U : v[r] \in Int
    OBVIOUS
  <2> HIDE DEF v
  <2> QED
    BY <2>1, <2>2 DEF IsFactor
<1> HIDE DEF v, U
<1>4. /\ SumOver(Weighted(v, m), Among(m, P)) =
            SumOver(Weighted(v, z), Among(z, P)) + SumOver(Weighted(v, d), Among(d, P))
      /\ SumOver(Weighted(v, z), Among(z, P)) \in Int
      /\ SumOver(Weighted(v, d), Among(d, P)) \in Int
    BY <1>3, WeightedSumAdds
<1> HIDE DEF m
<1> QED
    BY <1>1, <1>2, <1>3, <1>4 DEF m

-----------------------------------------------------------------------------
(***************************************************************************)
(* Sums taken group by group.                                              *)
(***************************************************************************)
LEMMA SumScaled ==
    ASSUME NEW S, IsFiniteSet(S), NEW m \in Int, NEW f, NEW g,
           \A x \in S : f[x] \in Int /\ g[x] = f[x] * m
    PROVE  SumOver(g, S) = SumOver(f, S) * m
<1> DEFINE Good == {s \in SUBSET S : SumOver(g, s) = SumOver(f, s) * m}
<1>1. ASSUME NEW s \in SUBSET S, \A t \in SUBSET s : t # s => t \in Good
      PROVE  s \in Good
  <2>1. IsFiniteSet(s)
    BY FS_Subset
  <2>2. CASE s = {}
    <3>1. SumOver(f, s) = 0 /\ SumOver(g, s) = 0
        BY <2>2, SumEmpty
    <3> QED
        BY <3>1
  <2>3. CASE s # {}
    <3> DEFINE c == One(s)
               t == s \ {c}
    <3>1. c \in s /\ t \in SUBSET s /\ t # s
        BY <2>3, OneIsMember
    <3>2. SumOver(g, t) = SumOver(f, t) * m
        BY <1>1, <3>1
    <3>3. \A x \in S : g[x] \in Int
        BY Distributes
    <3>4. f[c] \in Int /\ g[c] = f[c] * m
        BY <3>1
    <3>5. IsFiniteSet(t) /\ \A x \in t : f[x] \in Int
        BY <2>1, FS_Subset
    <3>6. SumOver(f, t) \in Int
        BY <3>5, SumType
    <3> HIDE DEF c
    <3>7. SumOver(g, s) = g[c] + SumOver(g, t)
        BY <2>1, <3>1, <3>3, SumTakes
    <3>8. SumOver(f, s) = f[c] + SumOver(f, t)
        BY <2>1, <3>1, SumTakes
    <3> HIDE DEF t
    <3>9. (f[c] + SumOver(f, t)) * m = f[c] * m + SumOver(f, t) * m
        BY <3>4, <3>6, Distributes
    <3> QED
        BY <3>2, <3>4, <3>7, <3>8, <3>9
  <2> QED
    BY <2>2, <2>3
<1>2. \A s \in SUBSET S : s \in Good
  <2> HIDE DEF Good
  <2> QED
    BY <1>1, SubsetInduction
<1> QED
    BY <1>2

\* The members of S, each of which stands for one of U.
LEMMA SumGrouped ==
    ASSUME NEW S, IsFiniteSet(S), NEW U, IsFiniteSet(U),
           NEW p, \A x \in S : p[x] \in U, NEW w, \A x \in S : w[x] \in Int,
           NEW g, \A u \in U : g[u] = SumOver(w, Standing(p, S, u))
    PROVE  SumOver(g, U) = SumOver(w, S)
<1> DEFINE H(s) == [u \in U |-> SumOver(w, Standing(p, s, u))]
           Good == {s \in SUBSET S : SumOver(H(s), U) = SumOver(w, s)}
<1>1. ASSUME NEW s \in SUBSET S, \A t \in SUBSET s : t # s => t \in Good
      PROVE  s \in Good
  <2>1. IsFiniteSet(s)
    BY FS_Subset
  <2>2. \A t \in SUBSET S : \A u \in U : SumOver(w, Standing(p, t, u)) \in Int
    <3> SUFFICES ASSUME NEW t \in SUBSET S, NEW u \in U
                 PROVE  SumOver(w, Standing(p, t, u)) \in Int
        OBVIOUS
    <3>1. IsFiniteSet(Standing(p, t, u)) /\ \A x \in Standing(p, t, u) : w[x] \in Int
        BY FS_Subset DEF Standing
    <3> QED
        BY <3>1, SumType
  <2>3. CASE s = {}
    <3> DEFINE h == H(s)
    <3>1. \A u \in U : Standing(p, s, u) = {}
        BY <2>3 DEF Standing
    <3>2. \A u \in U : h[u] = 0
        BY <3>1, SumEmpty
    <3>3. {} \in SUBSET U
        OBVIOUS
    <3> HIDE DEF h
    <3>4. SumOver(h, U) = SumOver(h, {})
        BY <3>2, <3>3, SumOverSupport
    <3>5. SumOver(h, U) = SumOver(w, s)
        BY <2>3, <3>4, SumEmpty
    <3> QED
        BY <3>5 DEF h
  <2>4. CASE s # {}
    <3> DEFINE c == One(s)
               t == s \ {c}
               hs == H(s)
               ht == H(t)
               d == [u \in U |-> IF u = p[c] THEN w[c] ELSE 0]
    <3>1. c \in s /\ t \in SUBSET s /\ t # s /\ t \in SUBSET S
        BY <2>4, OneIsMember
    <3>2. SumOver(ht, U) = SumOver(w, t)
        BY <1>1, <3>1
    <3>3. w[c] \in Int /\ p[c] \in U
        BY <3>1
    <3> HIDE DEF c
    <3>4. ASSUME NEW u \in U PROVE hs[u] \in Int /\ ht[u] \in Int /\ hs[u] = ht[u] + d[u]
      <4>1. hs[u] = SumOver(w, Standing(p, s, u)) /\ hs[u] \in Int
        BY <2>2
      <4>2. ht[u] = SumOver(w, Standing(p, t, u)) /\ ht[u] \in Int
        BY <2>2, <3>1
      <4>3. CASE u = p[c]
        <5> DEFINE A == Standing(p, s, u)
        <5>1. c \in A /\ A \ {c} = Standing(p, t, u)
            BY <3>1, <4>3 DEF Standing
        <5>2. IsFiniteSet(A) /\ \A x \in A : w[x] \in Int
            BY <2>1, FS_Subset DEF Standing
        <5> HIDE DEF A
        <5>3. SumOver(w, A) = w[c] + SumOver(w, A \ {c})
            BY <5>1, <5>2, SumTakes
        <5> QED
            BY <3>3, <4>1, <4>2, <4>3, <5>1, <5>3 DEF A
      <4>4. CASE u # p[c]
        <5>1. Standing(p, s, u) = Standing(p, t, u)
            BY <4>4 DEF Standing
        <5> QED
            BY <4>1, <4>2, <4>4, <5>1
      <4> QED
        BY <4>3, <4>4
    <3>5. \A u \in U : d[u] \in Int
        BY <3>3
    <3>6. SumOver(d, U) = w[c]
      <4>1. {p[c]} \in SUBSET U /\ \A u \in U \ {p[c]} : d[u] = 0
        BY <3>3
      <4>2. d[p[c]] = w[c]
        BY <3>3
      <4> HIDE DEF d
      <4>3. SumOver(d, U) = SumOver(d, {p[c]})
        BY <3>5, <4>1, SumOverSupport
      <4> QED
        BY <3>3, <4>2, <4>3, SumOfOne
    <3>7. SumOver(w, s) = w[c] + SumOver(w, t)
        BY <2>1, <3>1, SumTakes
    <3>8. SumOver(ht, U) \in Int
      <4> HIDE DEF ht
      <4> QED
        BY <3>4, SumType
    <3> HIDE DEF hs, ht, d, t
    <3>9. SumOver(hs, U) = SumOver(ht, U) + SumOver(d, U)
        BY <3>4, <3>5, SumAdds
    <3>10. SumOver(hs, U) = SumOver(w, s)
        BY <3>2, <3>3, <3>6, <3>7, <3>8, <3>9
    <3> QED
        BY <3>10 DEF hs
  <2> QED
    BY <2>3, <2>4
<1>2. SumOver(H(S), U) = SumOver(w, S)
  <2>1. \A s \in SUBSET S : s \in Good
    <3> HIDE DEF Good
    <3> QED
        BY <1>1, SubsetInduction
  <2> QED
    BY <2>1
<1>3. \A u \in U : g[u] = H(S)[u]
    OBVIOUS
<1> DEFINE h == H(S)
<1>4. SumOver(g, U) = SumOver(h, U)
  <2>1. \A u \in U : g[u] = h[u]
    BY <1>3
  <2> HIDE DEF h
  <2> QED
    BY <2>1, SumSame
<1> QED
    BY <1>2, <1>4

LEMMA SumProduct ==
    ASSUME NEW A, IsFiniteSet(A), NEW B, IsFiniteSet(B),
           NEW f, \A a \in A : f[a] \in Int, NEW g, \A b \in B : g[b] \in Int,
           NEW h, \A x \in A \X B : h[x] = f[x[1]] * g[x[2]]
    PROVE  SumOver(h, A \X B) = SumOver(f, A) * SumOver(g, B)
<1> DEFINE S == A \X B
           p == [x \in S |-> x[2]]
           total == [b \in B |-> SumOver(h, Standing(p, S, b))]
           m == SumOver(f, A)
<1>1. IsFiniteSet(S) /\ \A x \in S : p[x] \in B
    BY FS_Product
<1>2. \A x \in S : h[x] \in Int
  <2> SUFFICES ASSUME NEW x \in S PROVE h[x] \in Int
    OBVIOUS
  <2>1. f[x[1]] \in Int /\ g[x[2]] \in Int
    OBVIOUS
  <2>2. f[x[1]] * g[x[2]] \in Int
    BY <2>1, Distributes
  <2> QED
    BY <2>2
<1>3. m \in Int /\ SumOver(g, B) \in Int
    BY SumType
<1>4. ASSUME NEW b \in B PROVE total[b] = g[b] * m
  <2> DEFINE e == [a \in A |-> <<a, b>>]
             fb == [a \in A |-> f[a] * g[b]]
  <2>1. \A i, j \in A : e[i] = e[j] => i = j
    OBVIOUS
  <2>2. \A a \in A : e[a] \in S /\ fb[a] = h[e[a]]
    OBVIOUS
  <2>3. \A a \in A : h[e[a]] \in Int /\ fb[a] = h[e[a]]
    BY <1>2, <2>2
  <2>4. Standing(p, S, b) = {e[a] : a \in A}
    BY DEF Standing
  <2>5. \A a \in A : f[a] \in Int /\ fb[a] = f[a] * g[b]
    OBVIOUS
  <2> HIDE DEF e, fb, S, p
  <2>6. SumOver(fb, A) = SumOver(h, {e[a] : a \in A})
    BY <2>1, <2>3, SumReindexed
  <2>7. SumOver(fb, A) = SumOver(f, A) * g[b]
    BY <2>5, SumScaled
  <2>8. m * g[b] = g[b] * m
    <3> HIDE DEF m
    <3> QED
        BY <1>3
  <2> QED
    BY <2>4, <2>6, <2>7, <2>8
<1>5. \A b \in B : total[b] = SumOver(h, Standing(p, S, b))
    OBVIOUS
<1> HIDE DEF total, p, S, m
<1>6. SumOver(total, B) = SumOver(h, S)
    BY <1>1, <1>2, <1>5, SumGrouped
<1>7. SumOver(total, B) = SumOver(g, B) * m
    BY <1>3, <1>4, SumScaled
<1>8. SumOver(g, B) * m = m * SumOver(g, B)
    BY <1>3
<1> QED
    BY <1>6, <1>7, <1>8 DEF S, m

(***************************************************************************)
(* A Z-set lists the members of C if each c adds w[c] to the weight of the *)
(* row p[c].  What the operators make of a Z-set, they make of the list.   *)
(***************************************************************************)
Lists(z, C, p, w) ==
    /\ IsZSet(z)
    /\ IsFiniteSet(C)
    /\ \A c \in C : w[c] \in Int
    /\ \A row : Weight(z, row) = SumOver(w, Standing(p, C, row))

LEMMA ListedRows ==
    ASSUME NEW z, NEW C, NEW p, NEW w, Lists(z, C, p, w)
    PROVE  DOMAIN z \subseteq {p[c] : c \in C}
<1> SUFFICES ASSUME NEW row \in DOMAIN z PROVE \E c \in C : p[c] = row
    OBVIOUS
<1>1. Weight(z, row) # 0
    BY WeightType DEF Lists
<1>2. SumOver(w, Standing(p, C, row)) # 0
    BY <1>1 DEF Lists
<1>3. Standing(p, C, row) # {}
    BY <1>2, SumEmpty
<1> QED
    BY <1>3 DEF Standing

\* A sum over the rows that are in Q, each counted with a factor.
LEMMA ListedSum ==
    ASSUME NEW z, NEW C, NEW p, NEW w, Lists(z, C, p, w), NEW Q,
           NEW v, \A c \in C : v[p[c]] \in Int,
           NEW f, \A r \in Among(z, Q) : f[r] = v[r] * z[r],
           NEW g, \A c \in C : g[c] = v[p[c]] * w[c]
    PROVE  SumOver(f, Among(z, Q)) = SumOver(g, {c \in C : p[c] \in Q})
<1> DEFINE S == {c \in C : p[c] \in Q}
           U == {p[c] : c \in S}
           T == Among(z, Q)
           h == [u \in U |-> v[u] * Weight(z, u)]
<1>1. IsFiniteSet(S) /\ IsFiniteSet(U) /\ IsFiniteSet(T)
  <2>1. IsFiniteSet(S)
    BY FS_Subset DEF Lists
  <2>2. IsFiniteSet(U)
    <3> HIDE DEF S
    <3> QED
        BY <2>1, ImageIsFinite
  <2>3. T \in SUBSET DOMAIN z /\ IsFiniteSet(DOMAIN z)
    BY DEF Lists, IsZSet, Among
  <2> QED
    BY <2>1, <2>2, <2>3, FS_Subset
<1>2. \A c \in C : g[c] \in Int /\ w[c] \in Int
  <2> SUFFICES ASSUME NEW c \in C PROVE g[c] \in Int /\ w[c] \in Int
    OBVIOUS
  <2>1. w[c] \in Int /\ v[p[c]] \in Int
    BY DEF Lists
  <2>2. v[p[c]] * w[c] \in Int
    BY <2>1, Distributes
  <2> QED
    BY <2>1, <2>2
<1>3. ASSUME NEW u \in U
      PROVE  h[u] \in Int /\ h[u] = SumOver(g, Standing(p, S, u))
  <2> DEFINE A == Standing(p, C, u)
  <2>1. Standing(p, S, u) = A
    BY DEF Standing
  <2>2. v[u] \in Int /\ Weight(z, u) \in Int
    BY WeightType DEF Lists
  <2>3. \A c \in A : w[c] \in Int /\ g[c] = w[c] * v[u]
    <3> SUFFICES ASSUME NEW c \in A PROVE w[c] \in Int /\ g[c] = w[c] * v[u]
        OBVIOUS
    <3>1. c \in C /\ p[c] = u
        BY DEF Standing
    <3>2. g[c] = v[u] * w[c] /\ w[c] \in Int
        BY <1>2, <3>1
    <3> QED
        BY <2>2, <3>2
  <2>4. IsFiniteSet(A)
    BY FS_Subset DEF Lists, Standing
  <2> HIDE DEF A
  <2>5. SumOver(g, A) = SumOver(w, A) * v[u]
    BY <2>2, <2>3, <2>4, SumScaled
  <2>6. SumOver(w, A) = Weight(z, u)
    BY DEF Lists, A
  <2>7. Weight(z, u) * v[u] = v[u] * Weight(z, u) /\ v[u] * Weight(z, u) \in Int
    BY <2>2, Distributes
  <2> QED
    BY <2>1, <2>5, <2>6, <2>7
<1>4. SumOver(h, U) = SumOver(g, S)
  <2>1. \A c \in S : p[c] \in U /\ g[c] \in Int
    BY <1>2
  <2> HIDE DEF h, U, S
  <2> QED
    BY <1>1, <1>3, <2>1, SumGrouped
<1>5. SumOver(h, U) = SumOver(h, T)
  <2>1. T \in SUBSET U
    BY ListedRows DEF Among
  <2>2. ASSUME NEW u \in U \ T PROVE h[u] = 0
    <3>1. u \notin DOMAIN z /\ v[u] \in Int
        BY DEF Among
    <3>2. Weight(z, u) = 0
        BY <3>1 DEF Weight
    <3>3. v[u] * 0 = 0
        BY <3>1
    <3> QED
        BY <3>2, <3>3
  <2> HIDE DEF h, U, T
  <2> QED
    BY <1>1, <1>3, <2>1, <2>2, SumOverSupport
<1>6. SumOver(h, T) = SumOver(f, T)
  <2>1. \A u \in T : h[u] = f[u]
    BY ListedRows DEF Among, Weight
  <2> HIDE DEF h, T
  <2> QED
    BY <1>1, <2>1, SumSame
<1> QED
    BY <1>4, <1>5, <1>6

LEMMA ListedFilter ==
    ASSUME NEW z, NEW C, NEW p, NEW w, Lists(z, C, p, w),
           NEW passing, NEW D, D = {c \in C : p[c] \in passing},
           NEW some, \A row \in DOMAIN z : row \in some <=> row \in passing
    PROVE  Lists(Filter(z, some), D, p, w)
<1> DEFINE y == Filter(z, some)
<1>1. /\ DOMAIN y = DOMAIN z \cap passing /\ y = [r \in DOMAIN y |-> y[r]]
      /\ \A r \in DOMAIN y : y[r] = z[r]
    BY DEF Filter, Restrict
<1> HIDE DEF y
<1>2. IsZSet(y)
  <2>1. IsFiniteSet(DOMAIN y)
    BY <1>1, FS_Subset DEF Lists, IsZSet
  <2> QED
    BY <1>1, <2>1 DEF Lists, IsZSet, Canonical
<1>3. IsFiniteSet(D) /\ \A c \in D : w[c] \in Int
    BY FS_Subset DEF Lists
<1>4. ASSUME NEW row PROVE Weight(y, row) = SumOver(w, Standing(p, D, row))
  <2>1. CASE row \in passing
    <3>1. Standing(p, D, row) = Standing(p, C, row)
        BY <2>1 DEF Standing
    <3>2. Weight(y, row) = Weight(z, row)
        BY <1>1, <2>1 DEF Weight
    <3> QED
        BY <3>1, <3>2 DEF Lists
  <2>2. CASE row \notin passing
    <3>1. Standing(p, D, row) = {}
        BY <2>2 DEF Standing
    <3>2. Weight(y, row) = 0
        BY <1>1, <2>2 DEF Weight
    <3> QED
        BY <3>1, <3>2, SumEmpty
  <2> QED
    BY <2>1, <2>2
<1> QED
    BY <1>2, <1>3, <1>4 DEF Lists, y

LEMMA ListedMap ==
    ASSUME NEW z, NEW C, NEW p, NEW w, Lists(z, C, p, w),
           NEW k, NEW f, \A row \in DOMAIN z : f[row] = k[row],
           NEW q, \A c \in C : q[c] = k[p[c]]
    PROVE  Lists(Map(z, f), C, q, w)
<1>1. IsZSet(Map(z, f)) /\ \A r : Weight(Map(z, f), r) = SumOver(z, Standing(f, DOMAIN z, r))
    BY MapAdds DEF Lists
<1>2. ASSUME NEW row
      PROVE  SumOver(z, Standing(f, DOMAIN z, row)) = SumOver(w, Standing(q, C, row))
  <2> DEFINE Q == {r \in DOMAIN z \cup {p[c] : c \in C} : k[r] = row}
             one == [r \in DOMAIN z \cup {p[c] : c \in C} |-> 1]
  <2>1. Standing(f, DOMAIN z, row) = Among(z, Q)
    BY DEF Standing, Among
  <2>2. Standing(q, C, row) = {c \in C : p[c] \in Q}
    BY DEF Standing
  <2>3. /\ \A c \in C : one[p[c]] \in Int /\ w[c] = one[p[c]] * w[c]
        /\ \A r \in Among(z, Q) : z[r] = one[r] * z[r]
    BY DEF Lists, IsZSet, Canonical, Among
  <2> HIDE DEF Q, one
  <2>4. SumOver(z, Among(z, Q)) = SumOver(w, {c \in C : p[c] \in Q})
    BY <2>3, ListedSum
  <2> QED
    BY <2>1, <2>2, <2>4
<1> QED
    BY <1>1, <1>2 DEF Lists

\* The list may be written in another way.
LEMMA ListedAgain ==
    ASSUME NEW z, NEW C, NEW p, NEW w, Lists(z, C, p, w),
           NEW D, IsFiniteSet(D), NEW e, {e[d] : d \in D} = C,
           \A i, j \in D : e[i] = e[j] => i = j,
           NEW q, NEW v, \A d \in D : q[d] = p[e[d]] /\ v[d] = w[e[d]]
    PROVE  Lists(z, D, q, v)
<1>1. \A d \in D : e[d] \in C /\ v[d] \in Int /\ w[e[d]] \in Int
    BY DEF Lists
<1>2. ASSUME NEW row PROVE SumOver(v, Standing(q, D, row)) = SumOver(w, Standing(p, C, row))
  <2> DEFINE A == Standing(q, D, row)
  <2>1. IsFiniteSet(A) /\ \A i, j \in A : e[i] = e[j] => i = j
    BY FS_Subset DEF Standing
  <2>2. \A d \in A : w[e[d]] \in Int /\ v[d] = w[e[d]]
    BY <1>1 DEF Standing
  <2>3. {e[d] : d \in A} = Standing(p, C, row)
    BY <1>1 DEF Standing
  <2> HIDE DEF A
  <2>4. SumOver(v, A) = SumOver(w, {e[d] : d \in A})
    BY <2>1, <2>2, SumReindexed
  <2> QED
    BY <2>3, <2>4 DEF A
<1> QED
    BY <1>1, <1>2 DEF Lists

LEMMA ListedJoin ==
    ASSUME NEW y, NEW C, NEW p, NEW w, Lists(y, C, p, w),
           NEW z, NEW D, NEW q, NEW v, Lists(z, D, q, v), NEW leftKey, NEW rightKey,
           NEW M, M = {x \in C \X D : Get(p[x[1]], leftKey) = Get(q[x[2]], rightKey)},
           NEW k, \A x \in M : k[x] = JoinedRow(p[x[1]], q[x[2]]),
           NEW h, \A x \in M : h[x] = w[x[1]] * v[x[2]]
    PROVE  Lists(Probe(y, z, leftKey, rightKey), M, k, h)
<1> DEFINE P == Probe(y, z, leftKey, rightKey)
           f == Products(y, z)
<1>1. /\ IsZSet(y) /\ IsFiniteSet(C) /\ \A c \in C : w[c] \in Int
      /\ IsZSet(z) /\ IsFiniteSet(D) /\ \A d \in D : v[d] \in Int
    BY DEF Lists
<1>2. /\ IsZSet(P)
      /\ \A r : Weight(P, r) =
            SumOver(f, Standing(JoinedRows(y, z), Matching(y, z, leftKey, rightKey), r))
    BY <1>1, ProbeAdds
<1>3. IsFiniteSet(M)
    BY <1>1, FS_Product, FS_Subset
<1>4. \A x \in M : h[x] \in Int
  <2> SUFFICES ASSUME NEW x \in M PROVE h[x] \in Int
    OBVIOUS
  <2>1. w[x[1]] \in Int /\ v[x[2]] \in Int
    BY <1>1
  <2>2. w[x[1]] * v[x[2]] \in Int
    BY <2>1, Distributes
  <2> QED
    BY <2>2
<1> HIDE DEF P, f
<1>5. ASSUME NEW row
      PROVE  SumOver(f, Standing(JoinedRows(y, z), Matching(y, z, leftKey, rightKey), row)) =
                SumOver(h, Standing(k, M, row))
  <2> DEFINE S == Standing(k, M, row)
             pair == [x \in S |-> <<p[x[1]], q[x[2]]>>]
             U == {pair[x] : x \in S}
             T == Standing(JoinedRows(y, z), Matching(y, z, leftKey, rightKey), row)
             g == [u \in U |-> Weight(y, u[1]) * Weight(z, u[2])]
  <2>1. IsFiniteSet(S) /\ \A x \in S : h[x] \in Int
    BY <1>3, <1>4, FS_Subset DEF Standing
  <2>2. IsFiniteSet(U)
    <3> HIDE DEF S, pair
    <3> QED
        BY <2>1, ImageIsFinite
  <2>3. \A c \in C, d \in D :
            LET x == <<c, d>> IN
            x \in S <=> /\ Get(p[c], leftKey) = Get(q[d], rightKey)
                        /\ JoinedRow(p[c], q[d]) = row
    BY DEF Standing
  <2>4. \A x \in S : x \in C \X D /\ x = <<x[1], x[2]>> /\ pair[x] = <<p[x[1]], q[x[2]]>>
    BY DEF Standing
  <2>5. ASSUME NEW u \in U
        PROVE  g[u] \in Int /\ g[u] = SumOver(h, Standing(pair, S, u))
    <3> DEFINE A == Standing(p, C, u[1])
               B == Standing(q, D, u[2])
    <3>1. PICK x \in S : u = <<p[x[1]], q[x[2]]>>
        BY <2>4
    <3>2. /\ Get(u[1], leftKey) = Get(u[2], rightKey)
          /\ JoinedRow(u[1], u[2]) = row
          /\ u = <<u[1], u[2]>>
        BY <2>3, <2>4, <3>1
    <3>3. Standing(pair, S, u) = A \X B
      <4>1. ASSUME NEW t \in Standing(pair, S, u) PROVE t \in A \X B
        <5>1. t \in S /\ pair[t] = u
            BY DEF Standing
        <5> QED
            BY <2>4, <5>1 DEF Standing
      <4>2. ASSUME NEW t \in A \X B PROVE t \in Standing(pair, S, u)
        <5>1. /\ t[1] \in C /\ t[2] \in D /\ t = <<t[1], t[2]>>
              /\ p[t[1]] = u[1] /\ q[t[2]] = u[2]
            BY DEF Standing
        <5>2. t \in S
            BY <2>3, <3>2, <5>1
        <5>3. pair[t] = u
            BY <2>4, <3>2, <5>1, <5>2
        <5> HIDE DEF pair, S
        <5> QED
            BY <5>2, <5>3 DEF Standing
      <4> QED
        BY <4>1, <4>2
    <3>4. /\ IsFiniteSet(A) /\ IsFiniteSet(B)
          /\ \A a \in A : w[a] \in Int
          /\ \A b \in B : v[b] \in Int
        BY <1>1, FS_Subset DEF Standing
    <3>5. \A t \in A \X B : h[t] = w[t[1]] * v[t[2]]
      <4>1. \A t \in A \X B : t \in M
        BY <3>3 DEF Standing
      <4> QED
        BY <4>1
    <3>6. Weight(y, u[1]) = SumOver(w, A) /\ Weight(z, u[2]) = SumOver(v, B)
        BY DEF Lists
    <3>7. g[u] = Weight(y, u[1]) * Weight(z, u[2])
        OBVIOUS
    <3> HIDE DEF A, B, g
    <3>8. SumOver(h, A \X B) = SumOver(w, A) * SumOver(v, B)
        BY <3>4, <3>5, SumProduct
    <3>9. SumOver(w, A) \in Int /\ SumOver(v, B) \in Int
        BY <3>4, SumType
    <3>10. SumOver(w, A) * SumOver(v, B) \in Int
        BY <3>9, Distributes
    <3> QED
        BY <3>3, <3>6, <3>7, <3>8, <3>10
  <2>6. SumOver(g, U) = SumOver(h, S)
    <3>1. \A x \in S : pair[x] \in U
        OBVIOUS
    <3> HIDE DEF g, U, S, pair
    <3> QED
        BY <2>1, <2>2, <2>5, <3>1, SumGrouped
  <2>7. ASSUME NEW u \in T PROVE u \in U /\ g[u] = f[u]
    <3>1. /\ u \in (DOMAIN y) \X (DOMAIN z)
          /\ Get(u[1], leftKey) = Get(u[2], rightKey)
          /\ JoinedRow(u[1], u[2]) = row
        BY DEF Standing, Matching, JoinedRows
    <3>2. PICK c \in C, d \in D : p[c] = u[1] /\ q[d] = u[2]
        BY <3>1, ListedRows
    <3>3. <<c, d>> \in S
        BY <2>3, <3>1, <3>2
    <3>4. pair[<<c, d>>] = u
        BY <3>1, <3>2, <3>3
    <3>5. u \in U
        BY <3>3, <3>4
    <3> QED
        BY <3>1, <3>5 DEF f, Products, Weight
  <2>8. ASSUME NEW u \in U \ T PROVE g[u] = 0
    <3>1. PICK x \in S : u = <<p[x[1]], q[x[2]]>>
        BY <2>4
    <3>2. /\ Get(u[1], leftKey) = Get(u[2], rightKey)
          /\ JoinedRow(u[1], u[2]) = row
          /\ u = <<u[1], u[2]>>
        BY <2>3, <2>4, <3>1
    <3>3. u[1] \notin DOMAIN y \/ u[2] \notin DOMAIN z
        BY <3>2 DEF Standing, Matching, JoinedRows
    <3>4. Weight(y, u[1]) \in Int /\ Weight(z, u[2]) \in Int
        BY <1>1, WeightType
    <3>5. Weight(y, u[1]) = 0 \/ Weight(z, u[2]) = 0
        BY <3>3 DEF Weight
    <3>6. Weight(y, u[1]) * Weight(z, u[2]) = 0
        BY <3>4, <3>5
    <3> QED
        BY <3>6
  <2> HIDE DEF g, U, T, S
  <2>9. T \in SUBSET U /\ IsFiniteSet(T)
    BY <2>2, <2>7, FS_Subset
  <2>10. SumOver(g, U) = SumOver(g, T)
    BY <2>2, <2>5, <2>8, <2>9, SumOverSupport
  <2>11. SumOver(g, T) = SumOver(f, T)
    BY <2>7, <2>9, SumSame
  <2> QED
    BY <2>6, <2>10, <2>11 DEF S, T
<1> QED
    BY <1>1, <1>2, <1>3, <1>4, <1>5 DEF Lists, P
=============================================================================
