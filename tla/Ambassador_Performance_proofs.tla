------------------- MODULE Ambassador_Performance_proofs -------------------
(***************************************************************************)
(* Proofs about the two modules that add money up, from the same lemmas on  *)
(* sums: the ambassador programme, for every downline, plan, price, set of  *)
(* milestones, bonuses by hand and months, and every order of cycles,       *)
(* requests by hand, churn and rollbacks; and what the platform says about  *)
(* its results, for every set of trades, members, results and balances.     *)
(*                                                                          *)
(* Sums come first: what the community modules' SumFunctionOnSet is worth   *)
(* when an element is added, over a disjoint union, of equal amounts.       *)
(* Then the invariants of Ambassador:                                       *)
(*   Base      types, the numbering of copies, what is left of a request;   *)
(*   PaidOK    items of payouts, in the ledger and in what a rollback       *)
(*             would bring back;                                            *)
(*   EarnedOK  rewards_earned is the sum of the rows it is about, in both;  *)
(*   PoolOK    a pool calculated once is shared out, in both;               *)
(* and those of Performance:                                                *)
(*   TableOK     what the executions table holds, and when it is dated;     *)
(*   CapturesOK  captures after what is stored, in order;                   *)
(*   StageOK     a report is at a section of its plan;                      *)
(*   OverviewOK  an overview shows what the snapshots say;                  *)
(*   TotalsOK    the totals of a report are those of the closed trades, or  *)
(*               no more than those when some closed meanwhile;             *)
(*   AgreesOK    the section read last agrees with the totals.              *)
(***************************************************************************)
EXTENDS Ambassador, Performance, FiniteSetTheorems, TLAPS

(* Finite sets and sums over them.  Induction over a finite set is stated  *)
(* with the set T of the subsets it holds of.                              *)

\* What holds of a subset once it holds of all smaller ones, holds of all.
LEMMA SubsetInduction ==
    ASSUME NEW S, IsFiniteSet(S), NEW T,
           \A s \in SUBSET S : (\A t \in SUBSET s : t # s => t \in T) => s \in T
    PROVE  \A s \in SUBSET S : s \in T
<1> DEFINE Bad == {s \in SUBSET S : s \notin T}
<1> SUFFICES ASSUME Bad # {} PROVE FALSE
  OBVIOUS
<1>1. Bad \subseteq FiniteSubsetsOf(S)
  BY FS_Subset DEF FiniteSubsetsOf
<1>2. IsWellFoundedOn(StrictSubsetOrdering(S), FiniteSubsetsOf(S))
  BY FS_StrictSubsetOrderingWellFounded
<1>3. PICK x \in Bad : \A y \in Bad : ~(<<y, x>> \in StrictSubsetOrdering(S))
  <2> HIDE DEF Bad
  <2> QED BY <1>1, <1>2, WFMin
<1>4. \A t \in SUBSET x : t # x => t \in T
  BY <1>3 DEF StrictSubsetOrdering
<1> QED BY <1>3, <1>4

\* What holds of the empty set and with every element more, holds of all.
LEMMA ElementInduction ==
    ASSUME NEW S, IsFiniteSet(S), NEW T, {} \in T,
           \A s \in SUBSET S : \A x \in S \ s : s \in T => s \union {x} \in T
    PROVE  \A s \in SUBSET S : s \in T
<1>1. ASSUME NEW s \in SUBSET S, \A t \in SUBSET s : t # s => t \in T
      PROVE  s \in T
  <2>1. CASE s = {}
    BY <2>1
  <2>2. CASE s # {}
    <3>1. PICK x \in s : TRUE
      BY <2>2
    <3>2. s \ {x} \in SUBSET s /\ s \ {x} # s /\ s = (s \ {x}) \union {x}
      BY <3>1
    <3>3. s \ {x} \in T
      BY <1>1, <3>2
    <3>4. s \ {x} \in SUBSET S /\ x \in S \ (s \ {x})
      BY <3>1
    <3>5. (s \ {x}) \union {x} \in T
      BY <3>3, <3>4
    <3> QED BY <3>2, <3>5
  <2> QED BY <2>1, <2>2
<1> QED BY <1>1, SubsetInduction

\* The recursion of a sum over the subsets of S.
Adds(f, S, g) ==
    g = [s \in SUBSET S |-> IF s = {} THEN 0
           ELSE LET x == CHOOSE y \in s : TRUE IN f[x] + g[s \ {x}]]

LEMMA SumIsRecursive ==
    ASSUME NEW f, NEW S
    PROVE  SumFunctionOnSet(f, S) = (CHOOSE g : Adds(f, S, g))[S]
BY DEF Adds, SumFunctionOnSet, FoldFunctionOnSet, MapThenFoldSet

First(s) == CHOOSE y \in s : TRUE

LEMMA AddsStep ==
    ASSUME NEW f, NEW S, NEW g, Adds(f, S, g), NEW s \in SUBSET S
    PROVE  /\ s = {} => g[s] = 0
           /\ s # {} => /\ First(s) \in s
                        /\ g[s] = f[First(s)] + g[s \ {First(s)}]
BY DEF Adds, First

\* Two recursions agree where both are defined.
LEMMA AddsAgree ==
    ASSUME NEW f, NEW S, IsFiniteSet(S), NEW A, NEW B, S \subseteq A, S \subseteq B,
           NEW g, NEW h, Adds(f, A, g), Adds(f, B, h)
    PROVE  g[S] = h[S]
<1> DEFINE T == {s \in SUBSET S : g[s] = h[s]}
<1>1. ASSUME NEW s \in SUBSET S, \A t \in SUBSET s : t # s => t \in T
      PROVE  s \in T
  <2>1. s \in SUBSET A /\ s \in SUBSET B
    OBVIOUS
  <2>2. CASE s = {}
    BY <2>1, <2>2, AddsStep
  <2>3. CASE s # {}
    <3> DEFINE r == s \ {First(s)}
    <3>1. /\ First(s) \in s
          /\ g[s] = f[First(s)] + g[r] /\ h[s] = f[First(s)] + h[r]
      BY <2>1, <2>3, AddsStep
    <3>2. r \in SUBSET s /\ r # s
      BY <3>1
    <3>3. g[r] = h[r]
      BY <1>1, <3>2
    <3> QED BY <3>1, <3>3
  <2> QED BY <2>2, <2>3
<1>2. \A s \in SUBSET S : s \in T
  <2> HIDE DEF T
  <2> QED BY <1>1, SubsetInduction
<1> QED BY <1>2

LEMMA AddsExists ==
    ASSUME NEW f, NEW S, IsFiniteSet(S)
    PROVE  \E g : Adds(f, S, g)
<1> DEFINE T == {s \in SUBSET S : \E g : Adds(f, s, g)}
<1>1. ASSUME NEW s \in SUBSET S, \A t \in SUBSET s : t # s => t \in T
      PROVE  s \in T
  <2> DEFINE G(t) == CHOOSE g : Adds(f, t, g)
             H == [u \in SUBSET s |-> IF u = {} THEN 0
                     ELSE f[First(u)] + G(u \ {First(u)})[u \ {First(u)}]]
  <2>1. ASSUME NEW t \in SUBSET s, t # s PROVE Adds(f, t, G(t))
    BY <1>1, <2>1
  <2>2. ASSUME NEW t \in SUBSET s, t # s PROVE H[t] = G(t)[t]
    <3>1. CASE t = {}
      BY <2>1, <2>2, <3>1, AddsStep
    <3>2. CASE t # {}
      <4> DEFINE r == t \ {First(t)}
      <4>1. First(t) \in t /\ G(t)[t] = f[First(t)] + G(t)[r]
        <5> HIDE DEF G
        <5> QED BY <2>1, <2>2, <3>2, AddsStep
      <4>2. r \in SUBSET s /\ r # s /\ r \subseteq t /\ IsFiniteSet(r)
        BY <4>1, <2>2, FS_Subset
      <4>3. G(t)[r] = G(r)[r]
        <5>1. Adds(f, r, G(r)) /\ Adds(f, t, G(t))
          BY <2>1, <2>2, <4>2
        <5> HIDE DEF G, r
        <5> QED BY <4>2, <5>1, AddsAgree
      <4>4. H[t] = f[First(t)] + G(r)[r]
        <5> HIDE DEF G
        <5> QED BY <2>2, <3>2
      <4> QED BY <4>1, <4>3, <4>4
    <3> QED BY <3>1, <3>2
  <2>3. Adds(f, s, H)
    <3>1. ASSUME NEW u \in SUBSET s
          PROVE  H[u] = IF u = {} THEN 0 ELSE f[First(u)] + H[u \ {First(u)}]
      <4>1. CASE u = {}
        BY <4>1
      <4>2. CASE u # {}
        <5>1. First(u) \in u
          BY <4>2 DEF First
        <5>2. u \ {First(u)} \in SUBSET s /\ u \ {First(u)} # s
          BY <5>1
        <5>3. H[u] = f[First(u)] + G(u \ {First(u)})[u \ {First(u)}]
          <6> HIDE DEF G
          <6> QED BY <4>2
        <5> HIDE DEF H, G
        <5> QED BY <2>2, <4>2, <5>2, <5>3
      <4> QED BY <4>1, <4>2
    <3>2. H = [u \in SUBSET s |-> H[u]]
      OBVIOUS
    <3> HIDE DEF H
    <3>3. H = [u \in SUBSET s |-> IF u = {} THEN 0 ELSE f[First(u)] + H[u \ {First(u)}]]
      BY <3>1, <3>2
    <3> QED BY <3>3 DEF Adds, First
  <2> QED BY <2>3
<1>2. \A s \in SUBSET S : s \in T
  <2> HIDE DEF T
  <2> QED BY <1>1, SubsetInduction
<1> QED BY <1>2

\* A sum takes its first element off.
LEMMA SumFirst ==
    ASSUME NEW f, NEW S, IsFiniteSet(S)
    PROVE  /\ SumFunctionOnSet(f, {}) = 0
           /\ S # {} => /\ First(S) \in S
                        /\ SumFunctionOnSet(f, S)
                             = f[First(S)] + SumFunctionOnSet(f, S \ {First(S)})
<1> DEFINE G(t) == CHOOSE g : Adds(f, t, g)
<1>1. ASSUME NEW t, IsFiniteSet(t) PROVE Adds(f, t, G(t)) /\ SumFunctionOnSet(f, t) = G(t)[t]
  BY <1>1, AddsExists, SumIsRecursive
<1> HIDE DEF G
<1>2. SumFunctionOnSet(f, {}) = 0
  <2>1. IsFiniteSet({})
    BY FS_EmptySet
  <2>2. Adds(f, {}, G({})) /\ SumFunctionOnSet(f, {}) = G({})[{}]
    BY <1>1, <2>1
  <2>3. {} \in SUBSET {}
    OBVIOUS
  <2> QED BY <2>2, <2>3, AddsStep
<1>3. ASSUME S # {}
      PROVE  First(S) \in S /\ SumFunctionOnSet(f, S) = f[First(S)] + SumFunctionOnSet(f, S \ {First(S)})
  <2> DEFINE r == S \ {First(S)}
  <2>1. First(S) \in S /\ G(S)[S] = f[First(S)] + G(S)[r]
    BY <1>1, <1>3, AddsStep
  <2>2. IsFiniteSet(r) /\ r \subseteq S
    BY FS_Subset
  <2>3. G(S)[r] = G(r)[r]
    <3>1. Adds(f, S, G(S)) /\ Adds(f, r, G(r))
      BY <1>1, <2>2
    <3> HIDE DEF r
    <3> QED BY <2>2, <3>1, AddsAgree
  <2> QED BY <1>1, <2>1, <2>2, <2>3
<1> QED BY <1>2, <1>3

\* The sum over nothing.
LEMMA SumEmpty == ASSUME NEW f PROVE SumFunctionOnSet(f, {}) = 0
BY FS_EmptySet, SumFirst

\* A sum is a whole number, and takes any of its elements off.
LEMMA SumTakes ==
    ASSUME NEW f, NEW S, IsFiniteSet(S), \A x \in S : f[x] \in Int
    PROVE  /\ SumFunctionOnSet(f, S) \in Int
           /\ \A x \in S : SumFunctionOnSet(f, S) = f[x] + SumFunctionOnSet(f, S \ {x})
<1> DEFINE Sum(s) == SumFunctionOnSet(f, s)
           T == {s \in SUBSET S : Sum(s) \in Int /\ \A x \in s : Sum(s) = f[x] + Sum(s \ {x})}
<1>1. \A s \in SUBSET S : IsFiniteSet(s)
  BY FS_Subset
<1>2. \A s \in SUBSET S : /\ Sum({}) = 0
                          /\ s # {} => First(s) \in s /\ Sum(s) = f[First(s)] + Sum(s \ {First(s)})
  BY <1>1, SumFirst
<1> HIDE DEF Sum
<1>3. ASSUME NEW s \in SUBSET S, \A t \in SUBSET s : t # s => t \in T
      PROVE  s \in T
  <2>1. CASE s = {}
    <3>1. Sum(s) = 0
      BY <1>2, <2>1
    <3> QED BY <2>1, <3>1
  <2>2. CASE s # {}
    <3> DEFINE e == First(s)
    <3>1. e \in s /\ Sum(s) = f[e] + Sum(s \ {e})
      BY <1>2, <2>2
    <3> HIDE DEF e
    <3>2. ASSUME NEW x \in s
          PROVE  /\ s \ {x} \in T /\ Sum(s \ {x}) \in Int /\ f[x] \in Int
                 /\ \A y \in s \ {x} : Sum(s \ {x}) = f[y] + Sum((s \ {x}) \ {y})
      <4>1. s \ {x} \in SUBSET s /\ s \ {x} # s
        OBVIOUS
      <4>2. s \ {x} \in T
        BY <1>3, <4>1
      <4> QED BY <4>2
    <3>3. Sum(s) \in Int
      BY <3>1, <3>2
    <3>4. ASSUME NEW x \in s, x # e PROVE Sum(s) = f[x] + Sum(s \ {x})
      <4>1. Sum(s \ {e}) = f[x] + Sum((s \ {e}) \ {x})
        BY <3>1, <3>2, <3>4
      <4>2. Sum(s \ {x}) = f[e] + Sum((s \ {x}) \ {e})
        BY <3>1, <3>2, <3>4
      <4>3. (s \ {e}) \ {x} = (s \ {x}) \ {e}
        OBVIOUS
      <4>4. Sum((s \ {e}) \ {x}) \in Int
        <5>1. (s \ {e}) \ {x} \in SUBSET s /\ (s \ {e}) \ {x} # s
          BY <3>1
        <5>2. (s \ {e}) \ {x} \in T
          BY <1>3, <5>1
        <5> QED BY <5>2
      <4> QED BY <3>1, <3>2, <4>1, <4>2, <4>3, <4>4
    <3> QED BY <3>1, <3>3, <3>4
  <2> QED BY <2>1, <2>2
<1>4. \A s \in SUBSET S : s \in T
  <2> HIDE DEF T
  <2> QED BY <1>3, SubsetInduction
<1>5. S \in T
  BY <1>4
<1> QED BY <1>5 DEF Sum

\* One element more.
LEMMA SumWith ==
    ASSUME NEW f, NEW S, IsFiniteSet(S), NEW e, e \notin S, \A x \in S \union {e} : f[x] \in Int
    PROVE  SumFunctionOnSet(f, S \union {e}) = SumFunctionOnSet(f, S) + f[e]
<1>1. IsFiniteSet(S \union {e})
  BY FS_AddElement
<1>2. (S \union {e}) \ {e} = S
  OBVIOUS
<1>3. SumFunctionOnSet(f, S \union {e}) = f[e] + SumFunctionOnSet(f, S)
  BY <1>1, <1>2, SumTakes
<1>4. SumFunctionOnSet(f, S) \in Int
  BY SumTakes
<1> QED BY <1>3, <1>4

\* Sums of equal numbers are equal.
LEMMA SumSame ==
    ASSUME NEW f, NEW g, NEW S, IsFiniteSet(S), \A x \in S : f[x] \in Int /\ f[x] = g[x]
    PROVE  SumFunctionOnSet(f, S) = SumFunctionOnSet(g, S)
<1> DEFINE T == {s \in SUBSET S : SumFunctionOnSet(f, s) = SumFunctionOnSet(g, s)}
<1>1. {} \in T
  BY SumEmpty
<1>2. ASSUME NEW s \in SUBSET S, NEW x \in S \ s, s \in T
      PROVE  s \union {x} \in T
  <2>1. IsFiniteSet(s)
    BY FS_Subset
  <2>2. SumFunctionOnSet(f, s \union {x}) = SumFunctionOnSet(f, s) + f[x]
    BY <2>1, SumWith
  <2>3. SumFunctionOnSet(g, s \union {x}) = SumFunctionOnSet(g, s) + g[x]
    BY <2>1, SumWith
  <2> QED BY <1>2, <2>2, <2>3
<1> HIDE DEF T
<1>3. S \in T
  BY <1>1, <1>2, ElementInduction
<1> QED BY <1>3 DEF T

\* Natural numbers sum up to one.
LEMMA SumIsNat ==
    ASSUME NEW f, NEW S, IsFiniteSet(S), \A x \in S : f[x] \in Nat
    PROVE  SumFunctionOnSet(f, S) \in Nat
<1> DEFINE T == {s \in SUBSET S : SumFunctionOnSet(f, s) \in Nat}
<1>1. {} \in T
  BY SumEmpty
<1>2. ASSUME NEW s \in SUBSET S, NEW x \in S \ s, s \in T
      PROVE  s \union {x} \in T
  <2>1. IsFiniteSet(s)
    BY FS_Subset
  <2>2. SumFunctionOnSet(f, s \union {x}) = SumFunctionOnSet(f, s) + f[x]
    BY <2>1, SumWith
  <2> QED BY <1>2, <2>2
<1> HIDE DEF T
<1>3. S \in T
  BY <1>1, <1>2, ElementInduction
<1> QED BY <1>3 DEF T

\* The sum of a disjoint union.
LEMMA SumUnion ==
    ASSUME NEW f, NEW A, NEW B, IsFiniteSet(A), IsFiniteSet(B), A \intersect B = {},
           \A x \in A \union B : f[x] \in Int
    PROVE  SumFunctionOnSet(f, A \union B) = SumFunctionOnSet(f, A) + SumFunctionOnSet(f, B)
<1> DEFINE T == {s \in SUBSET B :
                   SumFunctionOnSet(f, A \union s) = SumFunctionOnSet(f, A) + SumFunctionOnSet(f, s)}
<1>0. SumFunctionOnSet(f, A) \in Int
  BY SumTakes
<1>1. {} \in T
  <2>1. SumFunctionOnSet(f, {}) = 0 /\ A \union {} = A
    BY SumEmpty
  <2> QED BY <1>0, <2>1
<1>2. ASSUME NEW s \in SUBSET B, NEW x \in B \ s, s \in T
      PROVE  s \union {x} \in T
  <2>1. IsFiniteSet(s) /\ IsFiniteSet(A \union s)
    BY FS_Subset, FS_Union
  <2>2. SumFunctionOnSet(f, s \union {x}) = SumFunctionOnSet(f, s) + f[x]
    BY <2>1, SumWith
  <2>3. x \notin A \union s /\ A \union (s \union {x}) = (A \union s) \union {x}
    OBVIOUS
  <2>4. \A y \in (A \union s) \union {x} : f[y] \in Int
    OBVIOUS
  <2>5. SumFunctionOnSet(f, (A \union s) \union {x}) = SumFunctionOnSet(f, A \union s) + f[x]
    BY <2>1, <2>3, <2>4, SumWith
  <2>6. SumFunctionOnSet(f, s) \in Int /\ f[x] \in Int
    <3>1. \A y \in s : f[y] \in Int
      OBVIOUS
    <3> QED BY <2>1, <3>1, SumTakes
  <2>7. SumFunctionOnSet(f, A \union s) = SumFunctionOnSet(f, A) + SumFunctionOnSet(f, s)
    BY <1>2
  <2>8. SumFunctionOnSet(f, (A \union s) \union {x})
          = SumFunctionOnSet(f, A) + SumFunctionOnSet(f, s \union {x})
    BY <1>0, <2>2, <2>5, <2>6, <2>7
  <2> QED BY <2>3, <2>8
<1> HIDE DEF T
<1>3. B \in T
  BY <1>1, <1>2, ElementInduction
<1> QED BY <1>3 DEF T

\* Equal numbers sum up to a product.
LEMMA SumOfEqual ==
    ASSUME NEW f, NEW S, IsFiniteSet(S), NEW c \in Int, \A x \in S : f[x] = c
    PROVE  Cardinality(S) \in Nat /\ SumFunctionOnSet(f, S) = Cardinality(S) * c
<1> DEFINE T == {s \in SUBSET S : SumFunctionOnSet(f, s) = Cardinality(s) * c}
<1>1. {} \in T
  <2>1. SumFunctionOnSet(f, {}) = 0 /\ Cardinality({}) = 0
    BY SumEmpty, FS_EmptySet
  <2> QED BY <2>1
<1>2. ASSUME NEW s \in SUBSET S, NEW x \in S \ s, s \in T
      PROVE  s \union {x} \in T
  <2>1. IsFiniteSet(s) /\ Cardinality(s) \in Nat
    BY FS_Subset, FS_CardinalityType
  <2>2. SumFunctionOnSet(f, s \union {x}) = SumFunctionOnSet(f, s) + f[x]
    BY <2>1, SumWith
  <2>3. Cardinality(s \union {x}) = Cardinality(s) + 1
    BY <2>1, FS_AddElement
  <2>4. (Cardinality(s) + 1) * c = Cardinality(s) * c + c
    BY <2>1
  <2> QED BY <1>2, <2>2, <2>3, <2>4
<1> HIDE DEF T
<1>3. S \in T
  BY <1>1, <1>2, ElementInduction
<1> QED BY <1>3, FS_CardinalityType DEF T

----------------------------------------------------------------------------
(* What the tree pays: whole amounts, and ranks that exist.                *)

Subscriptions == [Ambassadors -> Subscribed]

LEMMA PricesAreWhole ==
    ASSUME NEW s \in Subscriptions
    PROVE  /\ \A a \in Ambassadors : Prices(s)[a] \in Nat /\ Rows(s)[a] \in Nat
           /\ \A a \in Ambassadors : LiveRows(s, a) \in Nat /\ PlanPrice[a] \in Nat
<1>1. \A a \in Ambassadors : s[a] \in {"none", "one", "loyal", "two"} /\ PlanPrice[a] \in Nat
  BY DownlineConstants DEF Subscriptions, Subscribed
<1>2. \A a \in Ambassadors : PriceFor(s, a) \in Nat /\ LiveRows(s, a) \in Nat
  BY <1>1 DEF PriceFor, LiveRows
<1> QED BY <1>1, <1>2 DEF Prices, Rows

LEMMA SomeAmbassadors == ASSUME NEW A, A \subseteq Ambassadors PROVE IsFiniteSet(A)
BY DownlineConstants, FS_Subset

LEMMA SalesAreWhole ==
    ASSUME NEW s \in Subscriptions, NEW a \in Ambassadors, NEW d \in Levels
    PROVE  Sales(s, a, d) \in Nat
<1>1. Paying(s, a, d) \subseteq Ambassadors
  BY DEF Paying, DownlineByLevel
<1>2. IsFiniteSet(Paying(s, a, d)) /\ \A b \in Paying(s, a, d) : Prices(s)[b] \in Nat
  BY <1>1, SomeAmbassadors, PricesAreWhole
<1> QED BY <1>2, SumIsNat DEF Sales

LEMMA CommissionIsWhole ==
    ASSUME NEW s \in Subscriptions, NEW a \in Ambassadors, NEW r \in Ranks
    PROVE  CommissionFor(s, a, r) \in Nat
<1> DEFINE sales == [d \in Levels |-> Sales(s, a, d)]
           paid == [d \in Levels |-> sales[d] * LevelRate(d)]
           beyond == {d \in Levels : r \in GenerationalRanks /\ d > OverrideBeyond}
<1>1. \A d \in Levels : sales[d] \in Nat /\ LevelRate(d) \in Nat
  <2>1. \A d \in Levels : LevelRate(d) \in Nat
    BY DEF LevelRate, Levels
  <2> QED BY <2>1, SalesAreWhole
<1>2. \A d \in Levels : paid[d] \in Nat
  <2> HIDE DEF sales
  <2> QED BY <1>1
<1>3. IsFiniteSet(Levels) /\ IsFiniteSet(1..RankMaxDepth(r)) /\ IsFiniteSet(beyond)
  <2>1. IsFiniteSet(1..20) /\ IsFiniteSet(1..r)
    <3>1. 1 \in Int /\ 20 \in Int /\ r \in Int
      BY DEF Ranks
    <3> QED BY <3>1, FS_Interval
  <2> QED BY <2>1, FS_Subset DEF RankMaxDepth, Levels
<1>4. 1..RankMaxDepth(r) \subseteq Levels
  BY DEF RankMaxDepth, Ranks, Levels
<1>5. SumFunctionOnSet(paid, 1..RankMaxDepth(r)) \in Nat
  <2> HIDE DEF paid
  <2> QED BY <1>2, <1>3, <1>4, SumIsNat
<1>6. SumFunctionOnSet(sales, beyond) \in Nat
  <2> HIDE DEF sales
  <2> QED BY <1>1, <1>3, SumIsNat
<1> QED BY <1>5, <1>6 DEF CommissionFor

LEMMA LoyaltyIsWhole ==
    ASSUME NEW s \in Subscriptions, NEW a \in Ambassadors
    PROVE  LoyaltyFor(s, a) \in Nat
<1> DEFINE B == {b \in Referrals(a) : s[b] = "loyal"}
<1>1. B \subseteq Ambassadors
  BY DEF Referrals
<1>2. IsFiniteSet(B) /\ \A b \in B : Prices(s)[b] \in Nat
  BY <1>1, SomeAmbassadors, PricesAreWhole
<1>3. SumFunctionOnSet(Prices(s), B) \in Nat
  BY <1>2, SumIsNat
<1> QED BY <1>3 DEF LoyaltyFor

LEMMA PoolIsWhole == ASSUME NEW s \in Subscriptions PROVE PoolFor(s) \in Nat
<1> DEFINE f == [a \in Ambassadors |-> PlanPrice[a] * LiveRows(s, a)]
<1>1. \A a \in Ambassadors : f[a] \in Nat
  BY PricesAreWhole
<1>2. IsFiniteSet(Ambassadors)
  BY DownlineConstants
<1>3. SumFunctionOnSet(f, Ambassadors) \in Nat
  <2> HIDE DEF f
  <2> QED BY <1>1, <1>2, SumIsNat
<1> QED BY <1>3 DEF PoolFor, SumFunction

LEMMA BestRankIsRank ==
    ASSUME NEW s, NEW ranks, NEW a
    PROVE  BestRank(s, ranks, a) \in Ranks
<1> DEFINE S == {1} \union {r \in Ranks : Qualifies(s, ranks, a, r)}
           T == {t \in SUBSET S : t = {} \/ \E m \in t : \A y \in t : m >= y}
<1>1. S \subseteq Ranks /\ S # {} /\ IsFiniteSet(S)
  <2>1. IsFiniteSet(1..10)
    <3>1. 1 \in Int /\ 10 \in Int
      OBVIOUS
    <3> QED BY <3>1, FS_Interval
  <2> QED BY <2>1, FS_Subset DEF Ranks
<1> HIDE DEF S
<1>2. ASSUME NEW t \in SUBSET S, NEW x \in S \ t, t \in T
      PROVE  t \union {x} \in T
  <2>1. t \union {x} \subseteq Ranks
    BY <1>1
  <2>2. CASE t = {}
    <3>1. \A y \in t \union {x} : x >= y
      BY <2>1, <2>2 DEF Ranks
    <3> QED BY <3>1
  <2>3. CASE t # {}
    <3>1. PICK m \in t : \A y \in t : m >= y
      BY <1>2, <2>3
    <3>2. m \in Int /\ x \in Int /\ \A y \in t : y \in Int
      BY <2>1 DEF Ranks
    <3>3. \E k \in t \union {x} : \A y \in t \union {x} : k >= y
      <4>1. CASE x >= m
        BY <3>1, <3>2, <4>1
      <4>2. CASE m >= x
        BY <3>1, <3>2, <4>2
      <4> QED BY <3>2, <4>1, <4>2
    <3> QED BY <3>3
  <2> QED BY <2>2, <2>3
<1>3. S \in T
  <2>1. {} \in T
    OBVIOUS
  <2> HIDE DEF T
  <2> QED BY <1>1, <1>2, <2>1, ElementInduction
<1>4. \E m \in S : \A y \in S : m >= y
  BY <1>1, <1>3
<1>5. Max(S) \in S
  BY <1>4 DEF Max
<1> QED BY <1>1, <1>5 DEF BestRank, S

----------------------------------------------------------------------------
(***************************************************************************)
(* Types, the copies of an item, and what a request is doing.              *)
(***************************************************************************)

\* The rows of the same ambassador, type and period.
Alike(l, i) == {j \in DOMAIN l : j.amb = i.amb /\ j.kind = i.kind /\ j.period = i.period}

\* The copies of an item are numbered without a gap, and a commission has one.
LedgerOK(l) ==
    /\ IsFiniteSet(DOMAIN l) /\ DOMAIN l \subseteq ItemIds /\ l \in [DOMAIN l -> Item]
    /\ \A i \in DOMAIN l : /\ i.copy <= Cardinality(Alike(l, i))
                           /\ i.kind = "COMMISSION" => i.copy = 1

\* What is left of the steps of a request.
Rest(steps) ==
    IF steps = Cycle
      THEN {Cycle, <<"commission", "loyalty", "faststart", "milestones">>,
            <<"loyalty", "faststart", "milestones">>, <<"faststart", "milestones">>,
            <<"milestones">>, << >>}
      ELSE {steps, << >>}

RunOK ==
    /\ {"todo", "who", "left", "steps", "month", "pool", "busy", "saved"} \subseteq DOMAIN run
    /\ run.todo \subseteq Ambassadors /\ run.who \in Ambassadors \union {Nobody}
    /\ run.month \in Months /\ run.busy \in BOOLEAN /\ run.pool \in BOOLEAN
    /\ run.steps \in {Cycle, <<"rank">>, <<"commission">>, << >>}
    /\ run.left \in Rest(run.steps)
    /\ ~run.busy => run.todo = {} /\ run.who = Nobody /\ run.left = << >> /\ ~run.pool

WorldOK ==
    /\ now \in Months /\ sub \in [Ambassadors -> Subscribed] /\ requests \in 0..MaxRequests
    /\ tidy \in BOOLEAN /\ pooled \in [Months -> 0..2]

PeopleOK(r, c, e, t) ==
    /\ r \in [Ambassadors -> Ranks]
    /\ c \in [Ambassadors -> 0..FastStartPeriods]
    /\ e \in [Ambassadors -> Int]
    /\ t \in [Ambassadors \X Ranks -> TravelStatuses \union {"none"}]

PoolsOK(p) ==
    /\ DOMAIN p \subseteq Months
    /\ \A m \in DOMAIN p : p[m] \in [total : Nat, eligible : Nat, share : Nat]

PayoutsOK(l) ==
    /\ DOMAIN payout \subseteq 1..MaxPayouts
    /\ \A p \in DOMAIN payout :
         payout[p] \in [amb : Ambassadors, items : SUBSET DOMAIN l, total : Int,
                        status : PayoutStatuses]

\* What a rollback brings back is what the tables may be.
SavedOK(t) ==
    /\ PeopleOK(t.rank, t.claimed, t.earned, t.travel)
    /\ LedgerOK(t.ledger) /\ PoolsOK(t.pool) /\ PayoutsOK(t.ledger)

Base ==
    /\ WorldOK
    /\ PeopleOK(rank, claimed, earned, travel)
    /\ LedgerOK(ledger) /\ PoolsOK(pool) /\ PayoutsOK(ledger)
    /\ RunOK
    /\ run.busy => SavedOK(run.saved)

LEMMA BaseIsTyped == Base => TypeOK
BY DEF Base, WorldOK, PeopleOK, LedgerOK, PoolsOK, PayoutsOK, RunOK, TypeOK

Works == {Cycle, <<"rank">>, <<"commission">>, << >>}

LEMMA StepsAreShort ==
    ASSUME NEW steps \in Works, NEW left \in Rest(steps), left # << >>
    PROVE  /\ Tail(left) \in Rest(steps)
           /\ left = steps \/ steps = Cycle
           /\ steps \in Rest(steps)
           /\ Len(left) >= 4 <=> Head(left) \in {"rank", "commission"} /\ steps = Cycle
           /\ Head(left) = "rank" => steps = Cycle \/ left = <<"rank">>
           /\ Head(left) = "commission" => steps = Cycle \/ steps = <<"commission">>
<1>1. Cycle # <<"rank">> /\ Cycle # <<"commission">> /\ Cycle # << >>
  BY DEF Cycle
<1>2. CASE steps = Cycle
  <2>1. \/ left = Cycle
        \/ left = <<"commission", "loyalty", "faststart", "milestones">>
        \/ left = <<"loyalty", "faststart", "milestones">>
        \/ left = <<"faststart", "milestones">>
        \/ left = <<"milestones">>
    BY <1>2 DEF Rest
  <2>2. CASE left = Cycle
    <3>1. Tail(left) = <<"commission", "loyalty", "faststart", "milestones">> /\ Len(left) = 5
          /\ Head(left) = "rank"
      BY <2>2 DEF Cycle
    <3> QED BY <1>2, <2>2, <3>1 DEF Rest
  <2>3. CASE left = <<"commission", "loyalty", "faststart", "milestones">>
    <3>1. Tail(left) = <<"loyalty", "faststart", "milestones">> /\ Len(left) = 4
          /\ Head(left) = "commission"
      BY <2>3
    <3> QED BY <1>2, <3>1 DEF Rest
  <2>4. CASE left = <<"loyalty", "faststart", "milestones">>
    <3>1. Tail(left) = <<"faststart", "milestones">> /\ Len(left) = 3 /\ Head(left) = "loyalty"
      BY <2>4
    <3> QED BY <1>2, <3>1 DEF Rest
  <2>5. CASE left = <<"faststart", "milestones">>
    <3>1. Tail(left) = <<"milestones">> /\ Len(left) = 2 /\ Head(left) = "faststart"
      BY <2>5
    <3> QED BY <1>2, <3>1 DEF Rest
  <2>6. CASE left = <<"milestones">>
    <3>1. Tail(left) = << >> /\ Len(left) = 1 /\ Head(left) = "milestones"
      BY <2>6
    <3> QED BY <1>2, <3>1 DEF Rest
  <2> QED BY <2>1, <2>2, <2>3, <2>4, <2>5, <2>6
<1>3. CASE steps = <<"rank">>
  <2>1. left = <<"rank">>
    BY <1>1, <1>3 DEF Rest
  <2>2. Tail(left) = << >> /\ Len(left) = 1 /\ Head(left) = "rank"
    BY <2>1
  <2> QED BY <1>1, <1>3, <2>1, <2>2 DEF Rest
<1>4. CASE steps = <<"commission">>
  <2>1. left = <<"commission">>
    BY <1>1, <1>4 DEF Rest
  <2>2. Tail(left) = << >> /\ Len(left) = 1 /\ Head(left) = "commission"
    BY <2>1
  <2> QED BY <1>1, <1>4, <2>1, <2>2 DEF Rest
<1>5. CASE steps = << >>
  BY <1>1, <1>5 DEF Rest
<1> QED BY <1>2, <1>3, <1>4, <1>5 DEF Works

\* The step of an ambassador leaves the request open.
LEMMA DoneOK ==
    ASSUME Base, NEW a \in Ambassadors, NEW step, Doing(step, a), Done
    PROVE  /\ RunOK' /\ run.busy /\ run'.busy /\ run'.saved = run.saved
           /\ run'.todo = run.todo /\ run'.who \in {a, Nobody}
           /\ run'.steps = run.steps /\ run'.month = run.month /\ run'.pool = run.pool
           /\ run'.left = Tail(run.left) /\ Head(run.left) = step
           /\ run.who = a
           /\ Len(run.left) = 1 <=> run'.who = Nobody
<1>1. RunOK /\ run.left # << >> /\ Head(run.left) = step /\ run.who = a
  BY DEF Base, Doing
<1>2. run.busy
  BY <1>1 DEF RunOK
<1>3. /\ run'.saved = run.saved /\ run'.busy = run.busy /\ run'.todo = run.todo
      /\ run'.steps = run.steps /\ run'.month = run.month /\ run'.pool = run.pool
      /\ run'.left = Tail(run.left)
      /\ run'.who = IF Len(run.left) = 1 THEN Nobody ELSE run.who
      /\ {"todo", "who", "left", "steps", "month", "pool", "busy", "saved"} \subseteq DOMAIN run'
  BY <1>1 DEF Done, RunOK
<1>4. Tail(run.left) \in Rest(run.steps)
  BY <1>1, StepsAreShort DEF RunOK, Works
<1>5. a # Nobody
  BY DownlineConstants
<1>6. run'.busy
  BY <1>2, <1>3
<1>7. RunOK'
  <2>1. run'.left \in Rest(run'.steps)
    BY <1>3, <1>4
  <2>2. (run.left \in Rest(run.steps))'
    BY <2>1 DEF Rest, Cycle
  <2>3. (run.steps \in {Cycle, <<"rank">>, <<"commission">>, << >>})'
    BY <1>1, <1>3 DEF RunOK, Cycle
  <2>4. run'.todo \subseteq Ambassadors /\ run'.who \in Ambassadors \union {Nobody}
        /\ run'.month \in Months /\ run'.pool \in BOOLEAN /\ run'.busy = TRUE
    BY <1>1, <1>2, <1>3 DEF RunOK
  <2> QED BY <1>3, <2>2, <2>3, <2>4 DEF RunOK
<1> QED BY <1>1, <1>2, <1>3, <1>5, <1>6, <1>7

----------------------------------------------------------------------------
(* What a step does to the ledger: it adds rows, or changes what is there. *)

\* New rows, each the next copy of its item.
Adding(new) ==
    /\ IsFiniteSet(DOMAIN new) /\ DOMAIN new \subseteq ItemIds /\ new \in [DOMAIN new -> Item]
    /\ \A i \in DOMAIN new : /\ i.copy = Cardinality(Alike(ledger, i)) + 1
                             /\ i.kind = "COMMISSION" => i.copy = 1
    /\ \A i, j \in DOMAIN new : i.amb = j.amb /\ i.kind = j.kind /\ i.period = j.period => i = j

LEMMA AlikeIsFinite ==
    ASSUME NEW l, LedgerOK(l), NEW i
    PROVE  IsFiniteSet(Alike(l, i)) /\ Cardinality(Alike(l, i)) \in Nat
<1>1. IsFiniteSet(Alike(l, i))
  BY FS_Subset DEF Alike, LedgerOK
<1> QED BY <1>1, FS_CardinalityType

LEMMA CopiesAreNumbers == \A i \in ItemIds : i.copy \in Nat \ {0} /\ i.amb \in Ambassadors
BY AmbassadorConstants DEF ItemIds

LEMMA ExtendedOK ==
    ASSUME LedgerOK(ledger), NEW new, Adding(new)
    PROVE  /\ LedgerOK(Extended(new))
           /\ DOMAIN Extended(new) = DOMAIN ledger \union DOMAIN new
           /\ DOMAIN ledger \intersect DOMAIN new = {}
           /\ \A i \in DOMAIN ledger : Extended(new)[i] = ledger[i]
           /\ \A i \in DOMAIN new : Extended(new)[i] = new[i]
<1> DEFINE l == Extended(new)
<1>1. \A i \in DOMAIN new : i \notin DOMAIN ledger
  <2> SUFFICES ASSUME NEW i \in DOMAIN new, i \in DOMAIN ledger PROVE FALSE
    OBVIOUS
  <2>1. i.copy <= Cardinality(Alike(ledger, i)) /\ i.copy = Cardinality(Alike(ledger, i)) + 1
    BY DEF LedgerOK, Adding
  <2> QED BY <2>1, AlikeIsFinite
<1>2. /\ DOMAIN l = DOMAIN ledger \union DOMAIN new
      /\ \A i \in DOMAIN ledger : l[i] = ledger[i]
      /\ \A i \in DOMAIN new : l[i] = new[i]
      /\ l = [i \in DOMAIN l |-> l[i]]
  BY <1>1 DEF Extended
<1> HIDE DEF l
<1>3. IsFiniteSet(DOMAIN l) /\ DOMAIN l \subseteq ItemIds
  <2>1. IsFiniteSet(DOMAIN ledger) /\ IsFiniteSet(DOMAIN new)
        /\ DOMAIN ledger \subseteq ItemIds /\ DOMAIN new \subseteq ItemIds
    BY DEF LedgerOK, Adding
  <2>2. IsFiniteSet(DOMAIN ledger \union DOMAIN new)
    BY <2>1, FS_Union
  <2> QED BY <1>2, <2>1, <2>2
<1>4. l \in [DOMAIN l -> Item]
  <2>1. \A i \in DOMAIN l : l[i] \in Item
    BY <1>2 DEF LedgerOK, Adding
  <2> QED BY <1>2, <2>1
<1>5. ASSUME NEW i \in DOMAIN l
      PROVE  i.copy <= Cardinality(Alike(l, i)) /\ (i.kind = "COMMISSION" => i.copy = 1)
  <2>1. IsFiniteSet(Alike(l, i)) /\ Alike(ledger, i) \subseteq Alike(l, i)
    BY <1>2, <1>3, FS_Subset DEF Alike
  <2>2. /\ Cardinality(Alike(l, i)) \in Nat /\ Cardinality(Alike(ledger, i)) \in Nat
        /\ Cardinality(Alike(ledger, i)) <= Cardinality(Alike(l, i))
    BY <2>1, FS_Subset, FS_CardinalityType
  <2>3. i.copy \in Nat
    BY <1>3, CopiesAreNumbers
  <2>4. CASE i \in DOMAIN ledger
    <3>1. i.copy <= Cardinality(Alike(ledger, i)) /\ (i.kind = "COMMISSION" => i.copy = 1)
      BY <2>4 DEF LedgerOK
    <3> QED BY <2>2, <2>3, <3>1
  <2>5. CASE i \in DOMAIN new
    <3>1. i \notin Alike(ledger, i) /\ IsFiniteSet(Alike(ledger, i))
      BY <1>1, <2>1, <2>5, FS_Subset DEF Alike
    <3>2. Alike(l, i) = Alike(ledger, i) \union {i}
      BY <1>2, <2>5 DEF Alike, Adding
    <3>3. Cardinality(Alike(l, i)) = Cardinality(Alike(ledger, i)) + 1
      BY <3>1, <3>2, FS_AddElement
    <3>4. i.copy = Cardinality(Alike(ledger, i)) + 1 /\ (i.kind = "COMMISSION" => i.copy = 1)
      BY <2>5 DEF Adding
    <3> QED BY <2>2, <3>3, <3>4
  <2> QED BY <1>2, <2>4, <2>5
<1>6. LedgerOK(l)
  BY <1>3, <1>4, <1>5 DEF LedgerOK
<1> QED BY <1>1, <1>2, <1>6 DEF l

\* The rows stay, what they say changes.
Rewritten(l) == DOMAIN l = DOMAIN ledger /\ l \in [DOMAIN ledger -> Item]

LEMMA RewrittenOK ==
    ASSUME LedgerOK(ledger), NEW l, Rewritten(l)
    PROVE  LedgerOK(l)
<1>1. \A i : Alike(l, i) = Alike(ledger, i)
  BY DEF Alike, Rewritten
<1> QED BY <1>1 DEF LedgerOK, Rewritten

LEMMA MarkedOK ==
    ASSUME LedgerOK(ledger), NEW S, NEW status \in {"PENDING", "PAID"}
    PROVE  /\ Rewritten(Marked(S, status))
           /\ \A i \in DOMAIN ledger :
                /\ Marked(S, status)[i].amount = ledger[i].amount
                /\ Marked(S, status)[i].status = IF i \in S THEN status ELSE ledger[i].status
<1>1. \A i \in DOMAIN ledger : ledger[i] \in Item
  BY DEF LedgerOK
<1>2. \A i \in DOMAIN ledger :
        /\ [ledger[i] EXCEPT !.status = status] \in Item
        /\ [ledger[i] EXCEPT !.status = status].amount = ledger[i].amount
        /\ [ledger[i] EXCEPT !.status = status].status = status
  BY <1>1 DEF Item
<1>3. DOMAIN Marked(S, status) = DOMAIN ledger
  BY DEF Marked
<1>4. \A i \in DOMAIN ledger :
        Marked(S, status)[i] = IF i \in S THEN [ledger[i] EXCEPT !.status = status] ELSE ledger[i]
  BY DEF Marked
<1>5. Marked(S, status) \in [DOMAIN ledger -> Item]
  BY <1>1, <1>2 DEF Marked
<1> QED BY <1>2, <1>3, <1>4, <1>5 DEF Rewritten

Kinds == {"COMMISSION"} \union BonusTypes

LEMMA FreshIsItem == ASSUME NEW amount \in Int
                     PROVE  Fresh(amount) \in Item /\ Fresh(amount).amount = amount
                            /\ Fresh(amount).status = "PENDING"
BY DEF Fresh, Item

\* One more copy, by hand.
LEMMA RowAdds ==
    ASSUME LedgerOK(ledger), NEW a \in Ambassadors, NEW kind \in BonusTypes, NEW period \in Nat,
           NEW amount \in Int, Cardinality(RowsOf(a, kind, period)) < MaxCopies
    PROVE  Adding([i \in {Row(a, kind, period)} |-> Fresh(amount)])
<1> DEFINE r == Row(a, kind, period)
           new == [i \in {r} |-> Fresh(amount)]
<1>1. r.amb = a /\ r.kind = kind /\ r.period = period
      /\ r.copy = Cardinality(RowsOf(a, kind, period)) + 1
      /\ r = [amb |-> a, kind |-> kind, period |-> period, copy |-> r.copy]
  BY DEF Row
<1>2. RowsOf(a, kind, period) = Alike(ledger, r)
  BY <1>1 DEF RowsOf, Alike
<1>3. Cardinality(Alike(ledger, r)) \in Nat
  BY AlikeIsFinite
<1> HIDE DEF r
<1>4. r.copy \in 1..MaxCopies
  BY <1>1, <1>2, <1>3, AmbassadorConstants
<1>5. r \in ItemIds
  BY <1>1, <1>4 DEF ItemIds
<1>6. DOMAIN new = {r} /\ new[r] = Fresh(amount) /\ new \in [{r} -> Item]
  BY FreshIsItem
<1> HIDE DEF new
<1>7. IsFiniteSet(DOMAIN new)
  BY <1>6, FS_Singleton
<1>8. kind # "COMMISSION"
  BY DEF BonusTypes
<1>9. Adding(new)
  BY <1>1, <1>2, <1>5, <1>6, <1>7, <1>8 DEF Adding
<1> QED BY <1>9 DEF new, r

\* Rows that are due: first copies.
LEMMA DueAdds ==
    ASSUME LedgerOK(ledger), NEW kind \in BonusTypes,
           NEW new, IsFiniteSet(DOMAIN new),
           \A i \in DOMAIN new :
              \E a \in Ambassadors, period \in Nat :
                 Due(a, kind, period) /\ i = Row(a, kind, period) /\ new[i] \in Item,
           new = [i \in DOMAIN new |-> new[i]]
    PROVE  Adding(new) /\ \A i \in DOMAIN new : i.copy = 1 /\ i.kind = kind
<1>1. ASSUME NEW i \in DOMAIN new
      PROVE  /\ i \in ItemIds /\ new[i] \in Item /\ i.copy = Cardinality(Alike(ledger, i)) + 1
             /\ i.copy = 1 /\ i.kind = kind
             /\ i = [amb |-> i.amb, kind |-> kind, period |-> i.period, copy |-> 1]
  <2>1. PICK a \in Ambassadors, period \in Nat :
          Due(a, kind, period) /\ i = Row(a, kind, period) /\ new[i] \in Item
    BY <1>1
  <2>2. RowsOf(a, kind, period) = {}
    BY <2>1 DEF Due
  <2>3. Cardinality(RowsOf(a, kind, period)) = 0
    BY <2>2, FS_EmptySet
  <2>4. i = [amb |-> a, kind |-> kind, period |-> period, copy |-> 1]
    BY <2>1, <2>3 DEF Row
  <2>5. 1 \in 1..MaxCopies
    BY AmbassadorConstants
  <2>6. i \in ItemIds
    BY <2>4, <2>5 DEF ItemIds
  <2>7. Alike(ledger, i) = RowsOf(a, kind, period)
    BY <2>4 DEF Alike, RowsOf
  <2> QED BY <2>1, <2>3, <2>4, <2>6, <2>7
<1>2. kind # "COMMISSION"
  BY DEF BonusTypes
<1>3. new \in [DOMAIN new -> Item]
  BY <1>1
<1>4. \A i, j \in DOMAIN new : i.amb = j.amb /\ i.kind = j.kind /\ i.period = j.period => i = j
  BY <1>1
<1>5. DOMAIN new \subseteq ItemIds
  BY <1>1
<1> QED BY <1>1, <1>2, <1>3, <1>4, <1>5 DEF Adding

\* An award of the service.
LEMMA BonusAdds ==
    ASSUME LedgerOK(ledger), NEW a \in Ambassadors, NEW kind \in BonusTypes, NEW period \in Nat,
           NEW amount \in Int
    PROVE  /\ Adding(Bonus(a, kind, period, amount))
           /\ \A i \in DOMAIN Bonus(a, kind, period, amount) :
                 i.copy = 1 /\ i.kind = kind /\ i.amb = a
           /\ \A i \in DOMAIN Bonus(a, kind, period, amount) :
                 Bonus(a, kind, period, amount)[i].amount \in Nat
<1> DEFINE new == Bonus(a, kind, period, amount)
<1>1. CASE amount > 0 /\ Due(a, kind, period)
  <2>1. new = [i \in {Row(a, kind, period)} |-> Fresh(amount)]
    BY <1>1 DEF Bonus
  <2>2. /\ DOMAIN new = {Row(a, kind, period)} /\ new[Row(a, kind, period)] = Fresh(amount)
        /\ new = [i \in DOMAIN new |-> new[i]]
    BY <2>1
  <2>3. Row(a, kind, period).amb = a
    BY DEF Row
  <2> HIDE DEF new
  <2>4. IsFiniteSet(DOMAIN new)
    BY <2>2, FS_Singleton
  <2>5. \A i \in DOMAIN new : new[i] \in Item
    BY <2>2, FreshIsItem
  <2>6. Adding(new) /\ \A i \in DOMAIN new : i.copy = 1 /\ i.kind = kind
    BY <1>1, <2>2, <2>4, <2>5, DueAdds
  <2>7. \A i \in DOMAIN new : i.amb = a /\ new[i].amount \in Nat
    BY <1>1, <2>2, <2>3, FreshIsItem
  <2> QED BY <2>6, <2>7 DEF new
<1>2. CASE ~(amount > 0 /\ Due(a, kind, period))
  <2>1. new = << >> /\ DOMAIN new = {}
    BY <1>2 DEF Bonus
  <2>2. IsFiniteSet(DOMAIN new) /\ new \in [DOMAIN new -> Item]
    BY <2>1, FS_EmptySet
  <2> QED BY <2>1, <2>2 DEF Adding
<1> QED BY <1>1, <1>2

LEMMA NothingAdds ==
    ASSUME LedgerOK(ledger)
    PROVE  Adding(<< >>) /\ DOMAIN << >> = {} /\ Extended(<< >>) = ledger
<1>1. DOMAIN << >> = {}
  OBVIOUS
<1>2. IsFiniteSet(DOMAIN << >>) /\ << >> \in [DOMAIN << >> -> Item]
  BY <1>1, FS_EmptySet
<1>3. Adding(<< >>)
  BY <1>1, <1>2 DEF Adding
<1>4. Extended(<< >>) = [i \in DOMAIN ledger |-> ledger[i]]
  BY <1>1 DEF Extended
<1> QED BY <1>1, <1>3, <1>4 DEF LedgerOK

----------------------------------------------------------------------------
(* Type correctness, one action after another.                             *)

LEMMA BaseStart == Init => Base
<1> SUFFICES ASSUME Init PROVE Base
  OBVIOUS
<1>1. WorldOK /\ PeopleOK(rank, claimed, earned, travel)
  BY AmbassadorConstants DEF Init, WorldOK, PeopleOK, Months, Ranks, FastStartPeriods
<1>2. LedgerOK(ledger)
  <2>1. DOMAIN ledger = {} /\ ledger = << >>
    BY DEF Init
  <2> QED BY <2>1, FS_EmptySet DEF LedgerOK
<1>3. PoolsOK(pool) /\ PayoutsOK(ledger)
  BY DEF Init, PoolsOK, PayoutsOK
<1>4. run = Idle /\ 1 \in Months
  BY AmbassadorConstants DEF Init, Months
<1>5. RunOK /\ ~run.busy
  <2>1. Cycle # << >>
    BY DEF Cycle
  <2> QED BY <1>4, <2>1 DEF RunOK, Idle, Rest
<1> QED BY <1>1, <1>2, <1>3, <1>5 DEF Base

\* Items that are kept keep their payouts.
LEMMA PayoutsKeep ==
    ASSUME NEW l, NEW k, PayoutsOK(l), DOMAIN l \subseteq DOMAIN k
    PROVE  PayoutsOK(k)
BY DEF PayoutsOK

\* One step of the service for one ambassador.
LEMMA ServiceStep ==
    ASSUME Base, NEW a \in Ambassadors, NEW step, Doing(step, a), Done,
           PeopleOK(rank', claimed', earned', travel'),
           LedgerOK(ledger'), DOMAIN ledger \subseteq DOMAIN ledger',
           UNCHANGED <<now, sub, pool, payout, requests, history>>
    PROVE  Base'
<1>1. RunOK' /\ run.busy /\ run'.saved = run.saved
  BY DoneOK
<1>2. PayoutsOK(ledger')
  BY PayoutsKeep DEF Base
<1>3. SavedOK(run.saved)
  BY <1>1 DEF Base
<1>4. WorldOK' /\ PoolsOK(pool)' /\ PayoutsOK(ledger)' /\ SavedOK(run.saved)'
  BY <1>1, <1>2, <1>3 DEF Base, WorldOK, PoolsOK, PayoutsOK, SavedOK, history
<1>5. PeopleOK(rank, claimed, earned, travel)' /\ LedgerOK(ledger)'
  OBVIOUS
<1> QED BY <1>1, <1>4, <1>5 DEF Base

\* A request by hand: nothing is running.
LEMMA HandStep ==
    ASSUME Base, Request, UNCHANGED <<now, sub, pool, run, pooled>>, tidy' \in BOOLEAN,
           PeopleOK(rank', claimed', earned', travel'),
           LedgerOK(ledger'), PayoutsOK(ledger)'
    PROVE  Base'
<1>1. ~run.busy /\ ~run'.busy /\ RunOK'
  BY DEF Request, Base, RunOK
<1>2. requests' \in 0..MaxRequests
  BY AmbassadorConstants DEF Base, WorldOK, Request
<1>3. WorldOK' /\ PoolsOK(pool)'
  BY <1>2 DEF Base, WorldOK, PoolsOK
<1>4. PeopleOK(rank, claimed, earned, travel)' /\ LedgerOK(ledger)'
  OBVIOUS
<1> QED BY <1>1, <1>3, <1>4 DEF Base

LEMMA StartStep ==
    ASSUME Base, NEW steps \in Works, NEW A \in SUBSET Ambassadors, NEW m \in 1..now,
           NEW withPool \in BOOLEAN,
           Start(steps, A, m, withPool), tidy' \in BOOLEAN, pooled' \in [Months -> 0..2]
    PROVE  Base'
<1>1. m \in Months
  BY AmbassadorConstants DEF Base, WorldOK, Months
<1>2. requests' \in 0..MaxRequests
  BY AmbassadorConstants DEF Base, WorldOK, Start, Request
<1>3. run' = [todo |-> A, who |-> Nobody, left |-> << >>, steps |-> steps, month |-> m,
              pool |-> withPool, busy |-> TRUE, saved |-> Tables]
  BY DEF Start
<1>4. << >> \in Rest(steps)
  BY DEF Rest
<1>5. RunOK'
  <2>1. (run.left \in Rest(run.steps))'
    BY <1>3, <1>4 DEF Rest, Cycle
  <2>2. (run.steps \in {Cycle, <<"rank">>, <<"commission">>, << >>})'
    BY <1>3 DEF Works, Cycle
  <2> QED BY <1>1, <1>3, <2>1, <2>2 DEF RunOK
<1>6. WorldOK' /\ PeopleOK(rank, claimed, earned, travel)' /\ LedgerOK(ledger)'
      /\ PoolsOK(pool)' /\ PayoutsOK(ledger)'
  BY <1>2 DEF Base, WorldOK, PoolsOK, PayoutsOK, Start, people, money
<1>7. SavedOK(run.saved)'
  <2>1. /\ run'.saved.rank = rank' /\ run'.saved.claimed = claimed' /\ run'.saved.earned = earned'
        /\ run'.saved.travel = travel' /\ run'.saved.ledger = ledger' /\ run'.saved.pool = pool'
    BY <1>3 DEF Start, people, money, Tables
  <2> QED BY <1>6, <2>1 DEF SavedOK
<1> QED BY <1>5, <1>6, <1>7 DEF Base


LEMMA StepsThatStart ==
    ASSUME Base, Ranking PROVE Base'
<1>1. ASSUME NEW m \in 1..now, RunMonthlyCycle(m) PROVE Base'
  <2>1. tidy' \in BOOLEAN /\ pooled' \in [Months -> 0..2]
    <3>1. m \in Months
      BY AmbassadorConstants DEF Base, WorldOK, Months
    <3> QED BY <1>1, <3>1 DEF RunMonthlyCycle, Base, WorldOK
  <2> QED BY <1>1, <2>1, StartStep DEF RunMonthlyCycle, Works
<1>2. ASSUME NEW m \in 1..now, RecalculatePool(m) PROVE Base'
  <2>1. tidy' \in BOOLEAN /\ pooled' \in [Months -> 0..2]
    <3>1. m \in Months
      BY AmbassadorConstants DEF Base, WorldOK, Months
    <3> QED BY <1>2, <3>1 DEF RecalculatePool, Base, WorldOK
  <2> QED BY <1>2, <2>1, StartStep DEF RecalculatePool, Works
<1>3. ASSUME NEW A \in {Ambassadors} \union {{a} : a \in Ambassadors} PROVE A \subseteq Ambassadors
  OBVIOUS
<1>4. ASSUME NEW A \in SUBSET Ambassadors, EvaluateRanks(A) PROVE Base'
  <2>1. now \in 1..now
    BY DEF Base, WorldOK, Months
  <2> QED BY <1>4, <2>1, StartStep DEF EvaluateRanks, Works, history, Base, WorldOK
<1>5. ASSUME NEW A \in SUBSET Ambassadors, NEW m \in 1..now, RecalculateCommissions(A, m) PROVE Base'
  <2>1. tidy' \in BOOLEAN /\ pooled' \in [Months -> 0..2]
    BY <1>5 DEF RecalculateCommissions, Base, WorldOK
  <2> QED BY <1>5, <2>1, StartStep DEF RecalculateCommissions, Works
<1> QED BY <1>1, <1>2, <1>3, <1>4, <1>5 DEF Ranking

LEMMA RankStep ==
    ASSUME Base, NEW a \in Ambassadors, EvaluateRank(a)
    PROVE  Base' /\ \E new : /\ Adding(new) /\ ledger' = Extended(new)
                             /\ \A i \in DOMAIN new : i.copy = 1 /\ i.kind = "RANK_ADVANCEMENT"
<1> DEFINE best == BestRank(sub, IF run.steps = Cycle THEN rank ELSE run.saved.rank, a)
<1>1. best \in Ranks
  BY BestRankIsRank
<1> HIDE DEF best
<1>2. AdvancementBonus(best) \in Int /\ best \in Nat
  BY <1>1 DEF AdvancementBonus, Ranks
<1>3. PICK new : /\ Adding(new) /\ ledger' = Extended(new)
                 /\ \A i \in DOMAIN new : i.copy = 1 /\ i.kind = "RANK_ADVANCEMENT"
  <2>1. CASE best > rank[a]
    <3>1. ledger' = Extended(Bonus(a, "RANK_ADVANCEMENT", best, AdvancementBonus(best)))
      BY <2>1 DEF EvaluateRank, best
    <3>2. "RANK_ADVANCEMENT" \in BonusTypes /\ LedgerOK(ledger)
      BY DEF BonusTypes, Base
    <3> QED BY <1>2, <3>1, <3>2, BonusAdds
  <2>2. CASE ~(best > rank[a])
    <3>1. ledger' = ledger /\ LedgerOK(ledger)
      BY <2>2 DEF EvaluateRank, best, Base
    <3> QED BY <3>1, NothingAdds
  <2> QED BY <2>1, <2>2
<1>4. LedgerOK(ledger') /\ DOMAIN ledger \subseteq DOMAIN ledger'
  BY <1>3, ExtendedOK DEF Base
<1>5. PeopleOK(rank', claimed', earned', travel')
  <2>1. rank' \in [Ambassadors -> Ranks] /\ claimed' = claimed /\ earned' = earned
    BY <1>1 DEF EvaluateRank, Base, PeopleOK, best
  <2>2. travel' \in [Ambassadors \X Ranks -> TravelStatuses \union {"none"}]
    <3>1. travel' = travel \/ travel' = [travel EXCEPT ![<<a, best>>] = "QUALIFYING"]
      BY DEF EvaluateRank, best
    <3>2. "QUALIFYING" \in TravelStatuses
      BY DEF TravelStatuses
    <3> QED BY <1>1, <3>1, <3>2 DEF Base, PeopleOK
  <2> QED BY <2>1, <2>2 DEF Base, PeopleOK
<1>6. Doing("rank", a) /\ Done /\ UNCHANGED <<now, sub, pool, payout, requests, history>>
  BY DEF EvaluateRank
<1>7. Base'
  BY <1>4, <1>5, <1>6, ServiceStep
<1> QED BY <1>3, <1>7

\* What the calculation of a commission does to the ledger: nothing if it is paid.
Calculates(a, m) ==
    LET i == CommissionOf(a, m)
    IN /\ i \in DOMAIN ledger' /\ DOMAIN ledger' = DOMAIN ledger \union {i}
       /\ \A j \in DOMAIN ledger : j # i => ledger'[j] = ledger[j]
       /\ i \in DOMAIN ledger /\ ledger[i].status = "PAID" => ledger' = ledger
       /\ i \notin DOMAIN ledger => \E new : /\ Adding(new) /\ ledger' = Extended(new)
                                            /\ DOMAIN new = {i} /\ new[i] = ledger'[i]

LEMMA CommissionStep ==
    ASSUME Base, NEW a \in Ambassadors, CalculateCommission(a)
    PROVE  Base' /\ Calculates(a, run.month) /\ run.month \in Months
<1> DEFINE m == run.month
           c == CommissionOf(a, m)
           fee == CommissionFor(sub, a, rank[a])
           new == [j \in {c} |-> Fresh(fee)]
<1>1. fee \in Nat /\ m \in Months /\ m \in Nat
  <2>1. sub \in Subscriptions /\ rank[a] \in Ranks /\ m \in Months
    BY DEF Base, WorldOK, PeopleOK, RunOK, Subscriptions
  <2> QED BY <2>1, CommissionIsWhole, AmbassadorConstants DEF Months
<1>2. /\ c = [amb |-> a, kind |-> "COMMISSION", period |-> m, copy |-> 1]
      /\ c.amb = a /\ c.kind = "COMMISSION" /\ c.period = m /\ c.copy = 1 /\ c \in ItemIds
  BY <1>1, AmbassadorConstants DEF CommissionOf, ItemIds
<1>3. DOMAIN new = {c} /\ new[c] = Fresh(fee) /\ new \in [{c} -> Item] /\ Fresh(fee).amount = fee
  BY <1>1, FreshIsItem
<1>4. ledger' = IF c \in DOMAIN ledger /\ ledger[c].status = "PAID" THEN ledger ELSE Extended(new)
  BY DEF CalculateCommission, Calculated
<1>5. LedgerOK(ledger)
  BY DEF Base
<1> HIDE DEF c, fee, new, m
<1>6. LedgerOK(ledger') /\ DOMAIN ledger' = DOMAIN ledger \union {c}
      /\ (\A j \in DOMAIN ledger : j # c => ledger'[j] = ledger[j])
      /\ (ledger' # ledger => ledger'[c].amount = fee) /\ (c \notin DOMAIN ledger => ledger'[c].amount = fee)
      /\ (c \notin DOMAIN ledger => /\ Adding(new) /\ ledger' = Extended(new) /\ DOMAIN new = {c}
                                   /\ new[c] = ledger'[c])
  <2>1. CASE c \in DOMAIN ledger /\ ledger[c].status = "PAID"
    BY <1>4, <1>5, <2>1
  <2>2. CASE c \in DOMAIN ledger /\ ledger[c].status # "PAID"
    <3>1. /\ DOMAIN Extended(new) = DOMAIN ledger
          /\ \A j \in DOMAIN ledger : Extended(new)[j] = IF j = c THEN Fresh(fee) ELSE ledger[j]
          /\ Extended(new) = [j \in DOMAIN ledger |-> Extended(new)[j]]
      BY <1>3, <2>2 DEF Extended
    <3>2. Fresh(fee) \in Item /\ \A j \in DOMAIN ledger : ledger[j] \in Item
      BY <1>1, <1>5, FreshIsItem DEF LedgerOK
    <3>3. Rewritten(Extended(new))
      BY <3>1, <3>2 DEF Rewritten
    <3>4. LedgerOK(Extended(new))
      BY <1>5, <3>3, RewrittenOK
    <3> QED BY <1>3, <1>4, <2>2, <3>1, <3>4
  <2>3. CASE c \notin DOMAIN ledger
    <3>1. Alike(ledger, c) = {}
      <4>1. ASSUME NEW j \in Alike(ledger, c) PROVE FALSE
        <5>1. j \in DOMAIN ledger /\ j.amb = a /\ j.kind = "COMMISSION" /\ j.period = m
          BY <1>2, <4>1 DEF Alike
        <5>2. j.copy = 1 /\ j \in ItemIds
          BY <1>5, <5>1 DEF LedgerOK
        <5>3. j = c
          BY <1>2, <5>1, <5>2 DEF ItemIds
        <5> QED BY <2>3, <5>1, <5>3
      <4> QED BY <4>1
    <3>2. Cardinality(Alike(ledger, c)) = 0
      BY <3>1, FS_EmptySet
    <3>3. IsFiniteSet(DOMAIN new)
      BY <1>3, FS_Singleton
    <3>4. Adding(new)
      BY <1>2, <1>3, <3>2, <3>3 DEF Adding
    <3>5. ledger' = Extended(new)
      BY <1>4, <2>3
    <3> QED BY <1>3, <1>5, <3>4, <3>5, ExtendedOK
  <2> QED BY <2>1, <2>2, <2>3
<1>7. Calculates(a, m)
  <2>1. c \notin DOMAIN ledger => \E u : /\ Adding(u) /\ ledger' = Extended(u)
                                        /\ DOMAIN u = {c} /\ u[c] = ledger'[c]
    BY <1>6
  <2> QED BY <1>4, <1>6, <2>1 DEF Calculates, c
<1>8. ledger'[c].amount \in Int
  BY <1>6 DEF LedgerOK, Item
<1>9. PeopleOK(rank', claimed', earned', travel')
  <2>1. earned' = earned \/ earned' = [earned EXCEPT ![a] = @ + ledger'[c].amount]
    BY DEF CalculateCommission, c, m
  <2>2. earned' \in [Ambassadors -> Int]
    BY <1>8, <2>1 DEF Base, PeopleOK
  <2>3. rank' = rank /\ claimed' = claimed /\ travel' = travel
    BY DEF CalculateCommission
  <2> QED BY <2>2, <2>3 DEF Base, PeopleOK
<1>10. Doing("commission", a) /\ Done /\ UNCHANGED <<now, sub, pool, payout, requests, history>>
  BY DEF CalculateCommission
<1>11. Base'
  BY <1>6, <1>9, <1>10, ServiceStep
<1> QED BY <1>1, <1>7, <1>11 DEF m

\* The amounts of some rows, and what they sum up to.
AmountsIn(l) == [i \in DOMAIN l |-> l[i].amount]

LEMMA AmountsAreWhole ==
    ASSUME NEW l, l \in [DOMAIN l -> Item]
    PROVE  \A i \in DOMAIN l : AmountsIn(l)[i] \in Int /\ AmountsIn(l)[i] = l[i].amount
BY DEF AmountsIn, Item

LEMMA WorthIsWhole ==
    ASSUME NEW new, IsFiniteSet(DOMAIN new), new \in [DOMAIN new -> Item]
    PROVE  Worth(new) \in Int /\ Worth(new) = SumFunctionOnSet(AmountsIn(new), DOMAIN new)
<1>1. SumFunctionOnSet(AmountsIn(new), DOMAIN new) \in Int
  BY AmountsAreWhole, SumTakes
<1>2. DOMAIN AmountsIn(new) = DOMAIN new
  BY DEF AmountsIn
<1> QED BY <1>1, <1>2 DEF Worth, SumFunction, AmountsIn

\* The bonuses that rewards_earned counts.
Credited == {"LOYALTY_RETENTION", "FAST_START", "PERFORMANCE_MILESTONE"}

\* A step of the service that credits first copies of new rows.
Credits(a, new) ==
    /\ Adding(new) /\ Credit(a, new)
    /\ \A i \in DOMAIN new : i.copy = 1 /\ i.amb = a /\ i.kind \in Credited

LEMMA CreditStep ==
    ASSUME Base, NEW a \in Ambassadors, NEW step, Doing(step, a), Done,
           NEW new, Credits(a, new),
           UNCHANGED <<rank, travel>>, claimed' \in [Ambassadors -> 0..FastStartPeriods],
           UNCHANGED <<now, sub, pool, payout, requests, history>>
    PROVE  Base'
<1>1. LedgerOK(ledger') /\ DOMAIN ledger \subseteq DOMAIN ledger'
  BY ExtendedOK DEF Base, Credits, Credit
<1>2. Worth(new) \in Int
  BY WorthIsWhole DEF Credits, Adding
<1>3. earned' \in [Ambassadors -> Int]
  BY <1>2 DEF Base, PeopleOK, Credits, Credit
<1>4. PeopleOK(rank', claimed', earned', travel')
  BY <1>3 DEF Base, PeopleOK
<1> QED BY <1>1, <1>4, ServiceStep

LEMMA NothingCredits ==
    ASSUME Base, NEW a \in Ambassadors, UNCHANGED <<ledger, earned>>
    PROVE  Credits(a, << >>)
<1>1. Adding(<< >>) /\ DOMAIN << >> = {} /\ Extended(<< >>) = ledger
  BY NothingAdds DEF Base
<1>2. Worth(<< >>) = 0
  BY <1>1, WorthIsWhole, SumEmpty DEF Adding
<1>3. earned \in [Ambassadors -> Int]
  BY DEF Base, PeopleOK
<1>4. [earned EXCEPT ![a] = @ + 0] = earned
  BY <1>3
<1> QED BY <1>1, <1>2, <1>4 DEF Credits, Credit

LEMMA LoyaltyStep ==
    ASSUME Base, NEW a \in Ambassadors, CalculateLoyalty(a)
    PROVE  Base' /\ \E new : Credits(a, new)
<1> DEFINE new == Bonus(a, "LOYALTY_RETENTION", run.month, LoyaltyFor(sub, a))
<1>1. sub \in Subscriptions /\ run.month \in Nat /\ LedgerOK(ledger)
  BY AmbassadorConstants DEF Base, WorldOK, RunOK, Months, Subscriptions
<1>2. LoyaltyFor(sub, a) \in Int
  BY <1>1, LoyaltyIsWhole
<1>3. "LOYALTY_RETENTION" \in BonusTypes /\ "LOYALTY_RETENTION" \in Credited
  BY DEF BonusTypes, Credited
<1>4. Credits(a, new)
  <2>1. Credit(a, new)
    BY DEF CalculateLoyalty
  <2> QED BY <1>1, <1>2, <1>3, <2>1, BonusAdds DEF Credits
<1> HIDE DEF new
<1>5. /\ Doing("loyalty", a) /\ Done /\ UNCHANGED <<rank, travel, claimed>>
      /\ UNCHANGED <<now, sub, pool, payout, requests, history>>
  BY DEF CalculateLoyalty
<1>6. claimed' \in [Ambassadors -> 0..FastStartPeriods]
  BY <1>5 DEF Base, PeopleOK
<1> QED BY <1>4, <1>5, <1>6, CreditStep

LEMMA FastStartStep ==
    ASSUME Base, NEW a \in Ambassadors, CheckFastStart(a)
    PROVE  Base' /\ \E new : Credits(a, new)
<1> DEFINE window == Joined[a] + claimed[a]
           won == SumFunctionOnSet(Rows(sub), {b \in Referrals(a) : Joined[b] = window})
                    >= FastStartTarget
           period == claimed[a] + 1
           new == IF won THEN Bonus(a, "FAST_START", period, FastStartBonus) ELSE << >>
           judged == claimed[a] < FastStartPeriods /\ (won \/ now > window)
<1>1. claimed[a] \in 0..FastStartPeriods /\ LedgerOK(ledger) /\ claimed \in [Ambassadors -> 0..FastStartPeriods]
  BY DEF Base, PeopleOK
<1>2. period \in Nat /\ FastStartBonus \in Int
  BY <1>1 DEF FastStartPeriods, FastStartBonus
<1>3. "FAST_START" \in BonusTypes /\ "FAST_START" \in Credited
  BY DEF BonusTypes, Credited
<1>4. /\ Doing("faststart", a) /\ Done /\ UNCHANGED <<rank, travel>>
      /\ UNCHANGED <<now, sub, pool, payout, requests, history>>
      /\ IF judged THEN claimed' = [claimed EXCEPT ![a] = period] /\ Credit(a, new)
                   ELSE UNCHANGED <<claimed, ledger, earned>>
  BY DEF CheckFastStart
<1> HIDE DEF won
<1>5. claimed' \in [Ambassadors -> 0..FastStartPeriods]
  <2>1. judged => period \in 0..FastStartPeriods
    BY <1>1 DEF FastStartPeriods
  <2> HIDE DEF period, judged
  <2> QED BY <1>1, <1>4, <2>1
<1>6. \E n : Credits(a, n)
  <2>1. CASE judged /\ won
    <3> DEFINE bonus == Bonus(a, "FAST_START", period, FastStartBonus)
    <3>1. new = bonus /\ Credit(a, new)
      BY <1>4, <2>1
    <3> HIDE DEF new, period
    <3>2. LedgerOK(ledger) /\ period \in Nat /\ FastStartBonus \in Int /\ "FAST_START" \in BonusTypes
      BY <1>1, <1>2, <1>3
    <3>3. /\ Adding(bonus)
          /\ \A i \in DOMAIN bonus : i.copy = 1 /\ i.kind = "FAST_START" /\ i.amb = a
      BY <3>2, BonusAdds
    <3> HIDE DEF bonus
    <3>4. Credits(a, new)
      BY <1>3, <3>1, <3>3 DEF Credits
    <3> QED BY <3>4
  <2>2. CASE judged /\ ~won
    <3>1. Credit(a, << >>)
      BY <1>4, <2>2
    <3>2. Credits(a, << >>)
      BY <1>1, <3>1, NothingAdds DEF Credits
    <3> QED BY <3>2
  <2>3. CASE ~judged
    <3>1. UNCHANGED <<ledger, earned>>
      BY <1>4, <2>3
    <3> QED BY <3>1, NothingCredits
  <2> QED BY <2>1, <2>2, <2>3
<1> QED BY <1>4, <1>5, <1>6, CreditStep

LEMMA MilestoneStep ==
    ASSUME Base, NEW a \in Ambassadors, CheckMilestones(a)
    PROVE  Base' /\ \E new : Credits(a, new)
<1> DEFINE kind == "PERFORMANCE_MILESTONE"
           due == {x \in {y \in Milestones : Reached(a, y)} : Due(a, kind, x.period)}
           issue == {Row(a, kind, x.period) : x \in due}
           prize(i) == (CHOOSE x \in due : x.period = i.period).amount
           new == [i \in issue |-> Fresh(prize(i))]
<1>1. /\ Doing("milestones", a) /\ Done /\ UNCHANGED <<rank, travel, claimed>>
      /\ UNCHANGED <<now, sub, pool, payout, requests, history>> /\ Credit(a, new)
  BY DEF CheckMilestones
<1>2. LedgerOK(ledger) /\ kind \in BonusTypes /\ kind \in Credited
  BY DEF Base, BonusTypes, Credited
<1>3. due \subseteq Milestones /\ \A x \in Milestones : x.period \in Nat /\ x.amount \in Nat
  BY AmbassadorConstants
<1>4. IsFiniteSet(due)
  BY <1>3, AmbassadorConstants, FS_Subset
<1>5. IsFiniteSet(issue)
  <2> DEFINE f == [x \in due |-> Row(a, kind, x.period)]
  <2>1. f \in Surjection(due, issue)
    BY DEF Surjection
  <2> HIDE DEF f, issue, due
  <2> QED BY <1>4, <2>1, FS_Surjection
<1>6. ASSUME NEW i \in issue
      PROVE  /\ \E b \in Ambassadors, period \in Nat :
                   Due(b, kind, period) /\ i = Row(b, kind, period)
             /\ Fresh(prize(i)) \in Item /\ i.amb = a
  <2>1. PICK x \in due : i = Row(a, kind, x.period)
    OBVIOUS
  <2>2. i.period = x.period /\ i.amb = a
    BY <2>1 DEF Row
  <2>3. \E y \in due : y.period = i.period
    BY <2>2
  <2>4. prize(i) \in Nat
    <3> HIDE DEF due
    <3> QED BY <1>3, <2>3
  <2>5. Due(a, kind, x.period) /\ x.period \in Nat
    BY <1>3
  <2> HIDE DEF prize
  <2> QED BY <2>1, <2>2, <2>4, <2>5, FreshIsItem
<1>7. DOMAIN new = issue /\ \A i \in issue : new[i] = Fresh(prize(i))
  OBVIOUS
<1>8. new = [i \in DOMAIN new |-> new[i]]
  OBVIOUS
<1> HIDE DEF new, prize, issue
<1>9. Adding(new) /\ \A i \in DOMAIN new : i.copy = 1 /\ i.kind = kind
  <2>1. \A i \in DOMAIN new :
           \E b \in Ambassadors, period \in Nat :
              Due(b, kind, period) /\ i = Row(b, kind, period) /\ new[i] \in Item
    BY <1>6, <1>7
  <2> HIDE DEF kind
  <2> QED BY <1>2, <1>5, <1>7, <1>8, <2>1, DueAdds
<1>10. Credits(a, new)
  BY <1>1, <1>2, <1>6, <1>7, <1>9 DEF Credits
<1>11. claimed' \in [Ambassadors -> 0..FastStartPeriods]
  BY <1>1 DEF Base, PeopleOK
<1> QED BY <1>1, <1>10, <1>11, CreditStep

\* What the calculation of a pool does: it writes the record of the month and the
\* first copies of the shares.
PoolStep(new) ==
    /\ Adding(new) /\ ledger' = Extended(new)
    /\ \A i \in DOMAIN new : i.copy = 1 /\ i.kind = "LEADERSHIP_POOL" /\ i.period = run.month

\* The shares are those of the sharers who have none yet.
NewShares(new) ==
    LET share == ShareOf(PoolFor(sub), Cardinality(Sharers))
        due == {a \in Sharers : Due(a, "LEADERSHIP_POOL", run.month)}
    IN new = IF share > 0
               THEN [i \in {Row(a, "LEADERSHIP_POOL", run.month) : a \in due} |-> Fresh(share)]
               ELSE << >>

LEMMA PoolCalculated ==
    ASSUME Base, CalculatePool
    PROVE  /\ Base' /\ \E new : PoolStep(new) /\ NewShares(new)
           /\ PoolFor(sub) \in Nat /\ IsFiniteSet(Sharers)
           /\ ShareOf(PoolFor(sub), Cardinality(Sharers)) \in Nat
<1> DEFINE m == run.month
           kind == "LEADERSHIP_POOL"
           n == Cardinality(Sharers)
           share == ShareOf(PoolFor(sub), n)
           due == {a \in Sharers : Due(a, kind, m)}
           issue == {Row(a, kind, m) : a \in due}
           new == [i \in issue |-> Fresh(share)]
<1>1. Sharers \subseteq Ambassadors /\ IsFiniteSet(Sharers) /\ IsFiniteSet(due)
  <2>1. Sharers \subseteq Ambassadors /\ due \subseteq Ambassadors
    BY DEF Sharers
  <2> QED BY <2>1, SomeAmbassadors
<1>2. n \in Nat /\ PoolFor(sub) \in Nat /\ m \in Months /\ m \in Nat
  <2>1. sub \in Subscriptions /\ m \in Months
    BY DEF Base, WorldOK, RunOK, Subscriptions
  <2> QED BY <1>1, <2>1, PoolIsWhole, FS_CardinalityType, AmbassadorConstants DEF Months
<1>3. share \in Nat
  <2> HIDE DEF n
  <2>1. CASE n > 0
    <3>1. share = (2 * PoolFor(sub) + n) \div (2 * n)
      BY <2>1 DEF ShareOf, Rounded
    <3> HIDE DEF share
    <3>2. \A x, y \in Nat : y > 0 => (2 * x + y) \div (2 * y) \in Nat
      <4>1. \A x, y \in Nat : y > 0 => x \div y \in Nat
        OBVIOUS
      <4> QED BY <4>1
    <3> QED BY <1>2, <2>1, <3>1, <3>2
  <2>2. CASE ~(n > 0)
    BY <2>2 DEF ShareOf
  <2> QED BY <2>1, <2>2
<1>4. /\ run.busy /\ run.pool /\ run.todo = {} /\ run.who = Nobody
      /\ pool' = [k \in DOMAIN pool \union {m} |->
                    IF k = m THEN [total |-> PoolFor(sub), eligible |-> n, share |-> share] ELSE pool[k]]
      /\ ledger' = IF share > 0 THEN Extended(new) ELSE ledger
      /\ run' = [run EXCEPT !.pool = FALSE]
      /\ UNCHANGED <<now, sub, people, payout, requests, history>>
  BY DEF CalculatePool
<1>5. LedgerOK(ledger) /\ kind \in BonusTypes
  BY DEF Base, BonusTypes
<1> HIDE DEF n, share
<1>6. IsFiniteSet(issue)
  <2> DEFINE f == [a \in due |-> Row(a, kind, m)]
  <2>1. f \in Surjection(due, issue)
    BY DEF Surjection
  <2> HIDE DEF f, issue, due
  <2> QED BY <1>1, <2>1, FS_Surjection
<1>7. Adding(new) /\ \A i \in DOMAIN new : i.copy = 1 /\ i.kind = kind
  <2>1. \A i \in issue : \E a \in Ambassadors, period \in Nat :
           Due(a, kind, period) /\ i = Row(a, kind, period)
    BY <1>1, <1>2
  <2>2. Fresh(share) \in Item
    BY <1>3, FreshIsItem
  <2>3. DOMAIN new = issue /\ (\A i \in issue : new[i] = Fresh(share))
        /\ new = [i \in DOMAIN new |-> new[i]]
    OBVIOUS
  <2> HIDE DEF new, issue, kind, due
  <2> QED BY <1>5, <1>6, <2>1, <2>2, <2>3, DueAdds
<1>8. \A i \in DOMAIN new : i.period = m
  BY DEF Row
<1>9. \E u : PoolStep(u) /\ NewShares(u)
  <2>1. CASE share > 0
    <3>1. ledger' = Extended(new)
      BY <1>4, <2>1
    <3>2. NewShares(new)
      BY <2>1 DEF NewShares, share, n
    <3> HIDE DEF new
    <3> QED BY <1>7, <1>8, <3>1, <3>2 DEF PoolStep
  <2>2. CASE ~(share > 0)
    <3>1. PoolStep(<< >>)
      BY <1>4, <1>5, <2>2, NothingAdds DEF PoolStep
    <3>2. NewShares(<< >>)
      BY <2>2 DEF NewShares, share, n
    <3> QED BY <3>1, <3>2
  <2> QED BY <2>1, <2>2
<1>10. PICK u : PoolStep(u)
  BY <1>9
<1>11. LedgerOK(ledger)' /\ DOMAIN ledger \subseteq DOMAIN ledger'
  BY <1>5, <1>10, ExtendedOK DEF PoolStep
<1>12. PoolsOK(pool)'
  <2>1. DOMAIN pool' = DOMAIN pool \union {m}
        /\ \A k \in DOMAIN pool' : pool'[k] =
             IF k = m THEN [total |-> PoolFor(sub), eligible |-> n, share |-> share] ELSE pool[k]
    BY <1>4
  <2> QED BY <1>2, <1>3, <2>1 DEF Base, PoolsOK
<1>13. RunOK' /\ run'.busy /\ run'.saved = run.saved
  <2>1. /\ run'.todo = run.todo /\ run'.who = run.who /\ run'.left = run.left
        /\ run'.steps = run.steps /\ run'.month = run.month /\ run'.busy = run.busy
        /\ run'.saved = run.saved /\ run'.pool = FALSE /\ DOMAIN run' = DOMAIN run
    BY <1>4 DEF Base, RunOK
  <2>2. run'.left \in Rest(run'.steps)
    BY <2>1 DEF Base, RunOK
  <2>3. (run.left \in Rest(run.steps))'
    BY <2>2 DEF Rest, Cycle
  <2>4. (run.steps \in {Cycle, <<"rank">>, <<"commission">>, << >>})'
    BY <2>1 DEF Base, RunOK, Cycle
  <2> QED BY <1>4, <2>1, <2>3, <2>4 DEF Base, RunOK
<1>14. PayoutsOK(ledger)' /\ SavedOK(run.saved)' /\ WorldOK'
  <2>1. PayoutsOK(ledger')
    BY <1>11, PayoutsKeep DEF Base
  <2>2. SavedOK(run.saved)
    BY <1>4 DEF Base
  <2> QED BY <1>4, <1>13, <2>1, <2>2 DEF Base, WorldOK, PayoutsOK, SavedOK, history
<1>15. PeopleOK(rank, claimed, earned, travel)'
  BY <1>4 DEF Base, people
<1>16. Base'
  BY <1>11, <1>12, <1>13, <1>14, <1>15 DEF Base
<1> QED BY <1>1, <1>2, <1>3, <1>9, <1>16 DEF share, n

LEMMA TurnStep == ASSUME Base, NEW a \in Ambassadors, Turn(a) PROVE Base'
<1>1. /\ run.who = Nobody /\ a \in run.todo
      /\ run' = [run EXCEPT !.who = a, !.todo = @ \ {a}, !.left = run.steps]
      /\ UNCHANGED <<now, sub, people, money, requests, history>>
  BY DEF Turn
<1>2. /\ run'.todo = run.todo \ {a} /\ run'.who = a /\ run'.left = run.steps
      /\ run'.steps = run.steps /\ run'.month = run.month /\ run'.busy = run.busy
      /\ run'.saved = run.saved /\ run'.pool = run.pool /\ DOMAIN run' = DOMAIN run
  BY <1>1 DEF Base, RunOK
<1>3. run.busy
  BY <1>1 DEF Base, RunOK
<1>4. RunOK'
  <2>1. run'.left \in Rest(run'.steps)
    BY <1>2 DEF Rest
  <2>2. (run.left \in Rest(run.steps))'
    BY <2>1 DEF Rest, Cycle
  <2>3. (run.steps \in {Cycle, <<"rank">>, <<"commission">>, << >>})'
    BY <1>2 DEF Base, RunOK, Cycle
  <2> QED BY <1>2, <1>3, <2>2, <2>3 DEF Base, RunOK
<1>5. PayoutsOK(ledger)' /\ SavedOK(run.saved)' /\ WorldOK' /\ LedgerOK(ledger)' /\ PoolsOK(pool)'
  BY <1>1, <1>2, <1>3 DEF Base, WorldOK, PayoutsOK, SavedOK, PoolsOK, LedgerOK, history, money
<1>6. PeopleOK(rank, claimed, earned, travel)'
  BY <1>1 DEF Base, people
<1> QED BY <1>4, <1>5, <1>6 DEF Base

LEMMA IdleIsOK == ASSUME run' = Idle PROVE RunOK' /\ ~run'.busy
<1>1. 1 \in Months
  BY AmbassadorConstants DEF Months
<1>2. << >> # Cycle
  BY DEF Cycle
<1> QED BY <1>1, <1>2 DEF RunOK, Idle, Rest

LEMMA CommitStep == ASSUME Base, Commit PROVE Base'
<1>1. RunOK' /\ ~run'.busy
  BY IdleIsOK DEF Commit
<1> QED BY <1>1 DEF Base, WorldOK, PayoutsOK, PoolsOK, LedgerOK, PeopleOK, Commit, people, money, history

LEMMA RollBackStep == ASSUME Base, RollBack PROVE Base'
<1>1. RunOK' /\ ~run'.busy
  BY IdleIsOK DEF RollBack
<1>2. SavedOK(run.saved)
  BY DEF Base, RollBack
<1>3. PeopleOK(rank', claimed', earned', travel') /\ LedgerOK(ledger') /\ PoolsOK(pool')
      /\ PayoutsOK(ledger')
  BY <1>2 DEF SavedOK, RollBack
<1>4. PeopleOK(rank, claimed, earned, travel)' /\ LedgerOK(ledger)' /\ PoolsOK(pool)'
      /\ PayoutsOK(ledger)'
  <2>1. payout' = payout
    BY DEF RollBack
  <2> QED BY <1>3, <2>1 DEF PayoutsOK
<1>5. WorldOK'
  BY DEF Base, WorldOK, RollBack, history
<1> QED BY <1>1, <1>4, <1>5 DEF Base

\* What an admin does by hand: no request is running, and the ledger keeps its rows.
ByAdmin ==
    /\ Request /\ ~run.busy /\ UNCHANGED <<now, sub, claimed, earned, pool, run, pooled>>
    /\ DOMAIN ledger \subseteq DOMAIN ledger'

\* A row more of one ambassador, type and period.
HandAdds(new) ==
    /\ ByAdmin /\ Adding(new) /\ ledger' = Extended(new) /\ UNCHANGED <<payout, disputed>>
    /\ \A i \in DOMAIN new : i.kind \in BonusTypes /\ (tidy' => i.kind = "RANK_ADVANCEMENT")
    /\ tidy' => tidy

LEMMA PromoteStep ==
    ASSUME Base, NEW a \in Ambassadors, NEW r \in HandRanks, Promote(a, r)
    PROVE  Base' /\ \E new : HandAdds(new)
<1>1. r \in Ranks /\ r \in Nat /\ AdvancementBonus(r) \in Int
  BY AmbassadorConstants DEF Ranks, AdvancementBonus
<1>2. LedgerOK(ledger) /\ "RANK_ADVANCEMENT" \in BonusTypes
  BY DEF Base, BonusTypes
<1>3. PICK new : /\ Adding(new) /\ ledger' = Extended(new)
                 /\ \A i \in DOMAIN new : i.kind = "RANK_ADVANCEMENT"
  <2>1. CASE AdvancementBonus(r) > 0
    <3> DEFINE n == [i \in {Row(a, "RANK_ADVANCEMENT", r)} |-> Fresh(AdvancementBonus(r))]
    <3>1. Adding(n)
      BY <1>1, <1>2, RowAdds DEF Promote
    <3>2. ledger' = Extended(n)
      BY <2>1 DEF Promote
    <3>3. \A i \in DOMAIN n : i.kind = "RANK_ADVANCEMENT"
      BY DEF Row
    <3> HIDE DEF n
    <3> QED BY <3>1, <3>2, <3>3
  <2>2. CASE ~(AdvancementBonus(r) > 0)
    <3>1. ledger' = ledger
      BY <2>2 DEF Promote
    <3> QED BY <1>2, <3>1, NothingAdds
  <2> QED BY <2>1, <2>2
<1>4. LedgerOK(ledger') /\ DOMAIN ledger \subseteq DOMAIN ledger'
  BY <1>2, <1>3, ExtendedOK
<1>5. /\ Request /\ rank' = [rank EXCEPT ![a] = r] /\ UNCHANGED <<claimed, earned, travel>>
      /\ UNCHANGED <<now, sub, pool, run, pooled, payout, tidy, disputed>>
  BY DEF Promote, history
<1>6. PeopleOK(rank', claimed', earned', travel')
  BY <1>1, <1>5 DEF Base, PeopleOK
<1>7. PayoutsOK(ledger)' /\ tidy' \in BOOLEAN
  <2>1. PayoutsOK(ledger')
    BY <1>4, PayoutsKeep DEF Base
  <2> QED BY <1>5, <2>1 DEF PayoutsOK, Base, WorldOK
<1>8. Base'
  BY <1>4, <1>5, <1>6, <1>7, HandStep
<1>9. HandAdds(new)
  BY <1>2, <1>3, <1>4, <1>5 DEF HandAdds, ByAdmin, Request
<1> QED BY <1>8, <1>9

LEMMA BonusByHandStep ==
    ASSUME Base, NEW a \in Ambassadors, NEW b \in HandBonuses, CreateBonus(a, b)
    PROVE  Base' /\ \E new : HandAdds(new)
<1>1. b.kind \in BonusTypes /\ b.period \in Nat /\ b.amount \in Int
  BY AmbassadorConstants
<1>2. LedgerOK(ledger)
  BY DEF Base
<1> DEFINE new == [i \in {Row(a, b.kind, b.period)} |-> Fresh(b.amount)]
<1>3. Adding(new)
  BY <1>1, <1>2, RowAdds DEF CreateBonus
<1>4. \A i \in DOMAIN new : i.kind = b.kind
  BY DEF Row
<1>5. /\ Request /\ ledger' = Extended(new) /\ tidy' = FALSE /\ UNCHANGED <<rank, claimed, earned, travel>>
      /\ UNCHANGED <<now, sub, pool, run, pooled, payout, disputed>>
  BY DEF CreateBonus, people
<1> HIDE DEF new
<1>6. LedgerOK(ledger') /\ DOMAIN ledger \subseteq DOMAIN ledger'
  BY <1>2, <1>3, <1>5, ExtendedOK
<1>7. PeopleOK(rank', claimed', earned', travel')
  BY <1>5 DEF Base, PeopleOK
<1>8. PayoutsOK(ledger)'
  <2>1. PayoutsOK(ledger')
    BY <1>6, PayoutsKeep DEF Base
  <2> QED BY <1>5, <2>1 DEF PayoutsOK
<1>9. Base'
  BY <1>5, <1>6, <1>7, <1>8, HandStep
<1>10. HandAdds(new)
  BY <1>1, <1>3, <1>4, <1>5, <1>6 DEF HandAdds, ByAdmin, Request
<1> QED BY <1>9, <1>10

\* An admin marks items of the ledger, and sees to the payouts.
LEMMA MarkStep ==
    ASSUME Base, ByAdmin, Rewritten(ledger'), UNCHANGED <<rank, travel>>, tidy' \in BOOLEAN,
           PayoutsOK(ledger)'
    PROVE  Base'
<1>1. LedgerOK(ledger')
  BY RewrittenOK DEF Base
<1>2. PeopleOK(rank', claimed', earned', travel')
  BY DEF Base, PeopleOK, ByAdmin
<1> QED BY <1>1, <1>2, HandStep DEF ByAdmin

LEMMA EditStep ==
    ASSUME Base, Editing
    PROVE  Base' /\ ~tidy' /\ ByAdmin /\ UNCHANGED payout /\ Rewritten(ledger')
           /\ \E i \in DOMAIN ledger : disputed' = disputed \union {i}
                                       /\ \A j \in DOMAIN ledger \ {i} : ledger'[j] = ledger[j]
<1>1. PICK i \in DOMAIN ledger, new \in Item : UpdateItem(i, new)
  <2>1. PICK i \in DOMAIN ledger :
          \E new \in {[ledger[i] EXCEPT !.status = s] : s \in {"PENDING", "PAID"}}
                       \union {[ledger[i] EXCEPT !.amount = HandAmount]} :
             UpdateCommission(i, new) \/ UpdateBonus(i, new)
    BY DEF Editing
  <2>2. PICK new \in {[ledger[i] EXCEPT !.status = s] : s \in {"PENDING", "PAID"}}
                       \union {[ledger[i] EXCEPT !.amount = HandAmount]} :
             UpdateCommission(i, new) \/ UpdateBonus(i, new)
    BY <2>1
  <2>3. ledger[i] \in Item
    BY DEF Base, LedgerOK
  <2>4. new \in Item
    BY <2>2, <2>3, AmbassadorConstants DEF Item
  <2> QED BY <2>2, <2>4 DEF UpdateCommission, UpdateBonus
<1>2. /\ Request /\ ledger' = [ledger EXCEPT ![i] = new] /\ tidy' = FALSE
      /\ disputed' = disputed \union {i}
      /\ UNCHANGED <<now, sub, rank, claimed, earned, travel, pool, payout, run, pooled>>
  BY <1>1 DEF UpdateItem, people
<1>3. Rewritten(ledger') /\ \A j \in DOMAIN ledger \ {i} : ledger'[j] = ledger[j]
  BY <1>1, <1>2 DEF Base, LedgerOK, Rewritten
<1>4. ByAdmin
  BY <1>2, <1>3 DEF ByAdmin, Request, Rewritten
<1>5. PayoutsOK(ledger)'
  <2>1. PayoutsOK(ledger')
    BY <1>3, PayoutsKeep DEF Base, Rewritten
  <2> QED BY <1>2, <2>1 DEF PayoutsOK
<1> QED BY <1>1, <1>2, <1>3, <1>4, <1>5, MarkStep

LEMMA ApproveStep ==
    ASSUME Base, NEW S, S \subseteq DOMAIN ledger, BulkApprove(S)
    PROVE  Base' /\ ByAdmin /\ UNCHANGED <<payout, disputed, tidy>>
           /\ ledger' = Marked({i \in S : ledger[i].status = "PENDING"}, "PAID")
           /\ Rewritten(ledger')
<1>1. /\ Request /\ ledger' = Marked({i \in S : ledger[i].status = "PENDING"}, "PAID")
      /\ UNCHANGED <<now, sub, rank, claimed, earned, travel, pool, payout, run, pooled, tidy, disputed>>
  BY DEF BulkApprove, people, history
<1>2. Rewritten(ledger')
  BY <1>1, MarkedOK DEF Base
<1>3. ByAdmin
  BY <1>1, <1>2 DEF ByAdmin, Request, Rewritten
<1>4. PayoutsOK(ledger)' /\ tidy' \in BOOLEAN
  <2>1. PayoutsOK(ledger')
    BY <1>2, PayoutsKeep DEF Base, Rewritten
  <2> QED BY <1>1, <2>1 DEF PayoutsOK, Base, WorldOK
<1> QED BY <1>1, <1>2, <1>3, <1>4, MarkStep

LEMMA CreatePayoutStep ==
    ASSUME Base, NEW p \in 1..MaxPayouts, NEW a \in Ambassadors, NEW S \in SUBSET DOMAIN ledger,
           NEW twice \in SUBSET S, CreatePayout(p, a, S, twice)
    PROVE  Base' /\ ByAdmin /\ Rewritten(ledger') /\ UNCHANGED tidy
<1> DEFINE total == TotalOf(S) + TotalOf(twice)
<1>1. /\ Request /\ ledger' = Marked(S, "PAID")
      /\ payout' = [q \in DOMAIN payout \union {p} |->
            IF q = p THEN [amb |-> a, items |-> S, total |-> total, status |-> "PENDING"]
                     ELSE payout[q]]
      /\ UNCHANGED <<now, sub, rank, claimed, earned, travel, pool, run, pooled, tidy>>
  BY DEF CreatePayout, people
<1>2. Rewritten(ledger')
  BY <1>1, MarkedOK DEF Base
<1>3. ByAdmin
  BY <1>1, <1>2 DEF ByAdmin, Request, Rewritten
<1>4. total \in Int
  <2>1. ASSUME NEW T \in SUBSET DOMAIN ledger PROVE TotalOf(T) \in Int
    <3>1. IsFiniteSet(T) /\ \A i \in T : AmountsIn(ledger)[i] \in Int
      BY FS_Subset, AmountsAreWhole DEF Base, LedgerOK
    <3> QED BY <3>1, SumTakes DEF TotalOf, Amounts, AmountsIn
  <2>2. TotalOf(S) \in Int /\ TotalOf(twice) \in Int
    BY <2>1
  <2> QED BY <2>2
<1> HIDE DEF total
<1>5. PayoutsOK(ledger)' /\ tidy' \in BOOLEAN
  <2>1. /\ DOMAIN payout' = DOMAIN payout \union {p}
        /\ \A q \in DOMAIN payout' : payout'[q] =
             IF q = p THEN [amb |-> a, items |-> S, total |-> total, status |-> "PENDING"]
                      ELSE payout[q]
    BY <1>1
  <2>2. DOMAIN ledger' = DOMAIN ledger /\ "PENDING" \in PayoutStatuses
    BY <1>2 DEF Rewritten, PayoutStatuses
  <2> QED BY <1>1, <1>4, <2>1, <2>2 DEF Base, PayoutsOK, WorldOK
<1> QED BY <1>1, <1>2, <1>3, <1>5, MarkStep

LEMMA UpdatePayoutStep ==
    ASSUME Base, NEW p \in DOMAIN payout, NEW status \in PayoutStatuses, UpdatePayout(p, status)
    PROVE  Base' /\ ByAdmin /\ Rewritten(ledger') /\ UNCHANGED <<disputed, tidy>>
<1>1. /\ Request /\ payout' = [payout EXCEPT ![p].status = status]
      /\ ledger' = IF status = "PAID" THEN Marked(payout[p].items, "PAID") ELSE ledger
      /\ UNCHANGED <<now, sub, rank, claimed, earned, travel, pool, run, pooled, tidy, disputed>>
  BY DEF UpdatePayout, people, history
<1>2. Rewritten(ledger')
  <2>1. Rewritten(ledger)
    BY DEF Base, LedgerOK, Rewritten
  <2> QED BY <1>1, <2>1, MarkedOK DEF Base
<1>3. ByAdmin
  BY <1>1, <1>2 DEF ByAdmin, Request, Rewritten
<1>4. PayoutsOK(ledger)' /\ tidy' \in BOOLEAN
  BY <1>1, <1>2 DEF Base, PayoutsOK, WorldOK, Rewritten
<1> QED BY <1>1, <1>2, <1>3, <1>4, MarkStep

LEMMA BulkUpdateStep ==
    ASSUME Base, NEW P, NEW status \in PayoutStatuses, BulkUpdatePayouts(P, status)
    PROVE  Base' /\ ByAdmin /\ UNCHANGED <<ledger, disputed, tidy>>
<1>1. /\ Request
      /\ payout' = [p \in DOMAIN payout |->
                      IF p \in P THEN [payout[p] EXCEPT !.status = status] ELSE payout[p]]
      /\ UNCHANGED <<now, sub, rank, claimed, earned, travel, ledger, pool, run, pooled, tidy, disputed>>
  BY DEF BulkUpdatePayouts, people, history
<1>2. Rewritten(ledger')
  BY <1>1 DEF Base, LedgerOK, Rewritten
<1>3. ByAdmin
  BY <1>1, <1>2 DEF ByAdmin, Request, Rewritten
<1>4. PayoutsOK(ledger)' /\ tidy' \in BOOLEAN
  BY <1>1 DEF Base, PayoutsOK, WorldOK
<1> QED BY <1>1, <1>2, <1>3, <1>4, MarkStep

LEMMA CancelStep ==
    ASSUME Base, NEW p \in DOMAIN payout, CancelPayout(p)
    PROVE  Base' /\ ByAdmin /\ Rewritten(ledger') /\ UNCHANGED <<disputed, tidy>>
<1>1. /\ Request /\ payout' = [q \in DOMAIN payout \ {p} |-> payout[q]]
      /\ ledger' = Marked(payout[p].items, "PENDING")
      /\ UNCHANGED <<now, sub, rank, claimed, earned, travel, pool, run, pooled, tidy, disputed>>
  BY DEF CancelPayout, people, history
<1>2. Rewritten(ledger')
  BY <1>1, MarkedOK DEF Base
<1>3. ByAdmin
  BY <1>1, <1>2 DEF ByAdmin, Request, Rewritten
<1>4. PayoutsOK(ledger)' /\ tidy' \in BOOLEAN
  BY <1>1, <1>2 DEF Base, PayoutsOK, WorldOK, Rewritten
<1> QED BY <1>1, <1>2, <1>3, <1>4, MarkStep

LEMMA TravelStep ==
    ASSUME Base, Travelling
    PROVE  Base' /\ UNCHANGED <<ledger, payout, pool, earned, run, history>>
<1>1. ASSUME NEW a \in Ambassadors, NEW r \in Ranks, NEW status \in TravelStatuses,
             Request, travel' = [travel EXCEPT ![<<a, r>>] = status],
             UNCHANGED <<now, sub, rank, claimed, earned, ledger, pool, payout, run, history>>
      PROVE  Base' /\ UNCHANGED <<ledger, payout, pool, earned, run, history>>
  <2>1. PeopleOK(rank', claimed', earned', travel')
    BY <1>1 DEF Base, PeopleOK
  <2>2. LedgerOK(ledger') /\ PayoutsOK(ledger)' /\ tidy' \in BOOLEAN
    BY <1>1 DEF Base, PayoutsOK, WorldOK, history
  <2> QED BY <1>1, <2>1, <2>2, HandStep DEF history
<1>2. "AWARDED" \in TravelStatuses
  BY DEF TravelStatuses
<1>3. \A a \in Ambassadors : rank[a] \in Ranks
  BY DEF Base, PeopleOK
<1> QED BY <1>1, <1>2, <1>3 DEF Travelling, AwardTravel, UpdateTravel

LEMMA OutsideStep ==
    ASSUME Base, (\E a \in Ambassadors : \E s \in MayHold[a] : Churn(a, s)) \/ Elapse
    PROVE  Base' /\ UNCHANGED <<people, money, run, requests, history>>
<1>1. sub' \in [Ambassadors -> Subscribed] /\ now' \in Months
  <2>1. \A a \in Ambassadors : MayHold[a] \subseteq Subscribed
    BY AmbassadorConstants
  <2>2. sub' \in [Ambassadors -> Subscribed]
    BY <2>1 DEF Base, WorldOK, Churn, Elapse
  <2>3. MaxMonth \in Nat
    BY AmbassadorConstants
  <2>4. now' \in Months
    BY <2>3 DEF Base, WorldOK, Churn, Elapse, Months
  <2> QED BY <2>2, <2>4
<1>2. UNCHANGED <<people, money, run, requests, history>>
  BY DEF Churn, Elapse
<1>3. WorldOK'
  BY <1>1, <1>2 DEF Base, WorldOK, history
<1>4. PeopleOK(rank, claimed, earned, travel)' /\ LedgerOK(ledger)' /\ PoolsOK(pool)'
      /\ PayoutsOK(ledger)' /\ (run.busy => SavedOK(run.saved))'
  BY <1>2 DEF Base, PeopleOK, LedgerOK, PoolsOK, PayoutsOK, SavedOK, people, money
<1>5. RunOK'
  BY <1>2 DEF Base, RunOK
<1> QED BY <1>2, <1>3, <1>4, <1>5 DEF Base

LEMMA StutterKeepsBase == ASSUME Base, UNCHANGED vars PROVE Base'
<1>1. UNCHANGED <<now, sub, rank, claimed, earned, travel, ledger, pool, payout, run, requests,
                  tidy, disputed, pooled>>
  BY DEF vars, people, money, history
<1>2. WorldOK' /\ PeopleOK(rank, claimed, earned, travel)' /\ LedgerOK(ledger)' /\ PoolsOK(pool)'
      /\ PayoutsOK(ledger)' /\ (run.busy => SavedOK(run.saved))'
  BY <1>1 DEF Base, WorldOK, PeopleOK, LedgerOK, PoolsOK, PayoutsOK, SavedOK
<1>3. RunOK'
  BY <1>1 DEF Base, RunOK
<1> QED BY <1>2, <1>3 DEF Base

LEMMA PayingStep ==
    ASSUME Base, PayingOut
    PROVE  Base' /\ ByAdmin /\ Rewritten(ledger') /\ UNCHANGED tidy
<1>1. ASSUME NEW i \in DOMAIN ledger, BulkApprove({i})
      PROVE  Base' /\ ByAdmin /\ Rewritten(ledger') /\ UNCHANGED tidy
  BY <1>1, ApproveStep
<1>2. ASSUME NEW p \in 1..MaxPayouts, NEW a \in Ambassadors, NEW S \in SUBSET DOMAIN ledger,
             NEW twice \in SUBSET S, CreatePayout(p, a, S, twice)
      PROVE  Base' /\ ByAdmin /\ Rewritten(ledger') /\ UNCHANGED tidy
  BY <1>2, CreatePayoutStep
<1>3. ASSUME NEW p \in DOMAIN payout, NEW status \in PayoutStatuses, UpdatePayout(p, status)
      PROVE  Base' /\ ByAdmin /\ Rewritten(ledger') /\ UNCHANGED tidy
  BY <1>3, UpdatePayoutStep
<1>4. ASSUME NEW status \in PayoutStatuses, BulkUpdatePayouts(DOMAIN payout, status)
      PROVE  Base' /\ ByAdmin /\ Rewritten(ledger') /\ UNCHANGED tidy
  BY <1>4, BulkUpdateStep DEF Base, LedgerOK, Rewritten
<1>5. ASSUME NEW p \in DOMAIN payout, CancelPayout(p)
      PROVE  Base' /\ ByAdmin /\ Rewritten(ledger') /\ UNCHANGED tidy
  BY <1>5, CancelStep
<1>6. ASSUME NEW p \in 1..MaxPayouts, NEW a \in Ambassadors,
             NEW i \in DOMAIN ledger, NEW j \in DOMAIN ledger, NEW twice \in SUBSET {i},
             CreatePayout(p, a, {i, j}, twice)
      PROVE  Base' /\ ByAdmin /\ Rewritten(ledger') /\ UNCHANGED tidy
  <2>1. {i, j} \in SUBSET DOMAIN ledger /\ twice \in SUBSET {i, j}
    OBVIOUS
  <2> QED BY <1>2, <1>6, <2>1
<1> QED BY <1>1, <1>3, <1>4, <1>5, <1>6 DEF PayingOut

\* What one step of the service for an ambassador, or for the pool, adds.
LEMMA WorkingStep ==
    ASSUME Base, Working
    PROVE  Base' /\ (RollBack \/ \A i \in DOMAIN ledger' \ DOMAIN ledger : i.copy = 1)
<1>1. ASSUME NEW new, Adding(new), ledger' = Extended(new), \A i \in DOMAIN new : i.copy = 1
      PROVE  \A i \in DOMAIN ledger' \ DOMAIN ledger : i.copy = 1
  BY <1>1, ExtendedOK DEF Base
<1>2. ASSUME NEW a \in Ambassadors, Turn(a)
      PROVE  Base' /\ \A i \in DOMAIN ledger' \ DOMAIN ledger : i.copy = 1
  BY <1>2, TurnStep DEF Turn, money
<1>3. ASSUME NEW a \in Ambassadors, EvaluateRank(a)
      PROVE  Base' /\ \A i \in DOMAIN ledger' \ DOMAIN ledger : i.copy = 1
  BY <1>1, <1>3, RankStep
<1>4. ASSUME NEW a \in Ambassadors, CalculateCommission(a)
      PROVE  Base' /\ \A i \in DOMAIN ledger' \ DOMAIN ledger : i.copy = 1
  <2>1. Base' /\ Calculates(a, run.month)
    BY <1>4, CommissionStep
  <2>2. CommissionOf(a, run.month).copy = 1
    BY DEF CommissionOf
  <2>3. DOMAIN ledger' = DOMAIN ledger \union {CommissionOf(a, run.month)}
    BY <2>1 DEF Calculates
  <2> QED BY <2>1, <2>2, <2>3
<1>5. ASSUME NEW a \in Ambassadors,
             CalculateLoyalty(a) \/ CheckFastStart(a) \/ CheckMilestones(a)
      PROVE  Base' /\ \A i \in DOMAIN ledger' \ DOMAIN ledger : i.copy = 1
  <2>1. Base' /\ \E new : Credits(a, new)
    BY <1>5, LoyaltyStep, FastStartStep, MilestoneStep
  <2> QED BY <1>1, <2>1 DEF Credits, Credit
<1>6. ASSUME CalculatePool
      PROVE  Base' /\ \A i \in DOMAIN ledger' \ DOMAIN ledger : i.copy = 1
  BY <1>1, <1>6, PoolCalculated DEF PoolStep
<1>7. ASSUME Commit
      PROVE  Base' /\ \A i \in DOMAIN ledger' \ DOMAIN ledger : i.copy = 1
  BY <1>7, CommitStep DEF Commit, money
<1>8. ASSUME RollBack PROVE Base'
  BY <1>8, RollBackStep
<1> QED BY <1>2, <1>3, <1>4, <1>5, <1>6, <1>7, <1>8 DEF Working

LEMMA BaseStep ==
    ASSUME Base, [Next]_vars
    PROVE  Base' /\ (ByHand \/ RollBack \/ \A i \in DOMAIN ledger' \ DOMAIN ledger : i.copy = 1)
<1>1. CASE Ranking
  <2>1. ledger' = ledger
    BY <1>1 DEF Ranking, RunMonthlyCycle, RecalculatePool, EvaluateRanks, RecalculateCommissions,
                Start, money
  <2> QED BY <1>1, <2>1, StepsThatStart
<1>2. CASE Working
  BY <1>2, WorkingStep
<1>3. CASE ByHand
  BY <1>3, PromoteStep, BonusByHandStep DEF ByHand
<1>4. CASE Editing
  BY <1>4, EditStep DEF Rewritten
<1>5. CASE PayingOut
  BY <1>5, PayingStep DEF Rewritten
<1>6. CASE Travelling
  BY <1>6, TravelStep
<1>7. CASE (\E a \in Ambassadors : \E s \in MayHold[a] : Churn(a, s)) \/ Elapse
  BY <1>7, OutsideStep DEF money
<1>8. CASE UNCHANGED vars
  BY <1>8, StutterKeepsBase DEF vars, money
<1> QED BY <1>1, <1>2, <1>3, <1>4, <1>5, <1>6, <1>7, <1>8 DEF Next

LEMMA BaseHolds == Spec => []Base
<1>1. Base /\ [Next]_vars => Base'
  BY BaseStep
<1> QED BY BaseStart, <1>1, PTL DEF Spec

\* Whatever cycles, promotions, payouts and rollbacks come in whatever order, the
\* tables keep their types: a commission or bonus of an ambassador who exists,
\* amounts that are whole cents however the sums of the downline came about, a
\* payout of items that are still in the ledger.
THEOREM TypeCorrect == Spec => []TypeOK
BY BaseHolds, BaseIsTyped, PTL

----------------------------------------------------------------------------
(***************************************************************************)
(* Payouts.                                                                *)
(***************************************************************************)

\* Undisputed items of the payouts P are PAID, and an undisputed payout is their sum.
PaidIn(l, P, D) ==
    \A p \in DOMAIN P :
        /\ \A i \in P[p].items \ D : l[i].status = "PAID"
        /\ P[p].items \intersect D = {} => P[p].total = SumFunctionOnSet(AmountsIn(l), P[p].items)

\* Two payouts share only what is disputed.
PaidOnce(P, D) ==
    \A p, q \in DOMAIN P : p # q => P[p].items \intersect P[q].items \subseteq D

\* The same holds of what a rollback would bring back.
PaidOK ==
    /\ PaidIn(ledger, payout, disputed) /\ PaidOnce(payout, disputed)
    /\ run.busy => PaidIn(run.saved.ledger, payout, disputed)

\* Undisputed items may be rewritten, as long as they stay PAID and what they are worth.
LEMMA PaidStays ==
    ASSUME NEW l, LedgerOK(l), NEW k, LedgerOK(k), DOMAIN l \subseteq DOMAIN k,
           NEW P, NEW D, NEW E, D \subseteq E, PaidIn(l, P, D),
           \A p \in DOMAIN P : P[p].items \subseteq DOMAIN l,
           \A i \in DOMAIN l \ E :
              (\E p \in DOMAIN P : i \in P[p].items) /\ l[i].status = "PAID"
                 => k[i].status = "PAID" /\ k[i].amount = l[i].amount
    PROVE  PaidIn(k, P, E)
<1> SUFFICES ASSUME NEW p \in DOMAIN P
             PROVE  /\ \A i \in P[p].items \ E : k[i].status = "PAID"
                    /\ P[p].items \intersect E = {}
                         => P[p].total = SumFunctionOnSet(AmountsIn(k), P[p].items)
  BY DEF PaidIn
<1>1. \A i \in P[p].items \ E : k[i].status = "PAID" /\ k[i].amount = l[i].amount
  BY DEF PaidIn
<1>2. ASSUME P[p].items \intersect E = {}
      PROVE  P[p].total = SumFunctionOnSet(AmountsIn(k), P[p].items)
  <2>1. P[p].total = SumFunctionOnSet(AmountsIn(l), P[p].items)
    BY <1>2 DEF PaidIn
  <2>2. IsFiniteSet(P[p].items)
    BY FS_Subset DEF LedgerOK
  <2>3. \A i \in P[p].items :
           AmountsIn(l)[i] \in Int /\ AmountsIn(l)[i] = AmountsIn(k)[i]
    BY <1>1, <1>2, AmountsAreWhole DEF LedgerOK
  <2> QED BY <2>1, <2>2, <2>3, SumSame
<1> QED BY <1>1, <1>2

\* What payouts have in them is in the ledger.
LEMMA ItemsAreThere ==
    ASSUME NEW l, PayoutsOK(l)
    PROVE  \A p \in DOMAIN payout : payout[p].items \subseteq DOMAIN l
BY DEF PayoutsOK

\* The status and the total of a payout are another matter than its items.
LEMMA PaidSameItems ==
    ASSUME NEW l, NEW P, NEW Q, NEW D, PaidIn(l, P, D), PaidOnce(P, D), DOMAIN Q = DOMAIN P,
           \A p \in DOMAIN P : Q[p].items = P[p].items /\ Q[p].total = P[p].total
    PROVE  PaidIn(l, Q, D) /\ PaidOnce(Q, D)
BY DEF PaidIn, PaidOnce

\* A step that leaves what is paid as it is, payouts and disputes included.
LEMMA PaidByService ==
    ASSUME Base, Base', PaidOK, UNCHANGED <<payout, disputed>>,
           DOMAIN ledger \subseteq DOMAIN ledger',
           \A i \in DOMAIN ledger : ledger[i].status = "PAID" => ledger'[i] = ledger[i],
           run'.busy => run.busy /\ run'.saved = run.saved
    PROVE  PaidOK'
<1>1. PaidIn(ledger', payout, disputed)
  <2>1. LedgerOK(ledger) /\ LedgerOK(ledger') /\ \A p \in DOMAIN payout : payout[p].items \subseteq DOMAIN ledger
    BY ItemsAreThere DEF Base
  <2> QED BY <2>1, PaidStays DEF PaidOK
<1> QED BY <1>1 DEF PaidOK

LEMMA PaidWorking == ASSUME Base, PaidOK, Working PROVE PaidOK'
<1>0. Base'
  BY WorkingStep
<1>1. ASSUME NEW new, Adding(new), ledger' = Extended(new)
      PROVE  DOMAIN ledger \subseteq DOMAIN ledger' /\ \A i \in DOMAIN ledger : ledger'[i] = ledger[i]
  BY <1>1, ExtendedOK DEF Base
<1>2. ASSUME NEW a \in Ambassadors, NEW step, Doing(step, a), Done
      PROVE  run'.busy => run.busy /\ run'.saved = run.saved
  BY <1>2, DoneOK
<1>3. ASSUME NEW a \in Ambassadors, Turn(a) PROVE PaidOK'
  <2>1. run'.busy = run.busy /\ run'.saved = run.saved
    BY <1>3 DEF Turn, Base, RunOK
  <2> QED BY <1>3, <2>1 DEF Turn, PaidOK, money, history
<1>4. ASSUME NEW a \in Ambassadors, EvaluateRank(a) PROVE PaidOK'
  <2>1. \E new : Adding(new) /\ ledger' = Extended(new)
    BY <1>4, RankStep
  <2>2. Doing("rank", a) /\ Done /\ UNCHANGED <<payout, disputed>>
    BY <1>4 DEF EvaluateRank, history
  <2> QED BY <1>0, <1>1, <1>2, <2>1, <2>2, PaidByService
<1>5. ASSUME NEW a \in Ambassadors, CalculateCommission(a) PROVE PaidOK'
  <2>1. Calculates(a, run.month)
    BY <1>5, CommissionStep
  <2>2. Doing("commission", a) /\ Done /\ UNCHANGED <<payout, disputed>>
    BY <1>5 DEF CalculateCommission, history
  <2>3. /\ DOMAIN ledger \subseteq DOMAIN ledger'
        /\ \A i \in DOMAIN ledger : ledger[i].status = "PAID" => ledger'[i] = ledger[i]
    BY <2>1 DEF Calculates
  <2> QED BY <1>0, <1>2, <2>2, <2>3, PaidByService
<1>6. ASSUME NEW a \in Ambassadors,
             CalculateLoyalty(a) \/ CheckFastStart(a) \/ CheckMilestones(a)
      PROVE  PaidOK'
  <2>1. \E new : Adding(new) /\ ledger' = Extended(new)
    BY <1>6, LoyaltyStep, FastStartStep, MilestoneStep DEF Credits, Credit
  <2>2. (\E step : Doing(step, a)) /\ Done /\ UNCHANGED <<payout, disputed>>
    BY <1>6 DEF CalculateLoyalty, CheckFastStart, CheckMilestones, history
  <2> QED BY <1>0, <1>1, <1>2, <2>1, <2>2, PaidByService
<1>7. ASSUME CalculatePool PROVE PaidOK'
  <2>1. \E new : Adding(new) /\ ledger' = Extended(new)
    BY <1>7, PoolCalculated DEF PoolStep
  <2>2. UNCHANGED <<payout, disputed>> /\ run.busy /\ run'.saved = run.saved
    BY <1>7 DEF CalculatePool, history, Base, RunOK
  <2> QED BY <1>0, <1>1, <2>1, <2>2, PaidByService
<1>8. ASSUME Commit PROVE PaidOK'
  <2>1. ~run'.busy
    BY <1>8, IdleIsOK DEF Commit
  <2> QED BY <1>8, <2>1 DEF Commit, PaidOK, money, history
<1>9. ASSUME RollBack PROVE PaidOK'
  <2>1. ~run'.busy
    BY <1>9, IdleIsOK DEF RollBack
  <2>2. ledger' = run.saved.ledger /\ UNCHANGED <<payout, disputed>> /\ run.busy
    BY <1>9 DEF RollBack, history
  <2> QED BY <2>1, <2>2 DEF PaidOK
<1> QED BY <1>3, <1>4, <1>5, <1>6, <1>7, <1>8, <1>9 DEF Working

LEMMA PaidRanking == ASSUME Base, PaidOK, Ranking PROVE PaidOK'
<1>1. UNCHANGED <<ledger, payout, disputed>>
  BY DEF Ranking, RunMonthlyCycle, RecalculatePool, EvaluateRanks, RecalculateCommissions,
         Start, money, history
<1>2. run'.saved.ledger = ledger
  BY DEF Ranking, RunMonthlyCycle, RecalculatePool, EvaluateRanks, RecalculateCommissions,
         Start, Tables
<1> QED BY <1>1, <1>2 DEF PaidOK

\* By hand: nothing is running, so the ledger and the payouts are all there is.
LEMMA PaidByHand ==
    ASSUME Base, ByAdmin,
           PaidIn(ledger', payout', disputed'), PaidOnce(payout', disputed')
    PROVE  PaidOK'
<1>1. ~run'.busy
  BY DEF ByAdmin
<1> QED BY <1>1 DEF PaidOK

\* A step by hand that keeps the undisputed items of the payouts as they are.
LEMMA PaidUntouched ==
    ASSUME Base, Base', PaidOK, ByAdmin, UNCHANGED payout, disputed \subseteq disputed',
           \A i \in DOMAIN ledger \ disputed' :
              (\E p \in DOMAIN payout : i \in payout[p].items) /\ ledger[i].status = "PAID"
                 => ledger'[i].status = "PAID" /\ ledger'[i].amount = ledger[i].amount
    PROVE  PaidOK'
<1>1. LedgerOK(ledger) /\ LedgerOK(ledger') /\ DOMAIN ledger \subseteq DOMAIN ledger'
      /\ \A p \in DOMAIN payout : payout[p].items \subseteq DOMAIN ledger
  BY ItemsAreThere DEF Base, ByAdmin
<1>2. PaidIn(ledger', payout, disputed')
  BY <1>1, PaidStays DEF PaidOK
<1>3. PaidOnce(payout, disputed')
  BY DEF PaidOK, PaidOnce
<1> QED BY <1>2, <1>3, PaidByHand

LEMMA PaidAdding == ASSUME Base, PaidOK, ByHand PROVE PaidOK'
<1>1. Base' /\ \E new : HandAdds(new)
  BY PromoteStep, BonusByHandStep DEF ByHand
<1>2. ByAdmin /\ UNCHANGED <<payout, disputed>> /\ \A i \in DOMAIN ledger : ledger'[i] = ledger[i]
  BY <1>1, ExtendedOK DEF HandAdds, Base
<1> QED BY <1>1, <1>2, PaidUntouched

LEMMA PaidEditing == ASSUME Base, PaidOK, Editing PROVE PaidOK'
<1>1. Base' /\ ByAdmin /\ UNCHANGED payout
      /\ \E i \in DOMAIN ledger : disputed' = disputed \union {i}
                                  /\ \A j \in DOMAIN ledger \ {i} : ledger'[j] = ledger[j]
  BY EditStep
<1> QED BY <1>1, PaidUntouched

LEMMA PaidApproving ==
    ASSUME Base, PaidOK, NEW i \in DOMAIN ledger, BulkApprove({i}) PROVE PaidOK'
<1>1. Base' /\ ByAdmin /\ UNCHANGED <<payout, disputed>>
      /\ ledger' = Marked({j \in {i} : ledger[j].status = "PENDING"}, "PAID")
  BY ApproveStep
<1>2. \A j \in DOMAIN ledger : ledger'[j].amount = ledger[j].amount
        /\ (ledger[j].status = "PAID" => ledger'[j].status = "PAID")
  BY <1>1, MarkedOK DEF Base
<1> QED BY <1>1, <1>2, PaidUntouched

LEMMA PaidCreating ==
    ASSUME Base, PaidOK, NEW p \in 1..MaxPayouts, NEW a \in Ambassadors,
           NEW S \in SUBSET DOMAIN ledger, NEW twice \in SUBSET S, CreatePayout(p, a, S, twice)
    PROVE  PaidOK'
<1> DEFINE total == TotalOf(S) + TotalOf(twice)
           record == [amb |-> a, items |-> S, total |-> total, status |-> "PENDING"]
<1>1. Base' /\ ByAdmin
  BY CreatePayoutStep
<1>2. /\ p \notin DOMAIN payout /\ ledger' = Marked(S, "PAID")
      /\ payout' = [q \in DOMAIN payout \union {p} |-> IF q = p THEN record ELSE payout[q]]
      /\ disputed' = disputed \union twice \union {i \in S : ledger[i].status = "PAID"}
  BY DEF CreatePayout
<1> HIDE DEF total
<1>3. /\ DOMAIN payout' = DOMAIN payout \union {p}
      /\ \A q \in DOMAIN payout : payout'[q] = payout[q]
      /\ payout'[p].items = S /\ payout'[p].total = total
  BY <1>2
<1>4. \A i \in DOMAIN ledger :
        /\ ledger'[i].amount = ledger[i].amount
        /\ ledger'[i].status = IF i \in S THEN "PAID" ELSE ledger[i].status
  BY <1>2, MarkedOK DEF Base
<1>5. LedgerOK(ledger) /\ LedgerOK(ledger') /\ DOMAIN ledger \subseteq DOMAIN ledger'
      /\ \A q \in DOMAIN payout : payout[q].items \subseteq DOMAIN ledger
  BY <1>1, ItemsAreThere DEF Base, ByAdmin
<1>6. PaidIn(ledger', payout, disputed')
  BY <1>2, <1>4, <1>5, PaidStays DEF PaidOK
<1>7. TotalOf(S) = SumFunctionOnSet(AmountsIn(ledger'), S)
  <2>1. IsFiniteSet(S) /\ \A i \in S :
           AmountsIn(ledger)[i] \in Int /\ AmountsIn(ledger)[i] = AmountsIn(ledger')[i]
    BY <1>4, <1>5, FS_Subset, AmountsAreWhole DEF LedgerOK
  <2>2. TotalOf(S) = SumFunctionOnSet(AmountsIn(ledger), S)
    BY DEF TotalOf, Amounts, AmountsIn
  <2> QED BY <2>1, <2>2, SumSame
<1>8. PaidIn(ledger', payout', disputed')
  <2>1. S \intersect disputed' = {} => total = TotalOf(S)
    <3> SUFFICES ASSUME S \intersect disputed' = {} PROVE total = TotalOf(S)
      OBVIOUS
    <3>1. TotalOf(twice) = 0
      <4>1. twice = {}
        BY <1>2
      <4> QED BY <4>1, SumEmpty DEF TotalOf
    <3>2. TotalOf(S) \in Int
      BY <1>5, FS_Subset, AmountsAreWhole, SumTakes DEF LedgerOK, TotalOf, Amounts, AmountsIn
    <3> QED BY <3>1, <3>2 DEF total
  <2> QED BY <1>3, <1>4, <1>6, <1>7, <2>1 DEF PaidIn
<1>9. PaidOnce(payout', disputed')
  <2>1. ASSUME NEW q \in DOMAIN payout PROVE payout[q].items \intersect S \subseteq disputed'
    <3> SUFFICES ASSUME NEW i \in payout[q].items, i \in S, i \notin disputed PROVE i \in disputed'
      BY <1>2
    <3>1. ledger[i].status = "PAID"
      BY DEF PaidOK, PaidIn
    <3> QED BY <1>2, <3>1
  <2>2. \A q, r \in DOMAIN payout : q # r => payout[q].items \intersect payout[r].items \subseteq disputed'
    BY <1>2 DEF PaidOK, PaidOnce
  <2> QED BY <1>3, <2>1, <2>2 DEF PaidOnce
<1> QED BY <1>1, <1>8, <1>9, PaidByHand

LEMMA PaidUpdating ==
    ASSUME Base, PaidOK, NEW p \in DOMAIN payout, NEW status \in PayoutStatuses,
           UpdatePayout(p, status)
    PROVE  PaidOK'
<1>1. Base' /\ ByAdmin /\ UNCHANGED disputed
  BY UpdatePayoutStep
<1>2. /\ payout' = [payout EXCEPT ![p].status = status]
      /\ ledger' = IF status = "PAID" THEN Marked(payout[p].items, "PAID") ELSE ledger
  BY DEF UpdatePayout
<1>3. \A i \in DOMAIN ledger :
        /\ ledger'[i].amount = ledger[i].amount
        /\ ledger[i].status = "PAID" => ledger'[i].status = "PAID"
  BY <1>2, MarkedOK DEF Base
<1>4. LedgerOK(ledger) /\ LedgerOK(ledger') /\ DOMAIN ledger \subseteq DOMAIN ledger'
      /\ \A q \in DOMAIN payout : payout[q].items \subseteq DOMAIN ledger
  BY <1>1, ItemsAreThere DEF Base, ByAdmin
<1>5. PaidIn(ledger', payout, disputed) /\ PaidOnce(payout, disputed)
  BY <1>3, <1>4, PaidStays DEF PaidOK
<1>6. DOMAIN payout' = DOMAIN payout
      /\ \A q \in DOMAIN payout : payout'[q].items = payout[q].items /\ payout'[q].total = payout[q].total
  <2>1. \A q \in DOMAIN payout :
          payout[q] \in [amb : Ambassadors, items : SUBSET DOMAIN ledger, total : Int,
                         status : PayoutStatuses]
    BY DEF Base, PayoutsOK
  <2> QED BY <1>2, <2>1
<1>7. PaidIn(ledger', payout', disputed) /\ PaidOnce(payout', disputed)
  BY <1>5, <1>6, PaidSameItems
<1> QED BY <1>1, <1>7, PaidByHand

LEMMA PaidBulk ==
    ASSUME Base, PaidOK, NEW P, NEW status \in PayoutStatuses, BulkUpdatePayouts(P, status)
    PROVE  PaidOK'
<1>1. Base' /\ ByAdmin /\ UNCHANGED <<ledger, disputed>>
  BY BulkUpdateStep
<1>2. DOMAIN payout' = DOMAIN payout
      /\ \A q \in DOMAIN payout : payout'[q].items = payout[q].items /\ payout'[q].total = payout[q].total
  <2>1. \A q \in DOMAIN payout :
          payout[q] \in [amb : Ambassadors, items : SUBSET DOMAIN ledger, total : Int,
                         status : PayoutStatuses]
    BY DEF Base, PayoutsOK
  <2> QED BY <2>1 DEF BulkUpdatePayouts
<1>3. PaidIn(ledger, payout', disputed) /\ PaidOnce(payout', disputed)
  BY <1>2, PaidSameItems DEF PaidOK
<1> QED BY <1>1, <1>3, PaidByHand

LEMMA PaidCancelling ==
    ASSUME Base, PaidOK, NEW p \in DOMAIN payout, CancelPayout(p)
    PROVE  PaidOK'
<1>1. Base' /\ ByAdmin /\ UNCHANGED disputed
  BY CancelStep
<1>2. payout' = [q \in DOMAIN payout \ {p} |-> payout[q]] /\ ledger' = Marked(payout[p].items, "PENDING")
  BY DEF CancelPayout
<1>3. DOMAIN payout' = DOMAIN payout \ {p} /\ \A q \in DOMAIN payout' : payout'[q] = payout[q]
  BY <1>2
<1>4. \A i \in DOMAIN ledger :
        /\ ledger'[i].amount = ledger[i].amount
        /\ i \notin payout[p].items => ledger'[i].status = ledger[i].status
  BY <1>2, MarkedOK DEF Base
<1>5. LedgerOK(ledger) /\ LedgerOK(ledger') /\ DOMAIN ledger \subseteq DOMAIN ledger'
      /\ \A q \in DOMAIN payout : payout[q].items \subseteq DOMAIN ledger
  BY <1>1, ItemsAreThere DEF Base, ByAdmin
\* What the other payouts have in them, and is not disputed, the cancelled one has not.
<1>6. ASSUME NEW q \in DOMAIN payout', NEW i \in payout'[q].items \ disputed
      PROVE  i \notin payout[p].items
  BY <1>3, <1>6 DEF PaidOK, PaidOnce
<1>7. PaidIn(ledger, payout', disputed) /\ PaidOnce(payout', disputed)
  BY <1>3 DEF PaidOK, PaidIn, PaidOnce
<1>8. \A q \in DOMAIN payout' : payout'[q].items \subseteq DOMAIN ledger
  BY <1>3, <1>5
<1>9. PaidIn(ledger', payout', disputed)
  BY <1>4, <1>5, <1>6, <1>7, <1>8, PaidStays
<1> QED BY <1>1, <1>7, <1>9, PaidByHand

LEMMA PaidStep == ASSUME Base, PaidOK, [Next]_vars PROVE PaidOK'
<1>1. CASE Ranking
  BY <1>1, PaidRanking
<1>2. CASE Working
  BY <1>2, PaidWorking
<1>3. CASE ByHand
  BY <1>3, PaidAdding
<1>4. CASE Editing
  BY <1>4, PaidEditing
<1>5. CASE PayingOut
  <2>1. ASSUME NEW p \in 1..MaxPayouts, NEW a \in Ambassadors,
               NEW i \in DOMAIN ledger, NEW j \in DOMAIN ledger, NEW twice \in SUBSET {i},
               CreatePayout(p, a, {i, j}, twice)
        PROVE  PaidOK'
    <3>1. {i, j} \in SUBSET DOMAIN ledger /\ twice \in SUBSET {i, j}
      OBVIOUS
    <3> QED BY <2>1, <3>1, PaidCreating
  <2> QED BY <1>5, <2>1, PaidApproving, PaidUpdating, PaidBulk, PaidCancelling DEF PayingOut
<1>6. CASE Travelling
  BY <1>6, TravelStep DEF PaidOK, history
<1>7. CASE (\E a \in Ambassadors : \E s \in MayHold[a] : Churn(a, s)) \/ Elapse
  BY <1>7, OutsideStep DEF PaidOK, money, history
<1>8. CASE UNCHANGED vars
  BY <1>8 DEF PaidOK, vars, money, history
<1> QED BY <1>1, <1>2, <1>3, <1>4, <1>5, <1>6, <1>7, <1>8 DEF Next

LEMMA PaidHolds == Spec => []PaidOK
<1>1. Init => PaidOK
  <2> SUFFICES ASSUME Init PROVE PaidOK
    OBVIOUS
  <2>1. DOMAIN payout = {} /\ ~run.busy
    BY DEF Init, Idle
  <2> QED BY <2>1 DEF PaidOK, PaidIn, PaidOnce
<1>2. Base /\ PaidOK /\ [Next]_vars => PaidOK'
  BY PaidStep
<1> QED BY BaseHolds, <1>1, <1>2, PTL DEF Spec

\* However often commissions are recalculated, cycles repeated or rolled back and
\* other payouts made, changed or cancelled: what a payout was made for stays
\* PAID, and sums up to what was paid, unless an admin edited one of its items or
\* put it into a second payout.
THEOREM PayoutsStandFor == Spec => []PayoutsStand
<1>1. PaidOK => PayoutsStand
  <2> SUFFICES ASSUME PaidOK, NEW p \in DOMAIN payout, payout[p].items \intersect disputed = {}
               PROVE  /\ payout[p].total = TotalOf(payout[p].items)
                      /\ \A i \in payout[p].items : ledger[i].status = "PAID"
    BY DEF PayoutsStand
  <2> QED BY DEF PaidOK, PaidIn, TotalOf, Amounts, AmountsIn
<1> QED BY PaidHolds, <1>1, PTL

Parts == {"rank", "commission", "loyalty", "faststart", "milestones"}

LEMMA StepsAreLong ==
    ASSUME NEW steps \in Works, NEW left \in Rest(steps), left # << >>
    PROVE  Len(left) \in Nat /\ (Len(Tail(left)) >= 4 => Len(left) >= 4 /\ Len(left) # 1)
<1>1. left \in Seq(Parts)
  <2>1. Cycle \in Seq(Parts)
    BY DEF Cycle, Parts
  <2>2. <<"commission", "loyalty", "faststart", "milestones">> \in Seq(Parts)
        /\ <<"loyalty", "faststart", "milestones">> \in Seq(Parts)
        /\ <<"faststart", "milestones">> \in Seq(Parts) /\ <<"milestones">> \in Seq(Parts)
    BY DEF Parts
  <2>3. <<"rank">> \in Seq(Parts) /\ <<"commission">> \in Seq(Parts)
    BY DEF Parts
  <2> QED BY <2>1, <2>2, <2>3 DEF Rest, Works
<1>2. Len(left) \in Nat /\ Len(Tail(left)) = Len(left) - 1
  BY <1>1
<1> QED BY <1>2

----------------------------------------------------------------------------
(***************************************************************************)
(* rewards_earned and the rows.                                            *)
(***************************************************************************)

Apart == {"RANK_ADVANCEMENT", "LEADERSHIP_POOL"}

\* The rows that rewards_earned is about.
Rewards(l, a) == {i \in DOMAIN l : i.amb = a /\ i.kind \notin Apart}

Counted(l, e) == \A a \in Ambassadors : SumFunctionOnSet(AmountsIn(l), Rewards(l, a)) = e[a]

\* Ambassadors whose commission is still to be calculated in this request.
Uncalculated(r) == r.todo \union (IF Len(r.left) >= 4 THEN {r.who} ELSE {})

\* In a cycle, those have none for the month.
NoneYet(l, r) ==
    r.steps = Cycle =>
       /\ r.who \notin r.todo
       /\ \A i \in DOMAIN l : i.kind = "COMMISSION" /\ i.period = r.month => i.amb \notin Uncalculated(r)

EarnedOK ==
    tidy => /\ Counted(ledger, earned)
            /\ run.busy => /\ Counted(run.saved.ledger, run.saved.earned)
                           /\ run.steps # <<"commission">>
            /\ NoneYet(ledger, run)

LEMMA RewardsAreFinite ==
    ASSUME NEW l, LedgerOK(l), NEW a
    PROVE  IsFiniteSet(Rewards(l, a)) /\ \A i \in Rewards(l, a) : AmountsIn(l)[i] \in Int
BY FS_Subset, AmountsAreWhole DEF Rewards, LedgerOK

\* Rows rewritten with the amounts they had.
LEMMA CountedMarked ==
    ASSUME LedgerOK(ledger), NEW k, Rewritten(k), NEW e, Counted(ledger, e),
           \A i \in DOMAIN ledger : k[i].amount = ledger[i].amount
    PROVE  Counted(k, e)
<1> SUFFICES ASSUME NEW a \in Ambassadors
             PROVE  SumFunctionOnSet(AmountsIn(k), Rewards(k, a)) = e[a]
  BY DEF Counted
<1>1. Rewards(k, a) = Rewards(ledger, a)
  BY DEF Rewards, Rewritten
<1>2. \A i \in Rewards(ledger, a) : AmountsIn(ledger)[i] = AmountsIn(k)[i]
  BY DEF AmountsIn, Rewards, Rewritten
<1> QED BY <1>1, <1>2, RewardsAreFinite, SumSame DEF Counted

\* New rows add what they are worth to their ambassador's rewards, and nothing to
\* anybody else's.
LEMMA CountedGrows ==
    ASSUME LedgerOK(ledger), NEW new, Adding(new), NEW a \in Ambassadors,
           \A i \in DOMAIN new : i.amb = a /\ i.kind \notin Apart,
           NEW e \in [Ambassadors -> Int], Counted(ledger, e)
    PROVE  Counted(Extended(new), [e EXCEPT ![a] = @ + Worth(new)])
<1> DEFINE k == Extended(new)
           f == [e EXCEPT ![a] = @ + Worth(new)]
<1>1. /\ LedgerOK(k) /\ DOMAIN k = DOMAIN ledger \union DOMAIN new
      /\ DOMAIN ledger \intersect DOMAIN new = {}
      /\ \A i \in DOMAIN ledger : k[i] = ledger[i]
      /\ \A i \in DOMAIN new : k[i] = new[i]
  BY ExtendedOK
<1> HIDE DEF k
<1>2. IsFiniteSet(DOMAIN new) /\ \A i \in DOMAIN new : AmountsIn(new)[i] \in Int /\ AmountsIn(new)[i] = AmountsIn(k)[i]
  <2>1. IsFiniteSet(DOMAIN new) /\ \A i \in DOMAIN new : AmountsIn(new)[i] \in Int
    BY AmountsAreWhole DEF Adding
  <2> QED BY <1>1, <2>1 DEF AmountsIn
<1>3. SumFunctionOnSet(AmountsIn(k), DOMAIN new) = Worth(new) /\ Worth(new) \in Int
  BY <1>2, SumSame, WorthIsWhole DEF Adding
<1>4. ASSUME NEW b \in Ambassadors
      PROVE  /\ IsFiniteSet(Rewards(ledger, b)) /\ \A i \in Rewards(ledger, b) : AmountsIn(k)[i] \in Int
             /\ SumFunctionOnSet(AmountsIn(k), Rewards(ledger, b)) = e[b]
  <2>1. /\ IsFiniteSet(Rewards(ledger, b))
        /\ \A i \in Rewards(ledger, b) :
              AmountsIn(ledger)[i] \in Int /\ AmountsIn(ledger)[i] = AmountsIn(k)[i]
    BY <1>1, RewardsAreFinite DEF Rewards, AmountsIn
  <2> QED BY <2>1, SumSame DEF Counted
<1>5. SumFunctionOnSet(AmountsIn(k), Rewards(k, a)) = e[a] + Worth(new)
  <2>1. Rewards(k, a) = Rewards(ledger, a) \union DOMAIN new
        /\ Rewards(ledger, a) \intersect DOMAIN new = {}
    BY <1>1 DEF Rewards
  <2> QED BY <1>2, <1>3, <1>4, <2>1, SumUnion
<1>6. ASSUME NEW b \in Ambassadors, b # a
      PROVE  SumFunctionOnSet(AmountsIn(k), Rewards(k, b)) = e[b]
  <2>1. Rewards(k, b) = Rewards(ledger, b)
    BY <1>1, <1>6 DEF Rewards
  <2> QED BY <1>4, <2>1
<1>7. f[a] = e[a] + Worth(new) /\ \A b \in Ambassadors : b # a => f[b] = e[b]
  OBVIOUS
<1> HIDE DEF f
<1>8. Counted(k, f)
  BY <1>5, <1>6, <1>7 DEF Counted
<1> QED BY <1>8 DEF k, f

\* Rows that rewards_earned is not about.
LEMMA CountedApart ==
    ASSUME LedgerOK(ledger), NEW new, Adding(new), \A i \in DOMAIN new : i.kind \in Apart,
           NEW e, Counted(ledger, e)
    PROVE  Counted(Extended(new), e)
<1> DEFINE k == Extended(new)
<1>1. DOMAIN k = DOMAIN ledger \union DOMAIN new /\ \A i \in DOMAIN ledger : k[i] = ledger[i]
  BY ExtendedOK
<1> HIDE DEF k
<1>2. ASSUME NEW a \in Ambassadors PROVE SumFunctionOnSet(AmountsIn(k), Rewards(k, a)) = e[a]
  <2>1. Rewards(k, a) = Rewards(ledger, a)
    BY <1>1 DEF Rewards
  <2>2. \A i \in Rewards(ledger, a) : AmountsIn(ledger)[i] = AmountsIn(k)[i]
    BY <1>1 DEF AmountsIn, Rewards
  <2> QED BY <2>1, <2>2, RewardsAreFinite, SumSame DEF Counted
<1> QED BY <1>2 DEF Counted, k

\* A step for an ambassador which is not the calculation of a commission adds none.
LEMMA NoneYetStays ==
    ASSUME Base, NEW a \in Ambassadors, NEW step, Doing(step, a), Done, NoneYet(ledger, run),
           NEW k, \A i \in DOMAIN k \ DOMAIN ledger : i.kind # "COMMISSION"
    PROVE  NoneYet(k, run')
<1>1. /\ run'.steps = run.steps /\ run'.month = run.month /\ run'.todo = run.todo
      /\ run'.left = Tail(run.left) /\ run'.who \in {a, Nobody} /\ run.who = a
      /\ Len(run.left) = 1 <=> run'.who = Nobody
  BY DoneOK
<1>2. run.left # << >> /\ run.left \in Rest(run.steps) /\ run.steps \in Works
  BY DEF Doing, Base, RunOK, Works
<1>3. Len(Tail(run.left)) >= 4 => Len(run.left) >= 4 /\ run'.who = a
  BY <1>1, <1>2, StepsAreLong
<1>4. Uncalculated(run') \subseteq Uncalculated(run)
  BY <1>1, <1>3 DEF Uncalculated
<1>5. Nobody \notin run.todo
  BY DownlineConstants DEF Base, RunOK
<1> QED BY <1>1, <1>4, <1>5 DEF NoneYet

LEMMA CommissionIsSecond ==
    ASSUME NEW left \in Rest(Cycle), left # << >>, Head(left) = "commission"
    PROVE  ~(Len(Tail(left)) >= 4)
<1>1. \/ left = Cycle
      \/ left = <<"commission", "loyalty", "faststart", "milestones">>
      \/ left = <<"loyalty", "faststart", "milestones">>
      \/ left = <<"faststart", "milestones">>
      \/ left = <<"milestones">>
  BY DEF Rest
<1>2. left # Cycle
  BY DEF Cycle
<1>3. /\ left # <<"loyalty", "faststart", "milestones">>
      /\ left # <<"faststart", "milestones">> /\ left # <<"milestones">>
  OBVIOUS
<1>4. left = <<"commission", "loyalty", "faststart", "milestones">>
  BY <1>1, <1>2, <1>3
<1>5. Tail(left) = <<"loyalty", "faststart", "milestones">>
  BY <1>4
<1>6. Len(<<"loyalty", "faststart", "milestones">>) = 3
  OBVIOUS
<1> QED BY <1>5, <1>6

LEMMA NoneYetIdle ==
    ASSUME NEW l, NEW r, r.todo = {}, r.left = << >>
    PROVE  NoneYet(l, r)
<1>1. Uncalculated(r) = {}
  BY DEF Uncalculated
<1> QED BY <1>1 DEF NoneYet

LEMMA EarnedRanking == ASSUME Base, EarnedOK, Ranking PROVE EarnedOK'
<1>1. UNCHANGED <<ledger, earned>> /\ run'.saved.ledger = ledger /\ run'.saved.earned = earned
  BY DEF Ranking, RunMonthlyCycle, RecalculatePool, EvaluateRanks, RecalculateCommissions,
         Start, money, people, Tables
<1>2. ASSUME tidy', NEW m, RunMonthlyCycle(m) PROVE EarnedOK'
  <2>1. tidy /\ \A i \in DOMAIN ledger : ~(i.kind = "COMMISSION" /\ i.period = m)
    BY <1>2 DEF RunMonthlyCycle, Base, WorldOK
  <2>2. run'.steps = Cycle /\ run'.month = m /\ run'.who = Nobody /\ run'.todo = Ambassadors
    BY <1>2 DEF RunMonthlyCycle, Start
  <2>3. Cycle # <<"commission">>
    BY DEF Cycle
  <2>4. NoneYet(ledger', run')
    BY <1>1, <2>1, <2>2, DownlineConstants DEF NoneYet
  <2> QED BY <1>1, <2>1, <2>2, <2>3, <2>4 DEF EarnedOK
<1>3. ASSUME tidy', NEW m, RecalculatePool(m) PROVE EarnedOK'
  <2>1. tidy /\ run'.steps = << >> /\ << >> # Cycle /\ << >> # <<"commission">>
    BY <1>3 DEF RecalculatePool, Start, Cycle
  <2> QED BY <1>1, <2>1 DEF EarnedOK, NoneYet
<1>4. ASSUME tidy', NEW A, EvaluateRanks(A) PROVE EarnedOK'
  <2>1. tidy /\ run'.steps = <<"rank">> /\ <<"rank">> # Cycle /\ <<"rank">> # <<"commission">>
    BY <1>4 DEF EvaluateRanks, Start, Cycle, history
  <2> QED BY <1>1, <2>1 DEF EarnedOK, NoneYet
<1>5. ASSUME NEW A, NEW m, RecalculateCommissions(A, m) PROVE ~tidy'
  BY <1>5 DEF RecalculateCommissions
<1>6. ~tidy' => EarnedOK'
  BY DEF EarnedOK
<1> QED BY <1>2, <1>3, <1>4, <1>5, <1>6 DEF Ranking

\* One step for an ambassador: the request is the same.
LEMMA EarnedService ==
    ASSUME Base, EarnedOK, tidy, NEW a \in Ambassadors, NEW step, Doing(step, a), Done,
           Counted(ledger', earned'), NoneYet(ledger', run')
    PROVE  EarnedOK'
<1>1. run'.saved = run.saved /\ run'.steps = run.steps /\ run.busy
  BY DoneOK
<1> QED BY <1>1 DEF EarnedOK

LEMMA EarnedWorking == ASSUME Base, EarnedOK, Working, tidy PROVE EarnedOK'
<1>0. LedgerOK(ledger) /\ earned \in [Ambassadors -> Int] /\ Counted(ledger, earned)
      /\ NoneYet(ledger, run)
  BY DEF Base, PeopleOK, EarnedOK
<1>1. ASSUME NEW new, Adding(new), ledger' = Extended(new), \A i \in DOMAIN new : i.kind # "COMMISSION"
      PROVE  \A i \in DOMAIN ledger' \ DOMAIN ledger : i.kind # "COMMISSION"
  BY <1>0, <1>1, ExtendedOK
<1>2. ASSUME NEW a \in Ambassadors, Turn(a) PROVE EarnedOK'
  <2>1. /\ run'.todo = run.todo \ {a} /\ run'.who = a /\ run'.steps = run.steps
        /\ run'.month = run.month /\ run'.busy = run.busy /\ run'.saved = run.saved
        /\ a \in run.todo /\ UNCHANGED <<ledger, earned, tidy>>
    BY <1>2 DEF Turn, Base, RunOK, money, people, history
  <2>2. Uncalculated(run') \subseteq Uncalculated(run)
    BY <2>1 DEF Uncalculated
  <2>3. NoneYet(ledger', run')
    BY <1>0, <2>1, <2>2 DEF NoneYet
  <2> QED BY <2>1, <2>3 DEF EarnedOK
<1>3. ASSUME NEW a \in Ambassadors, EvaluateRank(a) PROVE EarnedOK'
  <2>1. PICK new : /\ Adding(new) /\ ledger' = Extended(new)
                   /\ \A i \in DOMAIN new : i.kind = "RANK_ADVANCEMENT"
    BY <1>3, RankStep
  <2>2. Doing("rank", a) /\ Done /\ UNCHANGED earned
    BY <1>3 DEF EvaluateRank
  <2>3. Counted(ledger', earned')
    BY <1>0, <2>1, <2>2, CountedApart DEF Apart
  <2>4. NoneYet(ledger', run')
    BY <1>0, <1>1, <2>1, <2>2, NoneYetStays
  <2> QED BY <2>2, <2>3, <2>4, EarnedService
<1>4. ASSUME NEW a \in Ambassadors, CalculateCommission(a) PROVE EarnedOK'
  <2> DEFINE c == CommissionOf(a, run.month)
  <2>1. Doing("commission", a) /\ Done /\ Calculates(a, run.month) /\ run.busy
    BY <1>4, CommissionStep, DoneOK DEF CalculateCommission
  <2>2. run.left # << >> /\ run.left \in Rest(run.steps) /\ run.steps \in Works
        /\ Head(run.left) = "commission" /\ run.who = a
    BY <2>1 DEF Doing, Base, RunOK, Works
  <2>3. run.steps = Cycle /\ Len(run.left) >= 4
    <3>1. run.steps # <<"commission">>
      BY <2>1 DEF EarnedOK
    <3> QED BY <2>2, <3>1, StepsAreShort
  <2>4. c.amb = a /\ c.kind = "COMMISSION" /\ c.period = run.month
    BY DEF CommissionOf
  <2>5. a \in Uncalculated(run)
    BY <2>2, <2>3 DEF Uncalculated
  <2>6. c \notin DOMAIN ledger
    BY <1>0, <2>3, <2>4, <2>5 DEF NoneYet
  <2>7. earned' = [earned EXCEPT ![a] = @ + ledger'[c].amount]
    BY <1>4, <2>3 DEF CalculateCommission
  <2> HIDE DEF c
  <2>8. PICK new : Adding(new) /\ ledger' = Extended(new) /\ DOMAIN new = {c} /\ new[c] = ledger'[c]
    BY <2>1, <2>6 DEF Calculates, c
  <2>9. Worth(new) = ledger'[c].amount
    <3>1. new \in [DOMAIN new -> Item] /\ IsFiniteSet(DOMAIN new)
      BY <2>8 DEF Adding
    <3>2. AmountsIn(new)[c] \in Int /\ AmountsIn(new)[c] = ledger'[c].amount
      BY <2>8, <3>1, AmountsAreWhole
    <3>3. Worth(new) = AmountsIn(new)[c] + SumFunctionOnSet(AmountsIn(new), {c} \ {c})
      BY <2>8, <3>1, <3>2, SumTakes, WorthIsWhole
    <3>4. {c} \ {c} = {}
      OBVIOUS
    <3> QED BY <3>2, <3>3, <3>4, SumEmpty
  <2>10. Counted(ledger', earned')
    <3>1. \A i \in DOMAIN new : i.amb = a /\ i.kind \notin Apart
      BY <2>4, <2>8 DEF Apart
    <3> QED BY <1>0, <2>7, <2>8, <2>9, <3>1, CountedGrows
  <2>11. NoneYet(ledger', run')
    <3>1. /\ run'.steps = Cycle /\ run'.month = run.month /\ run'.todo = run.todo
          /\ run'.left = Tail(run.left) /\ run'.who \in {a, Nobody}
      BY <2>1, <2>3, DoneOK
    <3>2. ~(Len(run'.left) >= 4)
      BY <2>2, <2>3, <3>1, CommissionIsSecond
    <3>3. Uncalculated(run') = run.todo /\ run.todo \subseteq Uncalculated(run)
      BY <3>1, <3>2 DEF Uncalculated
    <3>4. a \notin run.todo /\ Nobody \notin run.todo
      BY <1>0, <2>2, <2>3, DownlineConstants DEF NoneYet, Base, RunOK
    <3>5. DOMAIN ledger' = DOMAIN ledger \union {c}
      BY <2>1 DEF Calculates, c
    <3> QED BY <1>0, <2>3, <2>4, <3>1, <3>3, <3>4, <3>5 DEF NoneYet
  <2> QED BY <2>1, <2>10, <2>11, EarnedService
<1>5. ASSUME NEW a \in Ambassadors,
             CalculateLoyalty(a) \/ CheckFastStart(a) \/ CheckMilestones(a)
      PROVE  EarnedOK'
  <2>1. PICK new : Credits(a, new)
    BY <1>5, LoyaltyStep, FastStartStep, MilestoneStep
  <2>2. PICK step : Doing(step, a) /\ Done
    BY <1>5 DEF CalculateLoyalty, CheckFastStart, CheckMilestones
  <2>3. /\ Adding(new) /\ ledger' = Extended(new) /\ earned' = [earned EXCEPT ![a] = @ + Worth(new)]
        /\ \A i \in DOMAIN new : i.amb = a /\ i.kind \notin Apart /\ i.kind # "COMMISSION"
    BY <2>1 DEF Credits, Credit, Credited, Apart
  <2>4. Counted(ledger', earned')
    BY <1>0, <2>3, CountedGrows
  <2>5. NoneYet(ledger', run')
    BY <1>0, <1>1, <2>2, <2>3, NoneYetStays
  <2> QED BY <2>2, <2>4, <2>5, EarnedService
<1>6. ASSUME CalculatePool PROVE EarnedOK'
  <2>1. PICK new : PoolStep(new)
    BY <1>6, PoolCalculated
  <2>2. /\ run'.todo = run.todo /\ run'.who = run.who /\ run'.left = run.left
        /\ run'.steps = run.steps /\ run'.month = run.month /\ run'.saved = run.saved
        /\ run.busy /\ UNCHANGED <<earned, tidy>>
    BY <1>6 DEF CalculatePool, Base, RunOK, people, history
  <2>3. Counted(ledger', earned')
    BY <1>0, <2>1, <2>2, CountedApart DEF PoolStep, Apart
  <2>4. \A i \in DOMAIN ledger' \ DOMAIN ledger : i.kind # "COMMISSION"
    BY <1>1, <2>1 DEF PoolStep
  <2>5. NoneYet(ledger', run')
    BY <1>0, <2>2, <2>4 DEF NoneYet, Uncalculated
  <2> QED BY <2>2, <2>3, <2>5 DEF EarnedOK
<1>7. run' = Idle => run'.todo = {} /\ run'.left = << >>
  BY DEF Idle
<1>8. ASSUME Commit PROVE EarnedOK'
  <2>1. ~run'.busy /\ UNCHANGED <<ledger, earned>>
    BY <1>8, IdleIsOK DEF Commit, money, people
  <2>2. NoneYet(ledger', run')
    BY <1>7, <1>8, NoneYetIdle DEF Commit
  <2> QED BY <1>0, <2>1, <2>2 DEF EarnedOK
<1>9. ASSUME RollBack PROVE EarnedOK'
  <2>1. ~run'.busy /\ ledger' = run.saved.ledger /\ earned' = run.saved.earned /\ run.busy
    BY <1>9, IdleIsOK DEF RollBack
  <2>2. NoneYet(ledger', run')
    BY <1>7, <1>9, NoneYetIdle DEF RollBack
  <2> QED BY <2>1, <2>2 DEF EarnedOK
<1> QED BY <1>2, <1>3, <1>4, <1>5, <1>6, <1>8, <1>9 DEF Working

\* Payouts and approvals change what items are, never what they are worth.
LEMMA PayingAmounts ==
    ASSUME Base, PayingOut
    PROVE  \A i \in DOMAIN ledger : ledger'[i].amount = ledger[i].amount
<1>1. ASSUME NEW S, NEW status \in {"PENDING", "PAID"}
      PROVE  \A i \in DOMAIN ledger : Marked(S, status)[i].amount = ledger[i].amount
  BY MarkedOK DEF Base
<1>2. ledger' = ledger \/ \E S, status : status \in {"PENDING", "PAID"} /\ ledger' = Marked(S, status)
  BY DEF PayingOut, BulkApprove, CreatePayout, UpdatePayout, BulkUpdatePayouts, CancelPayout
<1> QED BY <1>1, <1>2

LEMMA EarnedByHand ==
    ASSUME Base, EarnedOK, ByHand \/ Editing \/ PayingOut PROVE EarnedOK'
<1>0. LedgerOK(ledger) /\ (tidy => Counted(ledger, earned))
  BY DEF Base, EarnedOK
<1>1. ASSUME ByAdmin, tidy' => Counted(ledger', earned) PROVE EarnedOK'
  <2>1. ~run'.busy /\ run'.todo = {} /\ run'.left = << >> /\ earned' = earned
    BY <1>1 DEF ByAdmin, Base, RunOK
  <2>2. NoneYet(ledger', run')
    BY <2>1, NoneYetIdle
  <2> QED BY <1>1, <2>1, <2>2 DEF EarnedOK
<1>2. CASE ByHand
  <2>1. PICK new : HandAdds(new)
    BY <1>2, PromoteStep, BonusByHandStep DEF ByHand
  <2>2. ASSUME tidy' PROVE Counted(ledger', earned)
    <3>1. Adding(new) /\ ledger' = Extended(new) /\ tidy /\ \A i \in DOMAIN new : i.kind \in Apart
      BY <2>1, <2>2 DEF HandAdds, Apart
    <3> QED BY <1>0, <3>1, CountedApart
  <2> QED BY <1>1, <2>1, <2>2 DEF HandAdds
<1>3. CASE Editing
  BY <1>1, <1>3, EditStep
<1>4. CASE PayingOut
  <2>1. ByAdmin /\ Rewritten(ledger') /\ UNCHANGED tidy
    BY <1>4, PayingStep
  <2>2. \A i \in DOMAIN ledger : ledger'[i].amount = ledger[i].amount
    BY <1>4, PayingAmounts
  <2> QED BY <1>0, <1>1, <2>1, <2>2, CountedMarked
<1> QED BY <1>2, <1>3, <1>4

LEMMA EarnedStep == ASSUME Base, EarnedOK, [Next]_vars PROVE EarnedOK'
<1>1. CASE Ranking
  BY <1>1, EarnedRanking
<1>2. CASE Working
  <2>1. tidy' = tidy
    BY <1>2 DEF Working, Turn, EvaluateRank, CalculateCommission, CalculateLoyalty,
                CheckFastStart, CheckMilestones, CalculatePool, Commit, RollBack, history
  <2>2. CASE tidy
    BY <1>2, <2>2, EarnedWorking
  <2>3. CASE ~tidy
    BY <2>1, <2>3 DEF EarnedOK
  <2> QED BY <2>2, <2>3
<1>3. CASE ByHand \/ Editing \/ PayingOut
  BY <1>3, EarnedByHand
<1>4. CASE UNCHANGED <<ledger, earned, run, tidy>>
  BY <1>4 DEF EarnedOK
<1>5. CASE Travelling
  BY <1>4, <1>5, TravelStep DEF history
<1>6. CASE (\E a \in Ambassadors : \E s \in MayHold[a] : Churn(a, s)) \/ Elapse
  BY <1>4, <1>6, OutsideStep DEF money, people, history
<1>7. CASE UNCHANGED vars
  BY <1>4, <1>7 DEF vars, money, people, history
<1> QED BY <1>1, <1>2, <1>3, <1>5, <1>6, <1>7 DEF Next

LEMMA EarnedHolds == Spec => []EarnedOK
<1>1. Init => EarnedOK
  <2> SUFFICES ASSUME Init PROVE EarnedOK
    OBVIOUS
  <2>1. /\ DOMAIN ledger = {} /\ ~run.busy /\ run.todo = {} /\ run.left = << >>
        /\ \A a \in Ambassadors : earned[a] = 0
    BY DEF Init, Idle
  <2>2. \A a \in Ambassadors : Rewards(ledger, a) = {}
    BY <2>1 DEF Rewards
  <2>3. Counted(ledger, earned)
    BY <2>1, <2>2, SumEmpty DEF Counted
  <2>4. NoneYet(ledger, run)
    BY <2>1, NoneYetIdle
  <2> QED BY <2>1, <2>3, <2>4 DEF EarnedOK
<1>2. Base /\ EarnedOK /\ [Next]_vars => EarnedOK'
  BY EarnedStep
<1> QED BY BaseHolds, <1>1, <1>2, PTL DEF Spec

\* The earnings an ambassador is shown, paid and pending, are all of his items.
LEMMA EarnedIsShown == ASSUME Base, EarnedOK PROVE EarnedMatchesRows
<1> SUFFICES ASSUME tidy, NEW a \in Ambassadors
             PROVE  EarningsSummary(a).paid + EarningsSummary(a).pending =
                      earned[a] + TotalOf({i \in ItemsOf(a) : i.kind \in Apart})
  BY DEF EarnedMatchesRows, Apart
<1> DEFINE paid == {i \in ItemsOf(a) : ledger[i].status = "PAID"}
           pending == {i \in ItemsOf(a) : ledger[i].status = "PENDING"}
           apart == {i \in ItemsOf(a) : i.kind \in Apart}
<1>1. /\ ItemsOf(a) \subseteq DOMAIN ledger /\ IsFiniteSet(ItemsOf(a))
      /\ \A i \in ItemsOf(a) : Amounts[i] \in Int /\ ledger[i].status \in {"PENDING", "PAID"}
  <2>1. ItemsOf(a) \subseteq DOMAIN ledger
    BY DEF ItemsOf
  <2> QED BY <2>1, FS_Subset DEF Base, LedgerOK, Item, Amounts
<1>2. /\ paid \union pending = ItemsOf(a) /\ paid \intersect pending = {}
      /\ Rewards(ledger, a) \union apart = ItemsOf(a) /\ Rewards(ledger, a) \intersect apart = {}
  BY <1>1 DEF Rewards, ItemsOf
<1>3. IsFiniteSet(paid) /\ IsFiniteSet(pending) /\ IsFiniteSet(apart) /\ IsFiniteSet(Rewards(ledger, a))
  BY <1>1, <1>2, FS_Subset
<1>4. EarningsSummary(a).paid = SumFunctionOnSet(Amounts, paid)
      /\ EarningsSummary(a).pending = SumFunctionOnSet(Amounts, pending)
      /\ TotalOf(apart) = SumFunctionOnSet(Amounts, apart)
  BY DEF EarningsSummary, TotalOf
<1>5. SumFunctionOnSet(Amounts, Rewards(ledger, a)) = earned[a]
  BY DEF EarnedOK, Counted, Amounts, AmountsIn
<1> HIDE DEF paid, pending, apart
<1>6. SumFunctionOnSet(Amounts, ItemsOf(a))
        = SumFunctionOnSet(Amounts, paid) + SumFunctionOnSet(Amounts, pending)
  BY <1>1, <1>2, <1>3, SumUnion
<1>7. SumFunctionOnSet(Amounts, ItemsOf(a))
        = SumFunctionOnSet(Amounts, Rewards(ledger, a)) + SumFunctionOnSet(Amounts, apart)
  BY <1>1, <1>2, <1>3, SumUnion
<1> QED BY <1>4, <1>5, <1>6, <1>7 DEF apart

----------------------------------------------------------------------------
(***************************************************************************)
(* Pools.                                                                  *)
(***************************************************************************)

Shares(l, m) == {i \in DOMAIN l : i.kind = "LEADERSHIP_POOL" /\ i.period = m}

\* The shares s are the pool, up to half a cent for each.
Fair(s, p) ==
    /\ 2 * s <= 2 * p.total + p.eligible
    /\ 2 * s + p.eligible >= 2 * p.total

\* A pool not calculated has no shares; one calculated once is shared out.
PoolIn(l, P, n) ==
    \A m \in Months :
        /\ n[m] = 0 => m \notin DOMAIN P
        /\ n[m] < 2 /\ m \notin DOMAIN P => Shares(l, m) = {}
        /\ n[m] = 1 /\ m \in DOMAIN P /\ P[m].eligible > 0
             => Fair(SumFunctionOnSet(AmountsIn(l), Shares(l, m)), P[m])

PoolOK ==
    tidy => /\ PoolIn(ledger, pool, pooled)
            /\ run.busy => PoolIn(run.saved.ledger, run.saved.pool, pooled)
            /\ run.pool => /\ pooled[run.month] >= 1
                           /\ pooled[run.month] = 1 => run.month \notin DOMAIN pool

LEMMA SharesAreFinite ==
    ASSUME NEW l, LedgerOK(l), NEW m
    PROVE  IsFiniteSet(Shares(l, m)) /\ \A i \in Shares(l, m) : AmountsIn(l)[i] \in Int
BY FS_Subset, AmountsAreWhole DEF Shares, LedgerOK

\* Steps that leave the shares as they are.
LEMMA PoolKeeps ==
    ASSUME NEW l, LedgerOK(l), NEW k, NEW m, DOMAIN l \subseteq DOMAIN k,
           \A i \in DOMAIN k \ DOMAIN l : i.kind = "LEADERSHIP_POOL" => i.period # m,
           \A i \in Shares(l, m) : k[i].amount = l[i].amount
    PROVE  /\ Shares(k, m) = Shares(l, m)
           /\ SumFunctionOnSet(AmountsIn(k), Shares(k, m)) = SumFunctionOnSet(AmountsIn(l), Shares(l, m))
<1>1. Shares(k, m) = Shares(l, m)
  BY DEF Shares
<1>2. \A i \in Shares(l, m) : AmountsIn(l)[i] = AmountsIn(k)[i]
  BY DEF AmountsIn, Shares
<1> QED BY <1>1, <1>2, SharesAreFinite, SumSame

LEMMA PoolInKeeps ==
    ASSUME NEW l, LedgerOK(l), NEW k, DOMAIN l \subseteq DOMAIN k,
           \A i \in DOMAIN k \ DOMAIN l : i.kind # "LEADERSHIP_POOL",
           \A i \in DOMAIN l : i.kind = "LEADERSHIP_POOL" => k[i].amount = l[i].amount,
           NEW P, NEW n, PoolIn(l, P, n)
    PROVE  PoolIn(k, P, n)
<1>1. ASSUME NEW m \in Months
      PROVE  /\ Shares(k, m) = Shares(l, m)
             /\ SumFunctionOnSet(AmountsIn(k), Shares(k, m)) = SumFunctionOnSet(AmountsIn(l), Shares(l, m))
  <2>1. /\ \A i \in DOMAIN k \ DOMAIN l : i.kind = "LEADERSHIP_POOL" => i.period # m
        /\ \A i \in Shares(l, m) : k[i].amount = l[i].amount
    BY DEF Shares
  <2> QED BY <2>1, PoolKeeps
<1> QED BY <1>1 DEF PoolIn

\* One more calculation that is to come.
LEMMA PoolInAnnounced ==
    ASSUME NEW l, NEW P, NEW n \in [Months -> 0..2], PoolIn(l, P, n), NEW m \in Months
    PROVE  LET k == [n EXCEPT ![m] = IF @ < 2 THEN @ + 1 ELSE @]
           IN PoolIn(l, P, k) /\ k[m] >= 1 /\ (k[m] = 1 => m \notin DOMAIN P)
<1> DEFINE k == [n EXCEPT ![m] = IF @ < 2 THEN @ + 1 ELSE @]
<1>1. \A x \in Months : k[x] = IF x = m THEN IF n[m] < 2 THEN n[m] + 1 ELSE n[m] ELSE n[x]
  OBVIOUS
<1>2. \A x \in Months : n[x] \in 0..2
  OBVIOUS
<1> HIDE DEF k
<1>3. k[m] >= 1 /\ (k[m] = 1 => m \notin DOMAIN P)
  BY <1>1, <1>2 DEF PoolIn
<1>4. PoolIn(l, P, k)
  BY <1>1, <1>2 DEF PoolIn
<1> QED BY <1>3, <1>4 DEF k

\* A rounded quotient is off by half at most.
LEMMA RoundedIsClose ==
    ASSUME NEW x \in Nat, NEW n \in Nat, n > 0
    PROVE  /\ Rounded(x, n) \in Nat
           /\ 2 * (n * Rounded(x, n)) <= 2 * x + n
           /\ 2 * (n * Rounded(x, n)) + n >= 2 * x
<1> DEFINE a == 2 * x + n
           b == 2 * n
           q == a \div b
<1>1. a \in Nat /\ b \in Nat /\ b > 0
  OBVIOUS
<1>2. q \in Nat /\ b * q <= a /\ a < b * q + b
  <2> HIDE DEF a, b
  <2>1. a = (b * (a \div b)) + (a % b) /\ a % b \in 0..(b - 1) /\ a \div b \in Nat
    BY <1>1
  <2> QED BY <1>1, <2>1
<1>3. Rounded(x, n) = q
  BY DEF Rounded
<1> HIDE DEF q
<1>4. b * q = 2 * (n * q)
  BY <1>2
<1> QED BY <1>2, <1>3, <1>4

LEMMA PoolSharedOut == ASSUME Base, PoolOK, tidy, CalculatePool PROVE PoolIn(ledger', pool', pooled)
<1> DEFINE m == run.month
           n == Cardinality(Sharers)
           share == ShareOf(PoolFor(sub), n)
           due == {a \in Sharers : Due(a, "LEADERSHIP_POOL", m)}
           issue == {Row(a, "LEADERSHIP_POOL", m) : a \in due}
<1>1. PICK new : PoolStep(new) /\ NewShares(new)
  BY PoolCalculated
<1>2. PoolFor(sub) \in Nat /\ IsFiniteSet(Sharers) /\ share \in Nat /\ n \in Nat /\ m \in Months
  BY PoolCalculated, FS_CardinalityType DEF Base, RunOK
<1>3. PoolIn(ledger, pool, pooled) /\ pooled[m] >= 1 /\ (pooled[m] = 1 => m \notin DOMAIN pool)
  BY DEF PoolOK, CalculatePool
<1>4. /\ DOMAIN pool' = DOMAIN pool \union {m}
      /\ \A k \in DOMAIN pool \ {m} : pool'[k] = pool[k]
      /\ pool'[m].total = PoolFor(sub) /\ pool'[m].eligible = n
  BY DEF CalculatePool
<1>5. /\ LedgerOK(ledger) /\ LedgerOK(ledger') /\ DOMAIN ledger' = DOMAIN ledger \union DOMAIN new
      /\ \A i \in DOMAIN ledger : ledger'[i] = ledger[i]
      /\ \A i \in DOMAIN new : ledger'[i] = new[i]
      /\ \A i \in DOMAIN new : i.kind = "LEADERSHIP_POOL" /\ i.period = m
  BY <1>1, ExtendedOK DEF PoolStep, Base
<1>6. ASSUME NEW k \in Months, k # m
      PROVE  /\ Shares(ledger', k) = Shares(ledger, k)
             /\ SumFunctionOnSet(AmountsIn(ledger'), Shares(ledger', k))
                  = SumFunctionOnSet(AmountsIn(ledger), Shares(ledger, k))
  <2>1. /\ \A i \in DOMAIN ledger' \ DOMAIN ledger : i.kind = "LEADERSHIP_POOL" => i.period # k
        /\ \A i \in Shares(ledger, k) : ledger'[i].amount = ledger[i].amount
    BY <1>5, <1>6 DEF Shares
  <2> QED BY <1>5, <2>1, PoolKeeps
<1>7. ASSUME pooled[m] = 1, n > 0
      PROVE  Fair(SumFunctionOnSet(AmountsIn(ledger'), Shares(ledger', m)), pool'[m])
  <2>1. Shares(ledger, m) = {}
    BY <1>2, <1>3, <1>7 DEF PoolIn
  <2>2. due = Sharers
    <3>1. \A a \in Sharers : RowsOf(a, "LEADERSHIP_POOL", m) \subseteq Shares(ledger, m)
      BY DEF RowsOf, Shares
    <3> QED BY <2>1, <3>1 DEF Due
  <2>3. Shares(ledger', m) = DOMAIN new
    BY <1>5, <2>1 DEF Shares
  <2>4. share = Rounded(PoolFor(sub), n)
    BY <1>7 DEF ShareOf
  <2>5. SumFunctionOnSet(AmountsIn(ledger'), DOMAIN new) = n * share
    <3>1. CASE share > 0
      <4>1. new = [i \in issue |-> Fresh(share)]
        BY <1>1, <3>1 DEF NewShares
      <4>2. DOMAIN new = issue /\ \A i \in issue : new[i].amount = share
        BY <4>1 DEF Fresh
      <4>3. IsFiniteSet(issue) /\ Cardinality(issue) = n
        <5> DEFINE f == [a \in Sharers |-> Row(a, "LEADERSHIP_POOL", m)]
        <5>1. f \in Surjection(Sharers, issue)
          BY <2>2 DEF Surjection
        <5>2. f \in Injection(Sharers, issue)
          <6>1. \A a, b \in Sharers : f[a] = f[b] => a = b
            BY DEF Row
          <6>2. f \in [Sharers -> issue]
            BY <2>2
          <6> HIDE DEF f, issue
          <6> QED BY <6>1, <6>2 DEF Injection, IsInjective
        <5> HIDE DEF f, issue
        <5> QED BY <1>2, <5>1, <5>2, FS_Surjection
      <4>4. \A i \in issue : AmountsIn(ledger')[i] = share
        BY <1>5, <4>2 DEF AmountsIn
      <4> HIDE DEF issue, share, n
      <4> QED BY <1>2, <4>2, <4>3, <4>4, SumOfEqual
    <3>2. CASE ~(share > 0)
      <4>1. share = 0 /\ n * share = 0
        BY <1>2, <3>2
      <4>2. DOMAIN new = {}
        BY <1>1, <3>2 DEF NewShares
      <4> QED BY <4>1, <4>2, SumEmpty
    <3> QED BY <3>1, <3>2
  <2> HIDE DEF n, share
  <2>6. 2 * (n * share) <= 2 * PoolFor(sub) + n /\ 2 * (n * share) + n >= 2 * PoolFor(sub)
    BY <1>2, <1>7, <2>4, RoundedIsClose
  <2> QED BY <1>4, <2>3, <2>5, <2>6 DEF Fair
<1> HIDE DEF n, share, m
<1>8. ASSUME NEW k \in Months
      PROVE  /\ pooled[k] = 0 => k \notin DOMAIN pool'
             /\ pooled[k] < 2 /\ k \notin DOMAIN pool' => Shares(ledger', k) = {}
             /\ pooled[k] = 1 /\ k \in DOMAIN pool' /\ pool'[k].eligible > 0
                  => Fair(SumFunctionOnSet(AmountsIn(ledger'), Shares(ledger', k)), pool'[k])
  <2>1. CASE k = m
    <3>1. pooled[m] # 0
      BY <1>3
    <3> QED BY <1>4, <1>7, <2>1, <3>1
  <2>2. CASE k # m
    BY <1>3, <1>4, <1>6, <2>2 DEF PoolIn
  <2> QED BY <2>1, <2>2
<1> QED BY <1>8 DEF PoolIn

LEMMA PoolRanking == ASSUME Base, PoolOK, Ranking PROVE PoolOK'
<1>1. UNCHANGED <<ledger, pool>> /\ run'.saved.ledger = ledger /\ run'.saved.pool = pool
  BY DEF Ranking, RunMonthlyCycle, RecalculatePool, EvaluateRanks, RecalculateCommissions,
         Start, money, people, Tables
<1>2. ASSUME NEW m \in 1..now, run'.month = m, tidy,
             pooled' = [pooled EXCEPT ![m] = IF @ < 2 THEN @ + 1 ELSE @]
      PROVE  PoolOK'
  <2>1. m \in Months /\ pooled \in [Months -> 0..2]
    <3>1. MaxMonth \in Nat
      BY AmbassadorConstants
    <3> QED BY <3>1 DEF Base, WorldOK, Months
  <2>2. PoolIn(ledger, pool, pooled') /\ pooled'[m] >= 1 /\ (pooled'[m] = 1 => m \notin DOMAIN pool)
    BY <1>2, <2>1, PoolInAnnounced DEF PoolOK
  <2> QED BY <1>1, <1>2, <2>2 DEF PoolOK
<1>5. ~tidy' => PoolOK'
  BY DEF PoolOK
<1>6. ASSUME NEW m \in 1..now, RunMonthlyCycle(m) PROVE PoolOK'
  <2>1. tidy' => tidy
    BY <1>6 DEF RunMonthlyCycle
  <2>2. run'.month = m /\ pooled' = [pooled EXCEPT ![m] = IF @ < 2 THEN @ + 1 ELSE @]
    BY <1>6 DEF RunMonthlyCycle, Start
  <2> QED BY <1>2, <1>5, <2>1, <2>2
<1>7. ASSUME NEW m \in 1..now, RecalculatePool(m) PROVE PoolOK'
  <2>1. tidy' => tidy
    BY <1>7 DEF RecalculatePool
  <2>2. run'.month = m /\ pooled' = [pooled EXCEPT ![m] = IF @ < 2 THEN @ + 1 ELSE @]
    BY <1>7 DEF RecalculatePool, Start
  <2> QED BY <1>2, <1>5, <2>1, <2>2
<1>3. ASSUME tidy', NEW A, EvaluateRanks(A) PROVE PoolOK'
  <2>1. UNCHANGED <<tidy, pooled>> /\ ~run'.pool
    BY <1>3 DEF EvaluateRanks, Start, history
  <2> QED BY <1>1, <1>3, <2>1 DEF PoolOK
<1>4. ASSUME NEW A, NEW m, RecalculateCommissions(A, m) PROVE ~tidy'
  BY <1>4 DEF RecalculateCommissions
<1> QED BY <1>3, <1>4, <1>5, <1>6, <1>7 DEF Ranking

\* A step that has nothing to do with pools.
LEMMA PoolByService ==
    ASSUME Base, PoolOK, tidy, NEW a \in Ambassadors, NEW step, Doing(step, a), Done,
           UNCHANGED <<pool, pooled>>, DOMAIN ledger \subseteq DOMAIN ledger',
           \A i \in DOMAIN ledger' \ DOMAIN ledger : i.kind # "LEADERSHIP_POOL",
           \A i \in DOMAIN ledger : i.kind = "LEADERSHIP_POOL" => ledger'[i] = ledger[i]
    PROVE  PoolOK'
<1>1. run'.saved = run.saved /\ run'.month = run.month /\ run'.pool = run.pool /\ run.busy
  BY DoneOK
<1>2. PoolIn(ledger', pool, pooled)
  BY PoolInKeeps DEF PoolOK, Base
<1> QED BY <1>1, <1>2 DEF PoolOK

LEMMA PoolWorking == ASSUME Base, PoolOK, Working, tidy PROVE PoolOK'
<1>1. ASSUME NEW new, Adding(new), ledger' = Extended(new), NEW kind,
             \A i \in DOMAIN new : i.kind # kind
      PROVE  /\ DOMAIN ledger \subseteq DOMAIN ledger'
             /\ \A i \in DOMAIN ledger' \ DOMAIN ledger : i.kind # kind
             /\ \A i \in DOMAIN ledger : ledger'[i] = ledger[i]
  BY <1>1, ExtendedOK DEF Base
<1>2. ASSUME NEW a \in Ambassadors, Turn(a) PROVE PoolOK'
  <2>1. /\ run'.month = run.month /\ run'.busy = run.busy /\ run'.saved = run.saved
        /\ run'.pool = run.pool /\ UNCHANGED <<ledger, pool, tidy, pooled>>
    BY <1>2 DEF Turn, Base, RunOK, money, history
  <2> QED BY <2>1 DEF PoolOK
<1>3. ASSUME NEW a \in Ambassadors, EvaluateRank(a) PROVE PoolOK'
  <2>1. PICK new : /\ Adding(new) /\ ledger' = Extended(new)
                   /\ \A i \in DOMAIN new : i.kind = "RANK_ADVANCEMENT"
    BY <1>3, RankStep
  <2>2. Doing("rank", a) /\ Done /\ UNCHANGED <<pool, pooled>>
    BY <1>3 DEF EvaluateRank, history
  <2>3. \A i \in DOMAIN new : i.kind # "LEADERSHIP_POOL"
    BY <2>1
  <2> QED BY <1>1, <2>1, <2>2, <2>3, PoolByService
<1>4. ASSUME NEW a \in Ambassadors, CalculateCommission(a) PROVE PoolOK'
  <2>1. Calculates(a, run.month) /\ CommissionOf(a, run.month).kind = "COMMISSION"
    BY <1>4, CommissionStep DEF CommissionOf
  <2>2. Doing("commission", a) /\ Done /\ UNCHANGED <<pool, pooled>>
    BY <1>4 DEF CalculateCommission, history
  <2>3. /\ DOMAIN ledger' = DOMAIN ledger \union {CommissionOf(a, run.month)}
        /\ \A i \in DOMAIN ledger : i # CommissionOf(a, run.month) => ledger'[i] = ledger[i]
    BY <2>1 DEF Calculates
  <2> QED BY <2>1, <2>2, <2>3, PoolByService
<1>5. ASSUME NEW a \in Ambassadors,
             CalculateLoyalty(a) \/ CheckFastStart(a) \/ CheckMilestones(a)
      PROVE  PoolOK'
  <2>1. PICK new : Credits(a, new)
    BY <1>5, LoyaltyStep, FastStartStep, MilestoneStep
  <2>2. PICK step : Doing(step, a) /\ Done
    BY <1>5 DEF CalculateLoyalty, CheckFastStart, CheckMilestones
  <2>3. /\ Adding(new) /\ ledger' = Extended(new)
        /\ \A i \in DOMAIN new : i.kind # "LEADERSHIP_POOL"
    BY <2>1 DEF Credits, Credit, Credited
  <2>4. UNCHANGED <<pool, pooled>>
    BY <1>5 DEF CalculateLoyalty, CheckFastStart, CheckMilestones, history
  <2> QED BY <1>1, <2>2, <2>3, <2>4, PoolByService
<1>6. ASSUME CalculatePool PROVE PoolOK'
  <2>1. PoolIn(ledger', pool', pooled)
    BY <1>6, PoolSharedOut
  <2>2. ~run'.pool /\ run'.saved = run.saved /\ run.busy /\ UNCHANGED <<tidy, pooled>>
    BY <1>6 DEF CalculatePool, Base, RunOK, history
  <2> QED BY <2>1, <2>2 DEF PoolOK
<1>7. ASSUME Commit PROVE PoolOK'
  <2>1. ~run'.busy /\ ~run'.pool /\ UNCHANGED <<ledger, pool, pooled>>
    BY <1>7, IdleIsOK DEF Commit, Idle, money, history
  <2> QED BY <2>1 DEF PoolOK
<1>8. ASSUME RollBack PROVE PoolOK'
  <2>1. /\ ~run'.busy /\ ~run'.pool /\ ledger' = run.saved.ledger /\ pool' = run.saved.pool
        /\ run.busy /\ UNCHANGED pooled
    BY <1>8, IdleIsOK DEF RollBack, Idle, history
  <2> QED BY <2>1 DEF PoolOK
<1> QED BY <1>2, <1>3, <1>4, <1>5, <1>6, <1>7, <1>8 DEF Working

LEMMA PoolByHand == ASSUME Base, PoolOK, ByHand \/ Editing \/ PayingOut PROVE PoolOK'
<1>0. LedgerOK(ledger) /\ (tidy => PoolIn(ledger, pool, pooled))
  BY DEF Base, PoolOK
<1>1. ASSUME ByAdmin, tidy' => PoolIn(ledger', pool, pooled) PROVE PoolOK'
  <2>1. ~run'.busy /\ ~run'.pool /\ UNCHANGED <<pool, pooled>>
    BY <1>1 DEF ByAdmin, Base, RunOK
  <2> QED BY <1>1, <2>1 DEF PoolOK
<1>2. CASE ByHand
  <2>1. PICK new : HandAdds(new)
    BY <1>2, PromoteStep, BonusByHandStep DEF ByHand
  <2>2. ASSUME tidy' PROVE PoolIn(ledger', pool, pooled)
    <3>1. /\ DOMAIN ledger' = DOMAIN ledger \union DOMAIN new
          /\ \A i \in DOMAIN ledger : ledger'[i] = ledger[i]
      BY <1>0, <2>1, ExtendedOK DEF HandAdds
    <3>2. tidy /\ \A i \in DOMAIN new : i.kind # "LEADERSHIP_POOL"
      BY <2>1, <2>2 DEF HandAdds
    <3> QED BY <1>0, <3>1, <3>2, PoolInKeeps
  <2> QED BY <1>1, <2>1, <2>2 DEF HandAdds
<1>3. CASE Editing
  BY <1>1, <1>3, EditStep
<1>4. CASE PayingOut
  <2>1. ByAdmin /\ DOMAIN ledger' = DOMAIN ledger /\ UNCHANGED tidy
    BY <1>4, PayingStep DEF Rewritten
  <2>2. \A i \in DOMAIN ledger : ledger'[i].amount = ledger[i].amount
    BY <1>4, PayingAmounts
  <2> QED BY <1>0, <1>1, <2>1, <2>2, PoolInKeeps
<1> QED BY <1>2, <1>3, <1>4

LEMMA PoolStays == ASSUME Base, PoolOK, [Next]_vars PROVE PoolOK'
<1>1. CASE Ranking
  BY <1>1, PoolRanking
<1>2. CASE Working
  <2>1. tidy' = tidy
    BY <1>2 DEF Working, Turn, EvaluateRank, CalculateCommission, CalculateLoyalty,
                CheckFastStart, CheckMilestones, CalculatePool, Commit, RollBack, history
  <2>2. CASE tidy
    BY <1>2, <2>2, PoolWorking
  <2>3. CASE ~tidy
    BY <2>1, <2>3 DEF PoolOK
  <2> QED BY <2>2, <2>3
<1>3. CASE ByHand \/ Editing \/ PayingOut
  BY <1>3, PoolByHand
<1>4. CASE UNCHANGED <<ledger, pool, run, tidy, pooled>>
  BY <1>4 DEF PoolOK
<1>5. CASE Travelling
  BY <1>4, <1>5, TravelStep DEF history
<1>6. CASE (\E a \in Ambassadors : \E s \in MayHold[a] : Churn(a, s)) \/ Elapse
  BY <1>4, <1>6, OutsideStep DEF money, history
<1>7. CASE UNCHANGED vars
  BY <1>4, <1>7 DEF vars, money, history
<1> QED BY <1>1, <1>2, <1>3, <1>5, <1>6, <1>7 DEF Next

LEMMA PoolHolds == Spec => []PoolOK
<1>1. Init => PoolOK
  <2> SUFFICES ASSUME Init PROVE PoolOK
    OBVIOUS
  <2>1. /\ DOMAIN ledger = {} /\ DOMAIN pool = {} /\ ~run.busy /\ ~run.pool
        /\ \A m \in Months : pooled[m] = 0
    BY DEF Init, Idle
  <2>2. \A m : Shares(ledger, m) = {}
    BY <2>1 DEF Shares
  <2>3. PoolIn(ledger, pool, pooled)
    BY <2>1, <2>2 DEF PoolIn
  <2> QED BY <2>1, <2>3 DEF PoolOK
<1>2. Base /\ PoolOK /\ [Next]_vars => PoolOK'
  BY PoolStays
<1> QED BY BaseHolds, <1>1, <1>2, PTL DEF Spec

\* The sums agree, in every order of requests, churn and rollbacks.  What an
\* ambassador is shown as paid and pending is rewards_earned plus the bonuses it
\* leaves out, as long as a month's cycle runs once and nobody edits by hand; the
\* shares of a pool calculated once are the pool up to half a cent each.
THEOREM SumsAgree == Spec => []MoneyAddsUp
<1>1. Base /\ EarnedOK => EarnedMatchesRows
  BY EarnedIsShown
<1>2. Base /\ PoolOK => PoolIsShared
  <2> SUFFICES ASSUME Base, PoolOK, tidy, NEW m \in DOMAIN pool, pooled[m] = 1, pool[m].eligible > 0
               PROVE  /\ 2 * TotalOf(Shares(ledger, m)) <= 2 * pool[m].total + pool[m].eligible
                      /\ 2 * TotalOf(Shares(ledger, m)) + pool[m].eligible >= 2 * pool[m].total
    BY DEF PoolIsShared, Shares
  <2>1. m \in Months /\ PoolIn(ledger, pool, pooled)
    BY DEF Base, PoolsOK, PoolOK
  <2>2. Fair(SumFunctionOnSet(AmountsIn(ledger), Shares(ledger, m)), pool[m])
    BY <2>1 DEF PoolIn
  <2>3. TotalOf(Shares(ledger, m)) = SumFunctionOnSet(AmountsIn(ledger), Shares(ledger, m))
    BY DEF TotalOf, Amounts, AmountsIn
  <2> QED BY <2>2, <2>3 DEF Fair
<1>3. Base /\ EarnedOK /\ PoolOK => MoneyAddsUp
  BY <1>1, <1>2 DEF MoneyAddsUp
<1> QED BY BaseHolds, EarnedHolds, PoolHolds, <1>3, PTL

(***************************************************************************)
(* Performance: what its state looks like.                                 *)
(***************************************************************************)
ReportKinds == {"performance", "trading", "executions"}
Amount == {<< >>} \union {<<n>> : n \in Nat}      \* a balance, or none
Snapshot == [member : Members, at : Instants, total : Nat]
Ascending(q) == \A i, j \in 1..Len(q) : i <= j => q[i].at <= q[j].at

\* The table: nothing is dated later than now, and an order is made before it
\* is executed.
TableOK ==
    /\ scene \in Scenes /\ clock \in 0..scene.last
    /\ rows \in [Trades -> [status : Statuses, created : Instants, executed : Instants,
                            pnl : {<< >>} \union {<<p>> : p \in Results}]]
    /\ \A t \in Trades : /\ rows[t].pnl # << >> <=> rows[t].status = "CLOSED"
                         /\ rows[t].created <= clock /\ rows[t].executed <= clock
                         /\ rows[t].status \in Final => rows[t].created <= rows[t].executed
    /\ dropped \subseteq Strategies /\ purged \subseteq Signals /\ held \subseteq Trades
    /\ \A t \in held : rows[t].status = "CLOSED"
    /\ changed \subseteq {"closed", "resettled", "removed"} \X Trades

\* What is captured comes after what is stored, in order.
CapturesOK ==
    /\ capture \in [running : BOOLEAN, todo : SUBSET Members, taken : Seq(Snapshot), done : Nat]
    /\ capture.done <= scene.captures
    /\ snapshots \in Seq(Snapshot)
    /\ Ascending(snapshots) /\ Ascending(capture.taken)
    /\ \A i \in 1..Len(snapshots) : snapshots[i].at <= clock
    /\ \A j \in 1..Len(capture.taken) :
         /\ capture.taken[j].at <= clock
         /\ \A i \in 1..Len(snapshots) : snapshots[i].at <= capture.taken[j].at

\* A report is at some section of its plan.
SectionNames ==
    {"none", "core", "sums", "count", "statuses", "days", "executions", "venues", "sides", "symbols",
     "bitsymbols", "types", "executed", "profitable", "recent"}
ReportShape == [kind : ReportKinds \union {"none"}, left : Seq(SectionNames), since : Int, until : Int,
           venue : Venues \union {"any"}, core : {report.core}, section : SectionNames,
           parts : {report.parts}, fall : {report.fall}]
Place(q, i) ==
    LET plan == Plans[q.kind]
    IN /\ Len(q.left) = Len(plan) - i
       /\ \A j \in 1..Len(q.left) : q.left[j] = plan[i + j]
       /\ q.section = IF i = 0 THEN "none" ELSE plan[i]
StageOK ==
    /\ report \in ReportShape
    /\ report.kind # "none" => \E i \in 0..Len(Plans[report.kind]) : Place(report, i)
    /\ report.kind = "none" => report.left = << >> /\ report.section = "none"

\* An overview shows what the snapshots say while nothing disturbs it.
Overviews ==
    [stage : {"none", "before", "latest", "from", "answered"},
     member : Members \union {NoOverview.member}, start : Int, custom : BOOLEAN,
     before : Amount, latest : Amount, from : Amount, return : Int, disturbed : BOOLEAN]
OverviewType == overview \in Overviews
BalanceIn(q, m, i) ==
    LET P == {k \in 1..Len(q) : q[k].member = m /\ q[k].at <= i}
    IN IF P = {} THEN << >> ELSE <<q[CHOOSE k \in P : \A o \in P : o <= k].total>>
OverviewOK ==
    ~overview.disturbed /\ ~overview.custom =>
        /\ overview.stage \in {"before", "latest", "from"} => overview.start = clock - Period
        /\ overview.stage \in {"latest", "from"} =>
             overview.before = BalanceIn(snapshots, overview.member, clock - Period)
        /\ overview.stage = "from" =>
             overview.latest = BalanceIn(snapshots, overview.member, LastInstant)
        /\ overview.stage = "answered" /\ overview.before # << >> /\ overview.latest # << >> =>
             overview.return = ReturnOf(overview.before, overview.latest)

PerformanceBase ==
    TableOK /\ CapturesOK /\ StageOK /\ OverviewType /\ OverviewOK

\* What a table has to tell a report: its closed trades, and what they earned.
Ledgers ==
    {R \in [Trades -> [status : Statuses, created : Instants, executed : Instants,
                       pnl : {<< >>} \union {<<p>> : p \in Results}]] :
       \A t \in Trades : R[t].pnl # << >> <=> R[t].status = "CLOSED"}
Earns(R) == [t \in Trades |-> IF R[t].pnl = << >> THEN 0 ELSE Head(R[t].pnl)]
Wins(R, T) == {t \in T : Earns(R)[t] > 0}
Books(R, q) ==
    {t \in Trades : /\ R[t].status = "CLOSED" /\ q.since <= R[t].created /\ R[t].created <= q.until
                    /\ q.venue = "any" \/ Deals[t].venue = q.venue}
SymbolsOf(R, q, v, g) ==
    LET T == {t \in Books(R, q) : Deals[t].venue = v}
    IN /\ DOMAIN g = {Deals[t].symbol : t \in T}
       /\ \A k \in DOMAIN g : g[k].pnl = Total(Earns(R), {t \in T : Deals[t].symbol = k})

\* What was in the books before ch was committed is there still, or ch says why not.
Out(kind, ch) == {t \in Trades : <<kind, t>> \in ch}
StillIn(R, q, ch) == Books(R, q) \union Out("removed", ch)
StillWon(R, q, ch) == Wins(R, Books(R, q)) \union (Out("removed", ch) \union Out("resettled", ch))

\* The totals above the breakdowns, and what they keep to.
TotalsOK ==
    report.kind \in {"performance", "trading"} /\ report.section # "none" =>
        /\ {"trades", "wins", "pnl"} \subseteq DOMAIN report.core
        /\ report.core.trades \in Nat /\ report.core.wins \in Nat
        /\ changed = {} =>
             /\ report.core.trades = Cardinality(Books(rows, report))
             /\ report.core.wins = Cardinality(Wins(rows, Books(rows, report)))
             /\ report.core.pnl = Total(Earns(rows), Books(rows, report))
        /\ report.core.trades <= Cardinality(StillIn(rows, report, changed))
        /\ report.core.wins <= Cardinality(StillWon(rows, report, changed))
        /\ changed = {} /\ report.section = "symbols" =>
             SymbolsOf(rows, report, "hyperliquid", report.parts)

\* What holds of zero, and of the number after each it holds of, holds of all.
LEMMA UpToInduction ==
    ASSUME NEW n \in Nat, NEW T, 0 \in T, \A i \in 0..n : i < n /\ i \in T => i + 1 \in T
    PROVE  \A i \in 0..n : i \in T
<1> DEFINE U == {s \in SUBSET (0..n) : \A i \in 0..n : s = 0..i => i \in T}
<1>1. IsFiniteSet(0..n)
  BY FS_Interval
<1>2. ASSUME NEW s \in SUBSET (0..n), \A t \in SUBSET s : t # s => t \in U
      PROVE  s \in U
  <2>1. ASSUME NEW i \in 0..n, s = 0..i PROVE i \in T
    <3>1. CASE i = 0
      BY <3>1
    <3>2. CASE i # 0
      <4>1. i - 1 \in 0..n /\ 0..(i-1) \in SUBSET s /\ 0..(i-1) # s /\ 0..(i-1) \in SUBSET (0..n)
        BY <2>1, <3>2
      <4>2. i - 1 \in T
        BY <1>2, <4>1
      <4> QED BY <4>1, <4>2
    <3> QED BY <3>1, <3>2
  <2> QED BY <2>1
<1>3. \A s \in SUBSET (0..n) : s \in U
  <2> HIDE DEF U
  <2> QED BY <1>1, <1>2, SubsetInduction
<1>4. ASSUME NEW i \in 0..n PROVE i \in T
  <2>1. 0..i \in SUBSET (0..n)
    OBVIOUS
  <2> QED BY <1>3, <2>1
<1> QED BY <1>4

\* A sum is the sum of the sums of its groups.
Grouped(S, key, K, part) ==
    /\ \A x \in S : key[x] \in K
    /\ \A k \in K : part[k] \in SUBSET S /\ \A x \in S : x \in part[k] <=> key[x] = k

LEMMA SumByGroup ==
    ASSUME NEW f, NEW S, IsFiniteSet(S), \A x \in S : f[x] \in Int,
           NEW key, NEW K, IsFiniteSet(K), NEW part, Grouped(S, key, K, part),
           NEW g, \A k \in K : g[k] = SumFunctionOnSet(f, part[k])
    PROVE  SumFunctionOnSet(g, K) = SumFunctionOnSet(f, S)
<1> USE DEF Grouped
<1> DEFINE In(s) == {x \in S : key[x] \in s}
           T == {s \in SUBSET K : SumFunctionOnSet(g, s) = SumFunctionOnSet(f, In(s))}
<1>1. \A s : IsFiniteSet(In(s)) /\ \A x \in In(s) : f[x] \in Int
  BY FS_Subset
<1>2. \A k \in K : g[k] \in Int
  <2>1. ASSUME NEW k \in K PROVE g[k] \in Int
    <3>1. IsFiniteSet(part[k]) /\ \A x \in part[k] : f[x] \in Int
      BY FS_Subset
    <3> QED BY <3>1, SumTakes
  <2> QED BY <2>1
<1>3. {} \in T
  <2>1. In({}) = {}
    OBVIOUS
  <2>2. SumFunctionOnSet(g, {}) = 0 /\ SumFunctionOnSet(f, {}) = 0
    BY SumEmpty
  <2> QED BY <2>1, <2>2
<1>4. ASSUME NEW s \in SUBSET K, NEW k \in K \ s, s \in T
      PROVE  s \union {k} \in T
  <2>1. In(s \union {k}) = In(s) \union part[k] /\ In(s) \intersect part[k] = {}
    OBVIOUS
  <2>2. IsFiniteSet(s) /\ IsFiniteSet(part[k])
    BY FS_Subset
  <2>3. SumFunctionOnSet(g, s \union {k}) = SumFunctionOnSet(g, s) + g[k]
    <3>1. \A y \in s \union {k} : g[y] \in Int
      BY <1>2
    <3> QED BY <2>2, <3>1, SumWith
  <2>4. SumFunctionOnSet(f, In(s) \union part[k])
          = SumFunctionOnSet(f, In(s)) + SumFunctionOnSet(f, part[k])
    <3>1. \A x \in In(s) \union part[k] : f[x] \in Int
      OBVIOUS
    <3> HIDE DEF In
    <3> QED BY <1>1, <2>1, <2>2, <3>1, SumUnion
  <2>5. g[k] = SumFunctionOnSet(f, part[k]) /\ SumFunctionOnSet(g, s) = SumFunctionOnSet(f, In(s))
    BY <1>4
  <2>6. SumFunctionOnSet(g, s \union {k}) = SumFunctionOnSet(f, In(s \union {k}))
    <3> HIDE DEF In
    <3> QED BY <2>1, <2>3, <2>4, <2>5
  <2> QED BY <2>6
<1>5. K \in T
  <2> HIDE DEF T, In, Grouped
  <2> QED BY <1>3, <1>4, ElementInduction
<1>6. In(K) = S
  OBVIOUS
<1> QED BY <1>5, <1>6

\* The members of a set are those of its groups.
LEMMA CountByGroup ==
    ASSUME NEW S, IsFiniteSet(S), NEW key, NEW K, IsFiniteSet(K),
           NEW part, Grouped(S, key, K, part),
           NEW g, \A k \in K : g[k] = Cardinality(part[k])
    PROVE  SumFunctionOnSet(g, K) = Cardinality(S)
<1>0. PICK one : \A x \in S : one[x] = 1
  <2>1. \A x \in S : [y \in S |-> 1][x] = 1
    OBVIOUS
  <2> QED BY <2>1
<1>1. ASSUME NEW R \in SUBSET S PROVE SumFunctionOnSet(one, R) = Cardinality(R)
  <2>1. IsFiniteSet(R) /\ \A x \in R : one[x] = 1
    BY <1>0, FS_Subset
  <2>2. 1 \in Int
    OBVIOUS
  <2>3. Cardinality(R) \in Nat /\ SumFunctionOnSet(one, R) = Cardinality(R) * 1
    BY <2>1, <2>2, SumOfEqual
  <2> QED BY <2>3
<1>2. \A x \in S : one[x] \in Int
  BY <1>0
<1>3. \A k \in K : g[k] = SumFunctionOnSet(one, part[k])
  BY <1>1 DEF Grouped
<1>4. SumFunctionOnSet(g, K) = SumFunctionOnSet(one, S)
  BY <1>2, <1>3, SumByGroup
<1>5. S \in SUBSET S
  OBVIOUS
<1> QED BY <1>1, <1>4, <1>5

\* A smaller set of natural numbers sums up to no more.
LEMMA SumGrows ==
    ASSUME NEW f, NEW S, IsFiniteSet(S), NEW R \in SUBSET S, \A x \in S : f[x] \in Nat
    PROVE  SumFunctionOnSet(f, R) <= SumFunctionOnSet(f, S)
<1>1. IsFiniteSet(R) /\ IsFiniteSet(S \ R) /\ R \union (S \ R) = S /\ R \intersect (S \ R) = {}
  BY FS_Subset
<1>2. SumFunctionOnSet(f, R \union (S \ R)) = SumFunctionOnSet(f, R) + SumFunctionOnSet(f, S \ R)
  <2>1. \A x \in R \union (S \ R) : f[x] \in Int
    OBVIOUS
  <2> QED BY <1>1, <2>1, SumUnion
<1>3. SumFunctionOnSet(f, R) \in Nat /\ SumFunctionOnSet(f, S \ R) \in Nat
  BY <1>1, SumIsNat
<1>4. SumFunctionOnSet(f, S) = SumFunctionOnSet(f, R) + SumFunctionOnSet(f, S \ R)
  BY <1>1, <1>2
<1> QED BY <1>3, <1>4

(* Quotients.                                                              *)

\* A later instant is on no earlier day.
LEMMA DayGrows ==
    ASSUME NEW i \in Nat, NEW j \in Nat, i <= j
    PROVE  Day(i) \in Nat /\ Day(j) \in Nat /\ Day(i) <= Day(j)
<1>1. DayLength \in Nat /\ DayLength > 0
  BY PerformanceConstants
<1> DEFINE q == i \div DayLength
           r == j \div DayLength
<1>2. q \in Int /\ r \in Int
  BY <1>1
<1>3. /\ DayLength * q <= i /\ i < DayLength * (q + 1)
      /\ DayLength * r <= j /\ j < DayLength * (r + 1)
  BY <1>1
<1> HIDE DEF q, r
<1>4. q >= 0 /\ r >= 0
  <2>1. CASE q < 0
    <3>1. q + 1 <= 0
      BY <2>1, <1>2
    <3>2. DayLength * (q + 1) <= 0
      BY <3>1, <1>1, <1>2
    <3> QED BY <3>2, <1>1, <1>2, <1>3
  <2>2. CASE r < 0
    <3>1. r + 1 <= 0
      BY <2>2, <1>2
    <3>2. DayLength * (r + 1) <= 0
      BY <3>1, <1>1, <1>2
    <3> QED BY <3>2, <1>1, <1>2, <1>3
  <2> QED BY <2>1, <2>2, <1>2
<1>5. ~(q > r)
  <2> SUFFICES ASSUME q > r PROVE FALSE
    OBVIOUS
  <2>1. q >= r + 1
    BY <1>2
  <2>2. DayLength * q >= DayLength * (r + 1)
    BY <2>1, <1>1, <1>2
  <2>3. DayLength * q \in Int /\ DayLength * (r + 1) \in Int
    BY <1>1, <1>2
  <2> QED BY <2>2, <2>3, <1>3
<1> QED BY <1>2, <1>4, <1>5 DEF q, r, Day

\* A percentage is off by no more than half a hundredth.
OffByHalf(p, n, d) == 2 * d * p - 20000 * n <= d /\ 20000 * n - 2 * d * p <= d

LEMMA PercentIsClose ==
    ASSUME NEW n \in Int, NEW d \in Int
    PROVE  Percent(n, d) \in Int /\ (d > 0 => OffByHalf(Percent(n, d), n, d))
<1> DEFINE a == 20000 * n + d
           b == 2 * d
           q == a \div b
<1>1. CASE d > 0
  <2>1. a \in Int /\ b \in Nat /\ b > 0
    BY <1>1
  <2>2. Percent(n, d) = q
    BY <1>1 DEF Percent
  <2>3. q \in Int /\ b * q <= a /\ a < b * (q + 1)
    <3> HIDE DEF a, b
    <3> QED BY <2>1
  <2>4. b * (q + 1) = b * q + b
    <3>1. q \in Int
      BY <2>3
    <3> HIDE DEF a, b, q
    <3> QED BY <2>1, <3>1
  <2>5. 2 * d * q = b * q
    <3>1. q \in Int
      BY <2>3
    <3> HIDE DEF q
    <3> QED BY <3>1
  <2>6. b * q \in Int
    BY <2>1, <2>3
  <2>7. b * q - 20000 * n <= d /\ 20000 * n - b * q <= d
    <3> DEFINE p == b * q
    <3>1. p \in Int /\ p <= a /\ a < p + b
      BY <2>3, <2>4, <2>6
    <3> HIDE DEF p, q
    <3>2. p <= 20000 * n + d /\ 20000 * n + d < p + 2 * d
      BY <3>1
    <3>3. p - 20000 * n <= d /\ 20000 * n - p <= d
      BY <3>1, <3>2
    <3> QED BY <3>3 DEF p
  <2> HIDE DEF a, b, q
  <2> QED BY <1>1, <2>2, <2>3, <2>5, <2>7 DEF OffByHalf
<1>2. CASE d <= 0
  BY <1>2 DEF Percent
<1> QED BY <1>1, <1>2

(* The inductive step of the types.                                        *)

LEMMA SceneType ==
    ASSUME scene \in Scenes
    PROVE  /\ scene.trades \subseteq Trades /\ scene.last \in Instants /\ scene.captures \in Nat
           /\ scene.requests \subseteq [kind : ReportKinds, period : {"today", "days", "custom"},
                                        venue : Venues \union {"any"}]
           /\ scene.connected \in [Members -> SUBSET Venues]
BY PerformanceConstants DEF ReportKinds

LEMMA TableInit == PerformanceInit => TableOK
BY SceneType, PerformanceConstants
   DEF PerformanceInit, TableOK, Absent, Statuses, Instants, Final

LEMMA TimeType == TableOK => clock \in Instants
BY SceneType, PerformanceConstants DEF TableOK, Instants

LEMMA TableTick == TableOK /\ Tick => TableOK'
BY SceneType, PerformanceConstants DEF TableOK, Tick, Instants

LEMMA TableRecord ==
    ASSUME TableOK, NEW t \in Trades, Record(t)
    PROVE  TableOK'
<1>1. PICK began \in {clock, clock - 1} \intersect Instants :
         \/ rows' = [rows EXCEPT ![t] = [Absent EXCEPT !.status = "FILLED", !.created = began,
                                                       !.executed = clock]]
         \/ rows' = [rows EXCEPT ![t] = [Absent EXCEPT !.status = "FAILED", !.created = began]]
  BY DEF Record
<1>2. clock \in Instants /\ began <= clock /\ began \in Instants /\ clock \in Nat /\ 0 <= began
  BY TimeType, PerformanceConstants DEF Instants
<1> DEFINE R == [status : Statuses, created : Instants, executed : Instants, pnl : {<< >>}]
           Fits(r) == /\ r \in R /\ r.created <= clock /\ r.executed <= clock
                      /\ r.status # "CLOSED" /\ (r.status \in Final => r.created <= r.executed)
<1>3. \E r \in R : rows' = [rows EXCEPT ![t] = r] /\ Fits(r)
  <2>1. CASE rows' = [rows EXCEPT ![t] = [Absent EXCEPT !.status = "FILLED", !.created = began,
                                                       !.executed = clock]]
    <3> DEFINE r == [Absent EXCEPT !.status = "FILLED", !.created = began, !.executed = clock]
    <3>1. r \in R /\ r.status = "FILLED" /\ r.created = began /\ r.executed = clock
      BY <1>2 DEF Absent, Statuses
    <3> HIDE DEF r, R
    <3>2. Fits(r)
      BY <1>2, <3>1
    <3> QED BY <2>1, <3>1, <3>2 DEF r
  <2>2. CASE rows' = [rows EXCEPT ![t] = [Absent EXCEPT !.status = "FAILED", !.created = began]]
    <3> DEFINE r == [Absent EXCEPT !.status = "FAILED", !.created = began]
    <3>1. 0 \in Instants
      BY PerformanceConstants DEF Instants
    <3>2. r \in R /\ r.status = "FAILED" /\ r.created = began /\ r.executed = 0
      BY <1>2, <3>1 DEF Absent, Statuses
    <3> HIDE DEF r, R
    <3>3. Fits(r)
      BY <1>2, <3>2 DEF Final
    <3> QED BY <2>2, <3>2, <3>3 DEF r
  <2> QED BY <1>1, <2>1, <2>2
<1>4. /\ scene' = scene /\ clock' = clock /\ changed' = changed
      /\ dropped' = dropped /\ purged' = purged /\ held' = held /\ t \notin held
  BY DEF Record, TableOK
<1> QED BY <1>3, <1>4 DEF TableOK, Final

LEMMA NotedType ==
    ASSUME TableOK, NEW kind \in {"closed", "resettled", "removed"}, NEW T \in SUBSET Trades
    PROVE  Noted(kind, T) \subseteq {"closed", "resettled", "removed"} \X Trades
BY DEF TableOK, Noted

LEMMA TableClose ==
    ASSUME TableOK, NEW t \in Trades, NEW p \in Results, Close(t, p)
    PROVE  TableOK'
<1>1. rows' = [rows EXCEPT ![t] = [rows[t] EXCEPT !.status = "CLOSED", !.pnl = <<p>>]]
  BY DEF Close, TableOK
<1>2. /\ scene' = scene /\ clock' = clock /\ dropped' = dropped /\ purged' = purged
      /\ held' \subseteq held \union {t}
  BY DEF Close
<1>3. rows[t].status \in Final
  BY DEF Close, Final, TableOK
<1>4. changed' \subseteq {"closed", "resettled", "removed"} \X Trades
  <2>1. changed' = Noted("resettled", {t}) \/ changed' = Noted("closed", {t})
    BY DEF Close
  <2> QED BY <2>1, NotedType
<1> QED BY <1>1, <1>2, <1>3, <1>4 DEF TableOK, Final, Statuses

LEMMA TableRemove ==
    ASSUME TableOK, NEW T \in SUBSET Trades, Remove(T), dropped' \subseteq Strategies, purged' \subseteq Signals
    PROVE  TableOK'
<1>1. 0 \in Instants /\ clock \in Nat
  BY TimeType, PerformanceConstants DEF Instants
<1>2. Absent \in [status : Statuses, created : Instants, executed : Instants, pnl : {<< >>}]
  BY <1>1 DEF Absent, Statuses
<1>3. Absent.status = "NONE" /\ Absent.created = 0 /\ Absent.executed = 0 /\ Absent.pnl = << >>
  BY DEF Absent
<1>4. rows' = [t \in Trades |-> IF t \in T THEN Absent ELSE rows[t]] /\ held' = held \ T
  BY DEF Remove
<1>5. scene' = scene /\ clock' = clock
  BY DEF Remove
<1>6. changed' \subseteq {"closed", "resettled", "removed"} \X Trades
  <2>1. {t \in T : rows[t].status = "CLOSED"} \in SUBSET Trades
    OBVIOUS
  <2>2. changed' = Noted("removed", {t \in T : rows[t].status = "CLOSED"})
    BY DEF Remove
  <2> QED BY <2>1, <2>2, NotedType
<1> QED BY <1>1, <1>2, <1>3, <1>4, <1>5, <1>6 DEF TableOK, Final, Statuses

LEMMA RemovalsRemove ==
    ASSUME TableOK, (\E s \in Strategies : DeleteStrategy(s)) \/ CleanUp
    PROVE  \E T \in SUBSET Trades : Remove(T) /\ dropped' \subseteq Strategies /\ purged' \subseteq Signals
<1>1. ASSUME NEW s \in Strategies, DeleteStrategy(s)
      PROVE  \E T \in SUBSET Trades : Remove(T) /\ dropped' \subseteq Strategies /\ purged' \subseteq Signals
  <2>1. Remove({t \in Trades : Deals[t].strategy = s}) /\ {t \in Trades : Deals[t].strategy = s} \in SUBSET Trades
    BY <1>1 DEF DeleteStrategy
  <2>2. dropped' = dropped \union {s} /\ purged' = purged
    BY <1>1 DEF DeleteStrategy
  <2> QED BY <2>1, <2>2 DEF TableOK
<1>2. CASE CleanUp
  <2>1. PICK old \in SUBSET {s \in {Deals[t].signal : t \in scene.trades} \ purged :
                             Issued[s].at < clock - Retention} :
          purged' = purged \union old /\ Remove({t \in Trades : Deals[t].signal \in old})
    BY <1>2 DEF CleanUp
  <2>2. {t \in Trades : Deals[t].signal \in old} \in SUBSET Trades
    OBVIOUS
  <2>3. old \subseteq Signals
    <3>1. scene.trades \subseteq Trades
      BY SceneType DEF TableOK
    <3>2. \A t \in Trades : Deals[t].signal \in Signals
      BY PerformanceConstants
    <3> QED BY <3>1, <3>2
  <2>4. dropped' = dropped
    BY <1>2 DEF CleanUp
  <2> QED BY <2>1, <2>2, <2>3, <2>4 DEF TableOK
<1> QED BY <1>1, <1>2

LEMMA ReportingFrame ==
    Reporting => /\ UNCHANGED <<scene, tables, portfolio>>
                 /\ changed' = changed \/ changed' = {}
BY DEF Reporting, RequestReport, Read, ReadCore, ReadSums, ReadDays, ReadExecutions, ReadVenues,
       ReadSides, ReadSymbols, ReadBitSymbols, ReadTypes, ReadExecuted, ReadProfitable, ReadRecent,
       ReadCount, ReadStatuses, Answer

LEMMA WatchingFrame == Watching => UNCHANGED <<scene, tables, report, changed>>
BY DEF Watching, CaptureMember, OpenOverview, Move, StartCapture, CommitCapture, AbortCapture,
       ReadBefore, ReadLatest, ReadReturn, ShowOverview

LEMMA StepCases ==
    [PerformanceNext]_performanceVars =>
        \/ Tick
        \/ \E t \in Trades : Record(t)
        \/ \E t \in Trades : \E p \in Results : Close(t, p)
        \/ (\E s \in Strategies : DeleteStrategy(s)) \/ CleanUp
        \/ Reporting
        \/ Watching
        \/ UNCHANGED performanceVars
BY DEF PerformanceNext

LEMMA TableStep == TableOK /\ [PerformanceNext]_performanceVars => TableOK'
<1> SUFFICES ASSUME TableOK, [PerformanceNext]_performanceVars PROVE TableOK'
  OBVIOUS
<1>1. CASE Reporting
  BY <1>1, ReportingFrame DEF TableOK, tables
<1>2. CASE Watching
  BY <1>2, WatchingFrame DEF TableOK, tables
<1>3. CASE UNCHANGED performanceVars
  BY <1>3 DEF TableOK, tables, performanceVars
<1> QED BY <1>1, <1>2, <1>3, StepCases, TableTick, TableRecord, TableClose, TableRemove, RemovalsRemove

(* What is captured, and what is stored.                                   *)

LEMMA CapturesInit == PerformanceInit => CapturesOK
<1> SUFFICES ASSUME PerformanceInit PROVE CapturesOK
  OBVIOUS
<1>1. snapshots = << >> /\ capture = [running |-> FALSE, todo |-> {}, taken |-> << >>, done |-> 0]
  BY DEF PerformanceInit, NoCapture
<1>2. scene.captures \in Nat
  BY SceneType DEF PerformanceInit
<1>3. << >> \in Seq(Snapshot) /\ Len(<< >>) = 0
  OBVIOUS
<1>4. capture \in [running : BOOLEAN, todo : SUBSET Members, taken : Seq(Snapshot), done : Nat]
  BY <1>1, <1>3
<1> QED BY <1>1, <1>2, <1>3, <1>4 DEF CapturesOK, Ascending

LEMMA SnapshotTime ==
    ASSUME NEW q \in Seq(Snapshot), NEW i \in 1..Len(q)
    PROVE  q[i] \in Snapshot /\ q[i].member \in Members /\ q[i].at \in Int /\ q[i].total \in Nat
<1>1. q[i] \in Snapshot
  OBVIOUS
<1> QED BY <1>1, PerformanceConstants DEF Snapshot, Instants

\* The clock moves on, the captures do not.
LEMMA CapturesLater ==
    ASSUME TableOK, CapturesOK, clock' \in Int, clock <= clock', UNCHANGED <<scene, snapshots, capture>>
    PROVE  CapturesOK'
<1>1. clock \in Nat
  BY TimeType, PerformanceConstants DEF Instants
<1>2. \A i \in 1..Len(snapshots) : snapshots[i].at \in Int
  BY SnapshotTime DEF CapturesOK
<1>3. \A i \in 1..Len(capture.taken) : capture.taken[i].at \in Int
  BY SnapshotTime DEF CapturesOK
<1> QED BY <1>1, <1>2, <1>3 DEF CapturesOK, Ascending

LEMMA CapturesStart ==
    ASSUME TableOK, CapturesOK, StartCapture
    PROVE  CapturesOK'
<1>1. /\ capture' = [running |-> TRUE, todo |-> {m \in Members : Captured(m) # {}},
                     taken |-> << >>, done |-> capture.done + 1]
      /\ capture.done < scene.captures
      /\ UNCHANGED <<scene, clock, snapshots>>
  BY DEF StartCapture, tables
<1>2. << >> \in Seq(Snapshot) /\ Len(<< >>) = 0
  OBVIOUS
<1>3. capture' \in [running : BOOLEAN, todo : SUBSET Members, taken : Seq(Snapshot), done : Nat]
  BY <1>1, <1>2 DEF CapturesOK
<1>4. scene.captures \in Nat
  BY SceneType DEF TableOK
<1> QED BY <1>1, <1>2, <1>3, <1>4 DEF CapturesOK, Ascending

\* One more snapshot, of now.
LEMMA CapturesMember ==
    ASSUME TableOK, CapturesOK, NEW m \in Members, CaptureMember(m)
    PROVE  CapturesOK'
<1>1. PICK failed \in SUBSET Captured(m) : \E got \in [Captured(m) \ failed -> Balances] :
        capture' = [capture EXCEPT !.todo = @ \ {m},
               !.taken = Append(@, [member |-> m, at |-> clock, total |-> SumFunction(got)])]
  BY DEF CaptureMember, Taken
<1>2. PICK got \in [Captured(m) \ failed -> Balances] :
        capture' = [capture EXCEPT !.todo = @ \ {m},
               !.taken = Append(@, [member |-> m, at |-> clock, total |-> SumFunction(got)])]
  BY <1>1
<1>3. SumFunction(got) \in Nat
  <2>1. IsFiniteSet({"hyperliquid", "bybit"})
    <3>1. {"hyperliquid", "bybit"} = {"hyperliquid"} \union {"bybit"}
      OBVIOUS
    <3>2. IsFiniteSet({"hyperliquid"})
      BY FS_Singleton
    <3>3. IsFiniteSet({"hyperliquid"} \union {"bybit"})
      BY <3>2, FS_AddElement
    <3> QED BY <3>1, <3>3
  <2>2. DOMAIN got = Captured(m) \ failed /\ Captured(m) \ failed \subseteq {"hyperliquid", "bybit"}
    BY DEF Captured
  <2>3. IsFiniteSet(DOMAIN got)
    BY <2>1, <2>2, FS_Subset
  <2>4. \A v \in DOMAIN got : got[v] \in Nat
    BY <2>2, PerformanceConstants
  <2> QED BY <2>3, <2>4, SumIsNat DEF SumFunction
<1> DEFINE s == [member |-> m, at |-> clock, total |-> SumFunction(got)]
<1>4. s \in Snapshot /\ s.at = clock
  BY <1>3, TimeType DEF Snapshot
<1>5. capture' = [running |-> capture.running, todo |-> capture.todo \ {m},
                  taken |-> Append(capture.taken, s), done |-> capture.done]
  BY <1>2 DEF CapturesOK
<1> HIDE DEF s
<1>6. capture.taken \in Seq(Snapshot) /\ snapshots \in Seq(Snapshot)
  BY DEF CapturesOK
<1>7. UNCHANGED <<scene, clock, snapshots>>
  BY DEF CaptureMember, tables
<1>8. clock \in Int
  BY TimeType, PerformanceConstants DEF Instants
<1> DEFINE q == Append(capture.taken, s)
           n == Len(capture.taken)
<1>9. /\ q \in Seq(Snapshot) /\ Len(q) = n + 1 /\ n \in Nat
      /\ \A i \in 1..n : q[i] = capture.taken[i]
      /\ q[n + 1] = s
  BY <1>4, <1>6
<1>10. capture' \in [running : BOOLEAN, todo : SUBSET Members, taken : Seq(Snapshot), done : Nat]
  BY <1>5, <1>9 DEF CapturesOK
<1>11. capture'.taken = q /\ capture'.done = capture.done
  BY <1>5
<1>12. \A i \in 1..n : capture.taken[i].at <= clock
  BY DEF CapturesOK
<1> HIDE DEF q, n
<1>13. \A i, j \in 1..(n + 1) : i <= j => q[i].at <= q[j].at
  <2> SUFFICES ASSUME NEW i \in 1..(n + 1), NEW j \in 1..(n + 1), i <= j PROVE q[i].at <= q[j].at
    OBVIOUS
  <2>1. CASE j \in 1..n
    <3>1. i \in 1..n
      BY <1>9, <2>1
    <3> QED BY <1>9, <2>1, <3>1 DEF n, CapturesOK, Ascending
  <2>2. CASE j = n + 1
    <3>1. CASE i \in 1..n
      BY <1>4, <1>9, <1>12, <2>2, <3>1
    <3>2. CASE i = n + 1
      BY <1>4, <1>8, <1>9, <2>2, <3>2
    <3> QED BY <1>9, <3>1, <3>2
  <2> QED BY <1>9, <2>1, <2>2
<1>14. \A j \in 1..(n + 1) : /\ q[j].at <= clock
                             /\ \A i \in 1..Len(snapshots) : snapshots[i].at <= q[j].at
  <2> SUFFICES ASSUME NEW j \in 1..(n + 1)
               PROVE  /\ q[j].at <= clock
                      /\ \A i \in 1..Len(snapshots) : snapshots[i].at <= q[j].at
    OBVIOUS
  <2>1. CASE j \in 1..n
    BY <1>9, <2>1 DEF n, CapturesOK
  <2>2. CASE j = n + 1
    BY <1>4, <1>8, <1>9, <2>2 DEF CapturesOK
  <2> QED BY <1>9, <2>1, <2>2
<1> QED BY <1>7, <1>9, <1>10, <1>11, <1>13, <1>14 DEF CapturesOK, Ascending

\* What was captured is stored.
LEMMA CapturesCommit ==
    ASSUME TableOK, CapturesOK, CommitCapture
    PROVE  CapturesOK'
<1> DEFINE s == snapshots
           t == capture.taken
           q == s \o t
<1>1. /\ snapshots' = q /\ UNCHANGED <<scene, clock>>
      /\ capture' = [running |-> FALSE, todo |-> {}, taken |-> << >>, done |-> capture.done]
  BY DEF CommitCapture, NoCapture, tables
<1>2. << >> \in Seq(Snapshot) /\ Len(<< >>) = 0
  OBVIOUS
<1>3. s \in Seq(Snapshot) /\ t \in Seq(Snapshot)
  BY DEF CapturesOK
<1>4. /\ q \in Seq(Snapshot) /\ Len(s) \in Nat /\ Len(t) \in Nat /\ Len(q) = Len(s) + Len(t)
      /\ \A i \in 1..Len(s) : q[i] = s[i]
      /\ \A i \in 1..Len(q) : i > Len(s) => q[i] = t[i - Len(s)] /\ i - Len(s) \in 1..Len(t)
  BY <1>3
<1>5. /\ \A i, j \in 1..Len(s) : i <= j => s[i].at <= s[j].at
      /\ \A i, j \in 1..Len(t) : i <= j => t[i].at <= t[j].at
      /\ \A i \in 1..Len(s) : s[i].at <= clock
      /\ \A j \in 1..Len(t) : t[j].at <= clock /\ \A i \in 1..Len(s) : s[i].at <= t[j].at
  BY DEF CapturesOK, Ascending
<1>6. capture' \in [running : BOOLEAN, todo : SUBSET Members, taken : Seq(Snapshot), done : Nat]
  BY <1>1, <1>2 DEF CapturesOK
<1>7. capture.done <= scene.captures
  BY DEF CapturesOK
<1> HIDE DEF s, t, q
<1>8. \A i, j \in 1..Len(q) : i <= j => q[i].at <= q[j].at
  <2> SUFFICES ASSUME NEW i \in 1..Len(q), NEW j \in 1..Len(q), i <= j PROVE q[i].at <= q[j].at
    OBVIOUS
  <2>1. CASE j <= Len(s)
    <3>1. i \in 1..Len(s) /\ j \in 1..Len(s)
      BY <1>4, <2>1
    <3> QED BY <1>4, <1>5, <3>1
  <2>2. CASE i > Len(s)
    <3>1. j > Len(s)
      BY <1>4, <2>2
    <3>2. i - Len(s) <= j - Len(s)
      BY <1>4
    <3> QED BY <1>4, <1>5, <2>2, <3>1, <3>2
  <2>3. CASE i <= Len(s) /\ j > Len(s)
    BY <1>4, <1>5, <2>3
  <2> QED BY <1>4, <2>1, <2>2, <2>3
<1>9. \A i \in 1..Len(q) : q[i].at <= clock
  <2> SUFFICES ASSUME NEW i \in 1..Len(q) PROVE q[i].at <= clock
    OBVIOUS
  <2>1. i \in 1..Len(s) \/ i > Len(s)
    BY <1>4
  <2> QED BY <1>4, <1>5, <2>1
<1> QED BY <1>1, <1>2, <1>4, <1>6, <1>7, <1>8, <1>9 DEF CapturesOK, Ascending

LEMMA CapturesAbort ==
    ASSUME TableOK, CapturesOK, AbortCapture
    PROVE  CapturesOK'
<1>1. /\ capture' = [running |-> FALSE, todo |-> {}, taken |-> << >>, done |-> capture.done]
      /\ UNCHANGED <<scene, clock, snapshots>>
  BY DEF AbortCapture, NoCapture, tables
<1>2. << >> \in Seq(Snapshot) /\ Len(<< >>) = 0
  OBVIOUS
<1>3. capture' \in [running : BOOLEAN, todo : SUBSET Members, taken : Seq(Snapshot), done : Nat]
  BY <1>1, <1>2 DEF CapturesOK
<1> QED BY <1>1, <1>2, <1>3 DEF CapturesOK, Ascending

LEMMA CapturesStep ==
    ASSUME TableOK, CapturesOK, [PerformanceNext]_performanceVars
    PROVE  CapturesOK'
<1>0. clock \in Int
  BY TimeType, PerformanceConstants DEF Instants
<1>1. CASE clock' \in Int /\ clock <= clock' /\ UNCHANGED <<scene, snapshots, capture>>
  BY <1>1, CapturesLater
<1>2. CASE StartCapture \/ CommitCapture \/ AbortCapture \/ \E m \in Members : CaptureMember(m)
  BY <1>2, CapturesStart, CapturesMember, CapturesCommit, CapturesAbort
<1>3. CASE UNCHANGED <<scene, clock, snapshots, capture>>
  BY <1>0, <1>1, <1>3
<1>4. CASE Tick
  BY <1>0, <1>1, <1>4 DEF Tick
<1>5. CASE \E t \in Trades : Record(t) \/ \E p \in Results : Close(t, p)
  BY <1>3, <1>5 DEF Record, Close, portfolio
<1>6. CASE (\E s \in Strategies : DeleteStrategy(s)) \/ CleanUp
  BY <1>3, <1>6 DEF DeleteStrategy, CleanUp, Remove, portfolio
<1>7. CASE Reporting
  BY <1>3, <1>7, ReportingFrame DEF tables, portfolio
<1>8. CASE Watching
  <2>1. CASE \/ \E m \in Members : OpenOverview(m)
             \/ \E m \in Members, v \in Venues, b \in Balances : Move(m, v, b)
             \/ ReadBefore \/ ReadLatest \/ ReadReturn
    BY <1>3, <2>1 DEF OpenOverview, Move, ReadBefore, ReadLatest, ReadReturn, ShowOverview, tables
  <2> QED BY <1>2, <1>8, <2>1 DEF Watching
<1>9. CASE UNCHANGED performanceVars
  BY <1>3, <1>9 DEF performanceVars, tables, portfolio
<1> QED BY <1>4, <1>5, <1>6, <1>7, <1>8, <1>9, StepCases

(* Overviews.                                                              *)

\* A set of numbers up to n has a largest one.
LEMMA LargestExists ==
    ASSUME NEW n \in Nat, NEW P \in SUBSET (0..n), P # {}
    PROVE  \E k \in P : \A o \in P : o <= k
<1> DEFINE Goal == \E k \in P : \A o \in P : o <= k
           T == {i \in 0..n : Goal \/ \A o \in P : o <= n - i}
<1>1. 0 \in T
  OBVIOUS
<1>2. ASSUME NEW i \in 0..n, i < n, i \in T
      PROVE  i + 1 \in T
  <2>1. CASE Goal
    BY <1>2, <2>1
  <2>2. CASE ~Goal
    <3>1. \A o \in P : o <= n - i
      BY <1>2, <2>2
    <3>2. n - i \notin P
      BY <2>2, <3>1
    <3>3. \A o \in P : o <= n - (i + 1)
      BY <3>1, <3>2
    <3> QED BY <1>2, <3>3
  <2> QED BY <2>1, <2>2
<1>3. n \in 0..n
  OBVIOUS
<1>4. n \in T
  <2> HIDE DEF T
  <2> QED BY <1>1, <1>2, <1>3, UpToInduction
<1>5. ASSUME \A o \in P : o <= n - n PROVE Goal
  <2>1. PICK k \in P : TRUE
    OBVIOUS
  <2>2. k \in 0..n /\ k <= 0 /\ \A o \in P : o <= 0
    BY <1>5
  <2> QED BY <2>1, <2>2
<1> QED BY <1>4, <1>5

LEMMA BalanceType ==
    ASSUME NEW q \in Seq(Snapshot), NEW m, NEW i
    PROVE  BalanceIn(q, m, i) \in Amount
<1> DEFINE P == {k \in 1..Len(q) : q[k].member = m /\ q[k].at <= i}
           k == CHOOSE k \in P : \A o \in P : o <= k
<1>1. CASE P = {}
  BY <1>1 DEF BalanceIn, Amount
<1>2. CASE P # {}
  <2>1. Len(q) \in Nat /\ P \in SUBSET (0..Len(q)) /\ P \subseteq 1..Len(q)
    OBVIOUS
  <2>2. \E e \in P : \A o \in P : o <= e
    <3> HIDE DEF P
    <3> QED BY <1>2, <2>1, LargestExists
  <2>3. k \in P
    <3> HIDE DEF P
    <3> QED BY <2>2
  <2>4. q[k].total \in Nat
    <3>1. k \in 1..Len(q)
      BY <2>1, <2>3
    <3> HIDE DEF k
    <3> QED BY <3>1, SnapshotTime
  <2>5. BalanceIn(q, m, i) = <<q[k].total>>
    BY <1>2 DEF BalanceIn
  <2> HIDE DEF k
  <2> QED BY <2>4, <2>5 DEF Amount
<1> QED BY <1>1, <1>2

LEMMA BalanceIs == \A m, i : BalanceAt(m, i) = BalanceIn(snapshots, m, i)
BY DEF BalanceAt, BalanceIn

LEMMA ReturnType ==
    ASSUME NEW from \in Amount, NEW latest \in Amount
    PROVE  ReturnOf(from, latest) \in Int
<1>1. CASE from = << >> \/ latest = << >>
  BY <1>1 DEF ReturnOf
<1>2. CASE from # << >> /\ latest # << >>
  <2>1. Head(from) \in Int /\ Head(latest) \in Int /\ Head(latest) - Head(from) \in Int
    BY <1>2 DEF Amount
  <2>2. \A n, d \in Int : Percent(n, d) \in Int
    BY PercentIsClose
  <2> QED BY <1>2, <2>1, <2>2 DEF ReturnOf
<1> QED BY <1>1, <1>2

LEMMA NoOverviewType == NoOverview \in Overviews /\ NoOverview.stage = "none"
<1>1. << >> \in Amount
  BY DEF Amount
<1>2. NoOverview.member \in Members \union {NoOverview.member}
  OBVIOUS
<1> DEFINE m == CHOOSE m \in Members : TRUE
<1>3. NoOverview = [stage |-> "none", member |-> m, start |-> 0, custom |-> FALSE,
                    before |-> << >>, latest |-> << >>, from |-> << >>,
                    return |-> 0, disturbed |-> FALSE]
  BY DEF NoOverview
<1> HIDE DEF m
<1>4. NoOverview.member = m /\ NoOverview.stage = "none"
  BY <1>3
<1> DEFINE M == Members \union {NoOverview.member}
<1>5. m \in M
  BY <1>2, <1>4
<1> HIDE DEF M
<1>6. NoOverview \in [stage : {"none", "before", "latest", "from", "answered"},
     member : M, start : Int, custom : BOOLEAN,
     before : Amount, latest : Amount, from : Amount, return : Int, disturbed : BOOLEAN]
  BY <1>1, <1>3, <1>5
<1> QED BY <1>4, <1>6 DEF Overviews, M

LEMMA OverviewInit == PerformanceInit => OverviewType /\ OverviewOK
<1> SUFFICES ASSUME PerformanceInit PROVE OverviewType /\ OverviewOK
  OBVIOUS
<1>1. overview = NoOverview
  BY DEF PerformanceInit
<1>2. OverviewType
  BY <1>1, NoOverviewType DEF OverviewType
<1>3. OverviewOK
  BY <1>1, NoOverviewType DEF OverviewOK
<1> QED BY <1>2, <1>3

\* Nothing an overview is about changes, or it is disturbed, or it does a step.
LEMMA OverviewCases ==
    ASSUME [PerformanceNext]_performanceVars
    PROVE  \/ UNCHANGED <<clock, snapshots, overview>>
           \/ overview' = Disturbed
           \/ /\ UNCHANGED <<clock, snapshots>>
              /\ (\E m \in Members : OpenOverview(m)) \/ ReadBefore \/ ReadLatest \/ ReadReturn
<1>1. CASE Reporting
  BY <1>1, ReportingFrame DEF tables, portfolio
<1>2. CASE Watching
  BY <1>2 DEF Watching, CaptureMember, OpenOverview, Move, StartCapture, CommitCapture, AbortCapture,
       ReadBefore, ReadLatest, ReadReturn, ShowOverview, tables
<1>3. CASE UNCHANGED performanceVars
  BY <1>3 DEF performanceVars, tables, portfolio
<1>4. CASE Tick
  BY <1>4 DEF Tick
<1>5. CASE \E t \in Trades : Record(t) \/ \E p \in Results : Close(t, p)
  BY <1>5 DEF Record, Close, portfolio
<1>6. CASE (\E s \in Strategies : DeleteStrategy(s)) \/ CleanUp
  BY <1>6 DEF DeleteStrategy, CleanUp, Remove, portfolio
<1> QED BY <1>1, <1>2, <1>3, <1>4, <1>5, <1>6, StepCases

LEMMA OverviewDisturbed ==
    ASSUME OverviewType, OverviewOK, overview' = Disturbed
    PROVE  OverviewType' /\ OverviewOK'
<1> DEFINE Stirred == overview.disturbed \/ overview.stage \in {"before", "latest", "from"}
<1>1. overview' = [overview EXCEPT !.disturbed = Stirred]
  BY DEF Disturbed
<1>2. Stirred \in BOOLEAN
  BY DEF OverviewType, Overviews
<1>3. OverviewType'
  BY <1>1, <1>2 DEF OverviewType, Overviews
<1>4. /\ overview'.disturbed = Stirred /\ overview'.stage = overview.stage
      /\ overview'.custom = overview.custom /\ overview'.before = overview.before
      /\ overview'.latest = overview.latest /\ overview'.return = overview.return
  BY <1>1 DEF OverviewType, Overviews
<1>5. OverviewOK'
  <2>1. CASE Stirred
    BY <1>4, <2>1 DEF OverviewOK
  <2>2. CASE ~Stirred
    BY <1>4, <2>2 DEF OverviewOK, ReturnOf
  <2> QED BY <2>1, <2>2
<1> QED BY <1>3, <1>5

LEMMA OverviewOpened ==
    ASSUME TableOK, NEW m \in Members, OpenOverview(m), UNCHANGED <<clock, snapshots>>
    PROVE  OverviewType' /\ OverviewOK'
<1>1. clock \in Int /\ clock - Period \in Int
  BY TimeType, PerformanceConstants DEF Instants
<1>2. 0..scene.last \subseteq Int
  OBVIOUS
<1>3. << >> \in Amount
  BY DEF Amount
<1>4. CASE overview' = [NoOverview EXCEPT !.stage = "before", !.member = m, !.start = clock - Period]
  <2>1. OverviewType'
    BY <1>1, <1>3, <1>4, NoOverviewType DEF OverviewType, Overviews
  <2>2. overview'.stage = "before" /\ overview'.start = clock - Period
    BY <1>4, NoOverviewType DEF Overviews
  <2> QED BY <2>1, <2>2 DEF OverviewOK
<1>5. ASSUME NEW i \in 0..scene.last,
             overview' = [NoOverview EXCEPT !.stage = "before", !.member = m, !.start = i,
                                            !.custom = TRUE]
      PROVE  OverviewType' /\ OverviewOK'
  <2>1. OverviewType'
    BY <1>2, <1>3, <1>5, NoOverviewType DEF OverviewType, Overviews
  <2>2. overview'.custom = TRUE
    BY <1>5, NoOverviewType DEF Overviews
  <2> QED BY <2>1, <2>2 DEF OverviewOK
<1> QED BY <1>4, <1>5 DEF OpenOverview, ShowOverview

LEMMA OverviewReadBefore ==
    ASSUME TableOK, CapturesOK, OverviewType, OverviewOK, ReadBefore, UNCHANGED <<clock, snapshots>>
    PROVE  OverviewType' /\ OverviewOK'
<1> DEFINE b == BalanceIn(snapshots, overview.member, overview.start)
<1>1. overview' = [overview EXCEPT !.stage = "latest", !.before = b] /\ overview.stage = "before"
  BY BalanceIs DEF ReadBefore, ShowOverview
<1>2. b \in Amount
  BY BalanceType DEF CapturesOK
<1>3. overview.start = clock - Period => b = BalanceIn(snapshots, overview.member, clock - Period)
  OBVIOUS
<1> HIDE DEF b
<1>4. /\ overview'.disturbed = overview.disturbed /\ overview'.stage = "latest"
      /\ overview'.custom = overview.custom /\ overview'.before = b
      /\ overview'.member = overview.member /\ overview'.start = overview.start
  BY <1>1 DEF OverviewType, Overviews
<1>5. OverviewType'
  BY <1>1, <1>2 DEF OverviewType, Overviews
<1>6. OverviewOK'
  BY <1>1, <1>3, <1>4 DEF OverviewOK
<1> QED BY <1>5, <1>6

LEMMA OverviewReadLatest ==
    ASSUME TableOK, CapturesOK, OverviewType, OverviewOK, ReadLatest, UNCHANGED <<clock, snapshots>>
    PROVE  OverviewType' /\ OverviewOK'
<1> DEFINE l == BalanceIn(snapshots, overview.member, LastInstant)
           s == IF overview.before = << >> \/ l = << >> THEN "answered" ELSE "from"
<1>1. overview' = [overview EXCEPT !.latest = l, !.stage = s] /\ overview.stage = "latest"
  BY BalanceIs DEF ReadLatest, ShowOverview
<1>2. l \in Amount
  BY BalanceType DEF CapturesOK
<1>3. /\ s \in {"answered", "from"}
      /\ s = "answered" => overview.before = << >> \/ l = << >>
      /\ l = BalanceIn(snapshots, overview.member, LastInstant)
  OBVIOUS
<1> HIDE DEF l, s
<1>4. /\ overview'.disturbed = overview.disturbed /\ overview'.stage = s
      /\ overview'.custom = overview.custom /\ overview'.before = overview.before
      /\ overview'.member = overview.member /\ overview'.start = overview.start
      /\ overview'.latest = l
  BY <1>1 DEF OverviewType, Overviews
<1>5. OverviewType'
  BY <1>1, <1>2, <1>3 DEF OverviewType, Overviews
<1>6. OverviewOK'
  BY <1>1, <1>3, <1>4 DEF OverviewOK
<1> QED BY <1>5, <1>6

LEMMA OverviewReadReturn ==
    ASSUME TableOK, CapturesOK, OverviewType, OverviewOK, ReadReturn, UNCHANGED <<clock, snapshots>>
    PROVE  OverviewType' /\ OverviewOK'
<1> DEFINE f == BalanceIn(snapshots, overview.member, clock - Period)
           l == BalanceIn(snapshots, overview.member, LastInstant)
           r == ReturnOf(f, l)
<1>1. /\ overview' = [overview EXCEPT !.stage = "answered", !.from = f, !.return = r]
      /\ overview.stage = "from"
  BY BalanceIs DEF ReadReturn, ShowOverview
<1>2. f \in Amount /\ l \in Amount
  BY BalanceType DEF CapturesOK
<1>3. r \in Int
  <2> HIDE DEF f, l
  <2> QED BY <1>2, ReturnType
<1>4. /\ f = BalanceIn(snapshots, overview.member, clock - Period)
      /\ l = BalanceIn(snapshots, overview.member, LastInstant)
  OBVIOUS
<1> HIDE DEF f, l
<1>5. r = ReturnOf(f, l)
  OBVIOUS
<1> HIDE DEF r
<1>6. /\ overview'.disturbed = overview.disturbed /\ overview'.stage = "answered"
      /\ overview'.custom = overview.custom /\ overview'.before = overview.before
      /\ overview'.latest = overview.latest /\ overview'.return = r
  BY <1>1 DEF OverviewType, Overviews
<1>7. OverviewType'
  BY <1>1, <1>2, <1>3 DEF OverviewType, Overviews
<1>8. ~overview.disturbed /\ ~overview.custom => overview.before = f /\ overview.latest = l
  BY <1>1, <1>4 DEF OverviewOK
<1>9. OverviewOK'
  BY <1>5, <1>6, <1>8 DEF OverviewOK, ReturnOf
<1> QED BY <1>7, <1>9

LEMMA OverviewStep ==
    ASSUME TableOK, CapturesOK, OverviewType, OverviewOK, [PerformanceNext]_performanceVars
    PROVE  OverviewType' /\ OverviewOK'
<1>1. CASE UNCHANGED <<clock, snapshots, overview>>
  BY <1>1 DEF OverviewType, OverviewOK, ReturnOf
<1> QED BY <1>1, OverviewCases, OverviewDisturbed, OverviewOpened, OverviewReadBefore,
           OverviewReadLatest, OverviewReadReturn

\* Two balances and the return between them.
LEMMA ReturnIsClose ==
    ASSUME OverviewType, OverviewOK
    PROVE  ReturnMatchesBalances
<1> SUFFICES ASSUME overview.stage = "answered", ~overview.disturbed, ~overview.custom,
                    overview.before # << >>, overview.latest # << >>, Head(overview.before) > 0
             PROVE  LET start == Head(overview.before)
                        end == Head(overview.latest)
                    IN /\ 2 * start * overview.return - 20000 * (end - start) <= start
                       /\ 20000 * (end - start) - 2 * start * overview.return <= start
  BY DEF ReturnMatchesBalances
<1> DEFINE start == Head(overview.before)
           end == Head(overview.latest)
<1>1. start \in Nat /\ end \in Nat
  BY DEF OverviewType, Overviews, Amount
<1>2. overview.return = Percent(end - start, start)
  BY DEF OverviewOK, ReturnOf
<1>3. start > 0
  OBVIOUS
<1> DEFINE gain == end - start
<1>4. gain \in Int /\ start \in Int
  BY <1>1
<1>5. OffByHalf(Percent(gain, start), gain, start)
  <2> HIDE DEF start, end, gain
  <2> QED BY <1>3, <1>4, PercentIsClose
<1> QED BY <1>2, <1>5 DEF OffByHalf

(* Types and returns, at every moment.                                     *)

LEMMA TypesHold ==
    ASSUME TableOK, CapturesOK, OverviewType
    PROVE  PerformanceTypeOK
<1>1. clock \in Instants
  BY TimeType
<1>2. ASSUME NEW i \in 1..Len(snapshots)
      PROVE  /\ snapshots[i].member \in Members /\ snapshots[i].total \in Nat
             /\ i > 1 => snapshots[i-1].at <= snapshots[i].at
  <2>1. snapshots[i].member \in Members /\ snapshots[i].total \in Nat
    BY SnapshotTime DEF CapturesOK
  <2>2. ASSUME i > 1 PROVE snapshots[i-1].at <= snapshots[i].at
    <3>1. i - 1 \in 1..Len(snapshots) /\ i - 1 <= i
      BY <2>2 DEF CapturesOK
    <3> QED BY <3>1 DEF CapturesOK, Ascending
  <2> QED BY <2>1, <2>2
<1>3. capture.done \in 0..scene.captures
  BY SceneType DEF CapturesOK, TableOK
<1>4. overview.stage \in {"none", "before", "latest", "from", "answered"}
  BY DEF OverviewType, Overviews
<1> QED BY <1>1, <1>2, <1>3, <1>4 DEF PerformanceTypeOK, TableOK

\* Tables, captures and overviews do not depend on what reports say.
LEMMA PerformanceTypes ==
    PerformanceSpec => [](TableOK /\ CapturesOK /\ OverviewType /\ OverviewOK)
<1>1. PerformanceInit => TableOK /\ CapturesOK /\ OverviewType /\ OverviewOK
  BY TableInit, CapturesInit, OverviewInit
<1>2. (TableOK /\ CapturesOK /\ OverviewType /\ OverviewOK) /\ [PerformanceNext]_performanceVars
        => (TableOK /\ CapturesOK /\ OverviewType /\ OverviewOK)'
  BY TableStep, CapturesStep, OverviewStep
<1> QED BY <1>1, <1>2, PTL DEF PerformanceSpec

\* The executions, the captured balances and the overviews have their types
\* whatever is committed and asked for, and the snapshots of portfolio_snapshots
\* stand in the order of their moments.
THEOREM PerformanceTypeCorrect == PerformanceSpec => []PerformanceTypeOK
<1>1. TableOK /\ CapturesOK /\ OverviewType /\ OverviewOK => PerformanceTypeOK
  BY TypesHold
<1> QED BY <1>1, PerformanceTypes, PTL

\* An undisturbed overview of the default range shows the return between the
\* two balances it shows, to half a hundredth of a percent.
THEOREM ReturnsMatch == PerformanceSpec => []ReturnMatchesBalances
<1>1. TableOK /\ CapturesOK /\ OverviewType /\ OverviewOK => ReturnMatchesBalances
  BY ReturnIsClose
<1> QED BY <1>1, PerformanceTypes, PTL

(* The sections of a report.                                               *)

LEMMA PlanFacts ==
    ASSUME NEW k \in ReportKinds
    PROVE  /\ Plans[k] \in Seq(SectionNames) /\ Len(Plans[k]) \in Nat
           /\ \A j \in 1..Len(Plans[k]) :
                /\ Plans[k][j] # "none"
                /\ k # "executions" => (j = 1 <=> Plans[k][j] = "core")
                /\ k # "executions" => Plans[k][j] # "count"
                /\ k = "executions" => Plans[k][j] \in {"count", "statuses"}
                /\ Plans[k][j] = "bitsymbols" =>
                     k = "performance" /\ j > 1 /\ Plans[k][j-1] = "symbols"
<1>1. CASE k = "performance"
  <2> DEFINE p == <<"core", "days", "executions", "venues", "sides", "symbols",
                   "bitsymbols", "types", "executed", "profitable", "recent">>
  <2>1. Plans[k] = p
    BY <1>1 DEF Plans
  <2>2. p \in Seq(SectionNames) /\ Len(p) = 11
    BY DEF SectionNames
  <2>3. /\ p[1] = "core" /\ p[2] = "days" /\ p[3] = "executions"
        /\ p[4] = "venues" /\ p[5] = "sides" /\ p[6] = "symbols"
        /\ p[7] = "bitsymbols" /\ p[8] = "types" /\ p[9] = "executed"
        /\ p[10] = "profitable" /\ p[11] = "recent"
    OBVIOUS
  <2> HIDE DEF p
  <2>4. \A j \in 1..11 : j = 1 \/ j = 2 \/ j = 3 \/ j = 4 \/ j = 5 \/ j = 6 \/ j = 7 \/ j = 8 \/ j = 9 \/ j = 10 \/ j = 11
    OBVIOUS
  <2> QED BY <1>1, <2>1, <2>2, <2>3, <2>4
<1>2. CASE k = "trading"
  <2> DEFINE p == <<"core", "sums", "days", "executions", "symbols", "sides", "types">>
  <2>1. Plans[k] = p
    BY <1>2 DEF Plans
  <2>2. p \in Seq(SectionNames) /\ Len(p) = 7
    BY DEF SectionNames
  <2>3. /\ p[1] = "core" /\ p[2] = "sums" /\ p[3] = "days"
        /\ p[4] = "executions" /\ p[5] = "symbols" /\ p[6] = "sides"
        /\ p[7] = "types"
    OBVIOUS
  <2> HIDE DEF p
  <2>4. \A j \in 1..7 : j = 1 \/ j = 2 \/ j = 3 \/ j = 4 \/ j = 5 \/ j = 6 \/ j = 7
    OBVIOUS
  <2> QED BY <1>2, <2>1, <2>2, <2>3, <2>4
<1>3. CASE k = "executions"
  <2> DEFINE p == <<"count", "statuses">>
  <2>1. Plans[k] = p
    BY <1>3 DEF Plans
  <2>2. p \in Seq(SectionNames) /\ Len(p) = 2
    BY DEF SectionNames
  <2>3. /\ p[1] = "count" /\ p[2] = "statuses"
    OBVIOUS
  <2> HIDE DEF p
  <2>4. \A j \in 1..2 : j = 1 \/ j = 2
    OBVIOUS
  <2> QED BY <1>3, <2>1, <2>2, <2>3, <2>4
<1> QED BY <1>1, <1>2, <1>3 DEF ReportKinds

LEMMA StageInit == PerformanceInit => StageOK
<1> SUFFICES ASSUME PerformanceInit PROVE StageOK
  OBVIOUS
<1>1. report = NoReport
  BY DEF PerformanceInit
<1>2. NoReport.kind = "none" /\ NoReport.left = << >> /\ NoReport.section = "none"
  BY DEF NoReport
<1>3. << >> \in Seq(SectionNames) /\ "any" \in Venues \union {"any"} /\ 0 \in Int /\ "none" \in SectionNames
  BY DEF SectionNames
<1>4. NoReport \in [kind : ReportKinds \union {"none"}, left : Seq(SectionNames), since : Int, until : Int,
           venue : Venues \union {"any"}, core : {<< >>}, section : SectionNames,
           parts : {<< >>}, fall : {0}]
  BY <1>3 DEF NoReport
<1>5. report.core = << >> /\ report.parts = << >> /\ report.fall = 0
  BY <1>1 DEF NoReport
<1>6. report \in ReportShape
  BY <1>1, <1>4, <1>5 DEF ReportShape
<1> QED BY <1>1, <1>2, <1>6 DEF StageOK

LEMMA WindowType ==
    ASSUME TableOK, NEW p \in {"today", "days", "custom"}, NEW w \in Windows(p)
    PROVE  w[1] \in Int /\ w[2] \in Int
<1>1. clock \in Nat /\ Period \in Nat /\ DayLength \in Nat
  BY TimeType, PerformanceConstants DEF Instants
<1>2. Day(clock) \in Nat
  BY <1>1, DayGrows
<1>3. DayLength * Day(clock) \in Int
  BY <1>1, <1>2
<1>4. scene.last \in Nat
  BY SceneType DEF TableOK, Instants
<1>5. CASE p = "today"
  BY <1>1, <1>3, <1>5 DEF Windows
<1>6. CASE p = "days"
  BY <1>1, <1>6 DEF Windows
<1>7. CASE p = "custom"
  BY <1>4, <1>7 DEF Windows
<1> QED BY <1>5, <1>6, <1>7

LEMMA StageRequest ==
    ASSUME TableOK, StageOK, RequestReport
    PROVE  StageOK' /\ report'.section = "none"
<1>1. PICK r \in scene.requests : \E w \in Windows(r.period) :
         report' = [NoReport EXCEPT !.kind = r.kind, !.left = Plans[r.kind], !.since = w[1],
                    !.until = IF r.kind = "trading" THEN LastInstant ELSE w[2], !.venue = r.venue]
  BY DEF RequestReport
<1>2. /\ r.kind \in ReportKinds /\ r.period \in {"today", "days", "custom"}
      /\ r.venue \in Venues \union {"any"}
  BY SceneType DEF TableOK
<1>3. PICK w \in Windows(r.period) :
         report' = [NoReport EXCEPT !.kind = r.kind, !.left = Plans[r.kind], !.since = w[1],
                    !.until = IF r.kind = "trading" THEN LastInstant ELSE w[2], !.venue = r.venue]
  BY <1>1
<1> DEFINE until == IF r.kind = "trading" THEN LastInstant ELSE w[2]
           plan == Plans[r.kind]
<1>4. w[1] \in Int /\ until \in Int
  BY <1>2, WindowType, PerformanceConstants
<1>5. plan \in Seq(SectionNames) /\ Len(plan) \in Nat
  BY <1>2, PlanFacts
<1>6. report' = [NoReport EXCEPT !.kind = r.kind, !.left = plan, !.since = w[1],
                                 !.until = until, !.venue = r.venue]
  BY <1>3
<1> HIDE DEF until, plan
<1>7. /\ report'.kind = r.kind /\ report'.left = plan /\ report'.section = "none"
      /\ report'.core = << >> /\ report'.parts = << >> /\ report'.fall = 0
  BY <1>6 DEF NoReport
<1>8. report' \in [kind : ReportKinds \union {"none"}, left : Seq(SectionNames), since : Int, until : Int,
           venue : Venues \union {"any"}, core : {<< >>}, section : SectionNames,
           parts : {<< >>}, fall : {0}]
  <2> DEFINE K == ReportKinds \union {"none"}
             V == Venues \union {"any"}
  <2>1. r.kind \in K /\ r.venue \in V /\ "none" \in SectionNames
    BY <1>2 DEF SectionNames
  <2> HIDE DEF K, V
  <2>2. report' \in [kind : K, left : Seq(SectionNames), since : Int, until : Int,
           venue : V, core : {<< >>}, section : SectionNames, parts : {<< >>}, fall : {0}]
    BY <1>4, <1>5, <1>6, <2>1 DEF NoReport
  <2> QED BY <2>2 DEF K, V
<1>9. report' \in ReportShape'
  BY <1>7, <1>8 DEF ReportShape
<1>10. Place(report', 0)
  BY <1>5, <1>7 DEF Place, plan
<1>11. 0 \in 0..Len(Plans[report'.kind]) /\ report'.kind # "none"
  BY <1>2, <1>5, <1>7 DEF ReportKinds, plan
<1> QED BY <1>7, <1>9, <1>10, <1>11 DEF StageOK

\* One section further.
Further(s, core, parts, fall) ==
    /\ Upcoming(s)
    /\ report' = [report EXCEPT !.left = Tail(@), !.section = s, !.core = core, !.parts = parts,
                                !.fall = fall]

LEMMA TailFacts ==
    ASSUME NEW q \in Seq(SectionNames), q # << >>
    PROVE  /\ Len(q) \in Nat /\ Len(q) >= 1 /\ Head(q) = q[1]
           /\ Tail(q) \in Seq(SectionNames) /\ Len(Tail(q)) = Len(q) - 1
           /\ \A j \in 1..Len(Tail(q)) : Tail(q)[j] = q[j + 1]
<1>1. Len(q) \in Nat /\ Len(q) >= 1 /\ Head(q) = q[1]
  OBVIOUS
<1>2. Tail(q) \in Seq(SectionNames) /\ Len(Tail(q)) = Len(q) - 1
  BY <1>1
<1>3. \A j \in 1..Len(Tail(q)) : Tail(q)[j] = q[j + 1]
  BY <1>1, <1>2
<1> QED BY <1>1, <1>2, <1>3

LEMMA FurtherShape ==
    ASSUME report \in ReportShape, NEW s \in SectionNames, NEW core, NEW parts, NEW fall,
           Further(s, core, parts, fall)
    PROVE  /\ report' \in ReportShape' /\ report'.kind = report.kind
           /\ report'.left = Tail(report.left)
           /\ report'.since = report.since /\ report'.until = report.until
           /\ report'.venue = report.venue /\ report'.core = core
           /\ report'.section = s /\ report'.parts = parts /\ report'.fall = fall
<1>1. /\ report' = [report EXCEPT !.left = Tail(@), !.section = s, !.core = core,
                                  !.parts = parts, !.fall = fall]
      /\ report.left # << >>
  BY DEF Further, Upcoming
<1>2. report.left \in Seq(SectionNames)
  BY DEF ReportShape
<1>3. Tail(report.left) \in Seq(SectionNames)
  BY <1>1, <1>2, TailFacts
<1>4. report' \in [kind : ReportKinds \union {"none"}, left : Seq(SectionNames), since : Int, until : Int,
           venue : Venues \union {"any"}, core : {core}, section : SectionNames,
           parts : {parts}, fall : {fall}]
  BY <1>1, <1>3 DEF ReportShape
<1>5. report'.core = core /\ report'.parts = parts /\ report'.fall = fall
  BY <1>4
<1>6. report' \in ReportShape'
  BY <1>4, <1>5 DEF ReportShape
<1>7. /\ report'.kind = report.kind /\ report'.left = Tail(report.left)
      /\ report'.since = report.since /\ report'.until = report.until
      /\ report'.venue = report.venue /\ report'.section = s
  BY <1>1 DEF ReportShape
<1> QED BY <1>5, <1>6, <1>7

LEMMA StageFurther ==
    ASSUME StageOK, NEW s \in SectionNames, NEW core, NEW parts, NEW fall, Further(s, core, parts, fall)
    PROVE  /\ StageOK' /\ report.kind \in ReportKinds
           /\ \E i \in 0..(Len(Plans[report.kind]) - 1) :
                Place(report, i) /\ Plans[report.kind][i + 1] = s
<1> DEFINE plan == Plans[report.kind]
           q == report.left
<1>1. q # << >> /\ Head(q) = s /\ q \in Seq(SectionNames)
  BY DEF Further, Upcoming, StageOK, ReportShape
<1>2. report.kind # "none" /\ report.kind \in ReportKinds
  BY <1>1 DEF StageOK, ReportShape
<1>3. PICK i \in 0..Len(plan) : Place(report, i)
  BY <1>2 DEF StageOK
<1>4. plan \in Seq(SectionNames) /\ Len(plan) \in Nat
  BY <1>2, PlanFacts
<1>5. /\ report' \in ReportShape' /\ report'.kind = report.kind
      /\ report'.left = Tail(q) /\ report'.section = s
  BY FurtherShape DEF StageOK
<1>6. /\ Len(q) = Len(plan) - i /\ \A j \in 1..Len(q) : q[j] = plan[i + j]
      /\ Len(q) >= 1 /\ Len(q) \in Nat
  BY <1>1, <1>3, TailFacts DEF Place
<1> HIDE DEF q
<1>7. /\ Tail(q) \in Seq(SectionNames) /\ Len(Tail(q)) = Len(q) - 1
      /\ \A j \in 1..Len(Tail(q)) : Tail(q)[j] = q[j + 1]
      /\ q[1] = s
  BY <1>1, TailFacts
<1> HIDE DEF plan
<1>8. i \in 0..(Len(plan) - 1) /\ plan[i + 1] = s
  <2>1. 1 \in 1..Len(q)
    BY <1>6
  <2>2. q[1] = plan[i + 1]
    BY <1>6, <2>1
  <2> QED BY <1>4, <1>6, <1>7, <2>2
<1>9. /\ i + 1 \in 0..Len(plan) /\ i + 1 # 0
      /\ Len(Tail(q)) = Len(plan) - (i + 1)
      /\ \A j \in 1..Len(Tail(q)) : Tail(q)[j] = plan[(i + 1) + j]
  <2>1. ASSUME NEW j \in 1..Len(Tail(q)) PROVE Tail(q)[j] = plan[(i + 1) + j]
    <3>1. j + 1 \in 1..Len(q) /\ i + (j + 1) = (i + 1) + j
      BY <1>6, <1>7
    <3> QED BY <1>6, <1>7, <3>1
  <2> QED BY <1>4, <1>6, <1>7, <1>8, <2>1
<1>10. Place(report', i + 1)
  BY <1>5, <1>8, <1>9 DEF Place, plan
<1>11. \E k \in 0..Len(Plans[report'.kind]) : Place(report', k)
  BY <1>5, <1>9, <1>10 DEF plan
<1>12. StageOK'
  BY <1>2, <1>5, <1>11 DEF StageOK
<1> QED BY <1>2, <1>3, <1>8, <1>12 DEF plan

(* What a report sums up.                                                  *)

LEMMA TableIsTyped == TableOK => rows \in Ledgers
BY DEF TableOK, Ledgers

LEMMA EarnsType ==
    ASSUME NEW R \in Ledgers
    PROVE  \A t \in Trades : Earns(R)[t] \in Int
<1> SUFFICES ASSUME NEW t \in Trades PROVE Earns(R)[t] \in Int
  OBVIOUS
<1>1. R[t].pnl = << >> \/ \E p \in Results : R[t].pnl = <<p>>
  BY DEF Ledgers
<1>2. Results \subseteq Int
  BY PerformanceConstants
<1> QED BY <1>1, <1>2 DEF Earns

LEMMA EarnedIs == Earned = Earns(rows) /\ \A T : Won(T) = Wins(rows, T)
BY DEF Earned, Earns, Won, Wins

LEMMA BooksFinite ==
    ASSUME NEW R, NEW q
    PROVE  IsFiniteSet(Books(R, q)) /\ Books(R, q) \subseteq Trades
BY PerformanceConstants, FS_Subset DEF Books

LEMMA BookedIs ==
    ASSUME TableOK
    PROVE  \A a, b : Booked(Final, a, b)
                       = {t \in Trades : /\ rows[t].status = "CLOSED" /\ a <= rows[t].created
                                         /\ rows[t].created <= b}
BY DEF Booked, TableOK, Final

LEMMA AskedIs ==
    ASSUME TableOK, NEW q
    PROVE  Asked(q) = Books(rows, q)
BY BookedIs DEF Asked, OnVenue, Books

\* The same closed trades, or more of them.
SameBooks(R, S) ==
    \A t \in Trades : /\ R[t].status = "CLOSED" <=> S[t].status = "CLOSED"
                      /\ R[t].status = "CLOSED" => S[t] = R[t]
MoreBooks(R, S, ch, dh) ==
    /\ ch \subseteq dh /\ dh # {}
    /\ \A t \in Trades :
         R[t].status = "CLOSED" =>
             \/ S[t] = R[t]
             \/ t \in Out("removed", dh)
             \/ /\ t \in Out("resettled", dh)
                /\ S[t].status = "CLOSED" /\ S[t].created = R[t].created

LEMMA MoreBooksAdd ==
    ASSUME NEW R, NEW S, NEW ch, NEW dh, MoreBooks(R, S, ch, dh), NEW q
    PROVE  /\ StillIn(R, q, ch) \subseteq StillIn(S, q, dh)
           /\ StillWon(R, q, ch) \subseteq StillWon(S, q, dh)
<1>1. \A kind : Out(kind, ch) \subseteq Out(kind, dh)
  BY DEF MoreBooks, Out
<1>2. \A t \in Books(R, q) : t \in Books(S, q) \/ t \in Out("removed", dh)
  BY DEF MoreBooks, Books
<1>3. \A t \in Wins(R, Books(R, q)) :
        t \in Wins(S, Books(S, q)) \/ t \in Out("removed", dh) \/ t \in Out("resettled", dh)
  BY DEF MoreBooks, Books, Wins, Earns
<1>4. StillIn(R, q, ch) \subseteq StillIn(S, q, dh)
  BY <1>1, <1>2 DEF StillIn
<1> QED BY <1>1, <1>3, <1>4 DEF StillWon

LEMMA StillFinite ==
    ASSUME NEW R, NEW q, NEW ch
    PROVE  /\ IsFiniteSet(Out("removed", ch)) /\ IsFiniteSet(Out("removed", ch) \union Out("resettled", ch))
           /\ IsFiniteSet(StillIn(R, q, ch)) /\ IsFiniteSet(StillWon(R, q, ch))
<1>1. IsFiniteSet(Trades)
  BY PerformanceConstants
<1>2. /\ Out("removed", ch) \subseteq Trades /\ Out("removed", ch) \union Out("resettled", ch) \subseteq Trades
      /\ StillIn(R, q, ch) \subseteq Trades /\ StillWon(R, q, ch) \subseteq Trades
  BY DEF Out, StillIn, StillWon, Books, Wins
<1> QED BY <1>1, <1>2, FS_Subset

LEMMA SameBooksStay ==
    ASSUME NEW R \in Ledgers, NEW S, SameBooks(R, S), NEW q
    PROVE  /\ Books(S, q) = Books(R, q) /\ Wins(S, Books(S, q)) = Wins(R, Books(R, q))
           /\ \A T \in SUBSET Books(R, q) : Total(Earns(S), T) = Total(Earns(R), T)
<1>1. Books(S, q) = Books(R, q)
  BY DEF SameBooks, Books
<1>2. \A t \in Books(R, q) : Earns(S)[t] = Earns(R)[t]
  BY DEF SameBooks, Books, Earns
<1>3. Wins(S, Books(S, q)) = Wins(R, Books(R, q))
  BY <1>1, <1>2 DEF Wins
<1>4. ASSUME NEW T \in SUBSET Books(R, q)
      PROVE  Total(Earns(S), T) = Total(Earns(R), T)
  <2>1. IsFiniteSet(T) /\ T \subseteq Trades
    BY BooksFinite, FS_Subset
  <2>2. \A t \in T : Earns(R)[t] \in Int /\ Earns(R)[t] = Earns(S)[t]
    BY <1>2, <2>1, EarnsType
  <2> HIDE DEF Earns
  <2> QED BY <2>1, <2>2, SumSame DEF Total
<1> QED BY <1>1, <1>3, <1>4

\* The figures of its groups add up to those of a set of trades.
LEMMA GroupsAddUp ==
    ASSUME TableOK, NEW T \in SUBSET Trades, NEW key, NEW K, IsFiniteSet(K),
           \A t \in T : key[t] \in K
    PROVE  /\ GroupSum(GroupBy(T, key, K), "trades") = Cardinality(T)
           /\ GroupSum(GroupBy(T, key, K), "wins") = Cardinality(Wins(rows, T))
           /\ GroupSum(GroupBy(T, key, K), "pnl") = Total(Earns(rows), T)
<1> DEFINE part == [k \in K |-> {t \in T : key[t] = k}]
           won == [k \in K |-> {t \in Wins(rows, T) : key[t] = k}]
           trades == [k \in K |-> Cardinality(part[k])]
           wins == [k \in K |-> Cardinality(won[k])]
           pnl == [k \in K |-> Total(Earns(rows), part[k])]
           g == GroupBy(T, key, K)
<1>1. IsFiniteSet(T) /\ IsFiniteSet(Wins(rows, T)) /\ Wins(rows, T) \subseteq T
  BY PerformanceConstants, FS_Subset DEF Wins
<1>2. Grouped(T, key, K, part)
  BY DEF Grouped
<1>3. Grouped(Wins(rows, T), key, K, won)
  BY <1>1 DEF Grouped
<1>4. ASSUME NEW k \in K
      PROVE  /\ g[k].trades = Cardinality(part[k]) /\ g[k].wins = Cardinality(won[k])
             /\ g[k].pnl = Total(Earns(rows), part[k])
  <2>1. g[k] = Figures(part[k])
    BY DEF GroupBy
  <2>2. Wins(rows, part[k]) = won[k]
    BY DEF Wins
  <2>3. Figures(part[k]) = [trades |-> Cardinality(part[k]), wins |-> Cardinality(Wins(rows, part[k])),
                            pnl |-> Total(Earns(rows), part[k])]
    BY EarnedIs DEF Figures
  <2> HIDE DEF g, part, won
  <2> QED BY <2>1, <2>2, <2>3
<1>5. DOMAIN g = K
  BY DEF GroupBy
<1>6. [k \in DOMAIN g |-> g[k]["trades"]] = trades
  <2> HIDE DEF g, part, won
  <2> QED BY <1>4, <1>5
<1>7. [k \in DOMAIN g |-> g[k]["wins"]] = wins
  <2> HIDE DEF g, part, won
  <2> QED BY <1>4, <1>5
<1>8. [k \in DOMAIN g |-> g[k]["pnl"]] = pnl
  <2> HIDE DEF g, part, won
  <2> QED BY <1>4, <1>5
<1> HIDE DEF g
<1>9. /\ GroupSum(g, "trades") = SumFunctionOnSet(trades, K)
      /\ GroupSum(g, "wins") = SumFunctionOnSet(wins, K)
      /\ GroupSum(g, "pnl") = SumFunctionOnSet(pnl, K)
  <2>1. DOMAIN trades = K /\ DOMAIN wins = K /\ DOMAIN pnl = K
    OBVIOUS
  <2> HIDE DEF trades, wins, pnl
  <2> QED BY <1>6, <1>7, <1>8, <2>1 DEF GroupSum, SumFunction
<1>10. /\ \A k \in K : trades[k] = Cardinality(part[k])
       /\ \A k \in K : wins[k] = Cardinality(won[k])
       /\ \A k \in K : pnl[k] = SumFunctionOnSet(Earns(rows), part[k])
  BY DEF Total
<1>11. \A t \in T : Earns(rows)[t] \in Int
  BY TableIsTyped, EarnsType
<1> HIDE DEF part, won, trades, wins, pnl
<1>12. SumFunctionOnSet(trades, K) = Cardinality(T)
  BY <1>1, <1>2, <1>10, CountByGroup
<1>13. SumFunctionOnSet(wins, K) = Cardinality(Wins(rows, T))
  BY <1>1, <1>3, <1>10, CountByGroup
<1>14. SumFunctionOnSet(pnl, K) = SumFunctionOnSet(Earns(rows), T)
  BY <1>1, <1>2, <1>10, <1>11, SumByGroup
<1> QED BY <1>9, <1>12, <1>13, <1>14 DEF g, Total

LEMMA PresentGroups ==
    ASSUME NEW T \in SUBSET Trades, NEW key
    PROVE  IsFiniteSet(Present(T, key)) /\ \A t \in T : key[t] \in Present(T, key)
<1> DEFINE P == Present(T, key)
           f == [t \in T |-> key[t]]
<1>1. IsFiniteSet(T)
  BY PerformanceConstants, FS_Subset
<1>2. P = {key[t] : t \in T}
  BY DEF Present
<1>3. f \in Surjection(T, P)
  BY <1>2 DEF Surjection
<1>4. IsFiniteSet(P)
  <2> HIDE DEF P, f
  <2> QED BY <1>1, <1>3, FS_Surjection
<1> QED BY <1>2, <1>4

(* The fall of a running total.                                            *)

Falling(n, step, at) ==
    at = [i \in 0..n |->
            IF i = 0 THEN [total |-> 0, peak |-> 0, worst |-> 0]
            ELSE LET total == at[i-1].total + step[i]
                     peak == IF total > at[i-1].peak THEN total ELSE at[i-1].peak
                 IN [total |-> total, peak |-> peak,
                     worst |-> IF peak - total > at[i-1].worst THEN peak - total
                               ELSE at[i-1].worst]]
DayOn(s, x) ==
    LET total == s.total + x
        peak == IF total > s.peak THEN total ELSE s.peak
    IN [total |-> total, peak |-> peak,
        worst |-> IF peak - total > s.worst THEN peak - total ELSE s.worst]

LEMMA FallsIs ==
    ASSUME NEW n, NEW step
    PROVE  Falls(n, step) = (CHOOSE at : Falling(n, step, at))[n]
BY DEF Falls, Falling

NoFall == [total |-> 0, peak |-> 0, worst |-> 0]

LEMMA FallingIs ==
    ASSUME NEW n \in Nat, NEW step, NEW at
    PROVE  Falling(n, step, at) <=>
             at = [i \in 0..n |-> IF i = 0 THEN NoFall ELSE DayOn(at[i-1], step[i])]
BY DEF Falling, DayOn, NoFall

LEMMA FallingExists ==
    ASSUME NEW n \in Nat, NEW step
    PROVE  \E at : Falling(n, step, at)
<1> DEFINE T == {m \in 0..n : \E at : Falling(m, step, at)}
<1>1. 0 \in T
  <2> DEFINE at == [i \in 0..0 |-> NoFall]
  <2>1. at = [i \in 0..0 |-> IF i = 0 THEN NoFall ELSE DayOn(at[i-1], step[i])]
    OBVIOUS
  <2>2. Falling(0, step, at)
    <3> HIDE DEF at
    <3> QED BY <2>1, FallingIs
  <2> QED BY <2>2
<1>2. ASSUME NEW m \in 0..n, m < n, m \in T
      PROVE  m + 1 \in T
  <2>1. PICK f : Falling(m, step, f)
    BY <1>2
  <2>2. f = [i \in 0..m |-> IF i = 0 THEN NoFall ELSE DayOn(f[i-1], step[i])]
    BY <2>1, FallingIs
  <2> DEFINE at == [i \in 0..(m + 1) |-> IF i = m + 1 THEN DayOn(f[m], step[m + 1]) ELSE f[i]]
  <2>3. ASSUME NEW i \in 0..(m + 1)
        PROVE  at[i] = IF i = 0 THEN NoFall ELSE DayOn(at[i-1], step[i])
    <3>1. CASE i = m + 1
      <4>1. at[i] = DayOn(f[m], step[m + 1]) /\ i # 0 /\ i - 1 = m /\ m \in 0..(m + 1) /\ m # m + 1
        BY <3>1
      <4>2. at[i - 1] = f[m]
        BY <4>1
      <4> HIDE DEF at
      <4> QED BY <3>1, <4>1, <4>2
    <3>2. CASE i # m + 1
      <4>1. i \in 0..m /\ at[i] = f[i]
        BY <3>2
      <4>2. i # 0 => i - 1 \in 0..(m + 1) /\ i - 1 # m + 1
        BY <3>2
      <4>3. i # 0 => at[i - 1] = f[i - 1]
        BY <4>2
      <4>4. f[i] = IF i = 0 THEN NoFall ELSE DayOn(f[i-1], step[i])
        <5> HIDE DEF at
        <5> QED BY <2>2, <4>1
      <4> HIDE DEF at
      <4> QED BY <4>1, <4>3, <4>4
    <3> QED BY <3>1, <3>2
  <2>4. at = [i \in 0..(m + 1) |-> at[i]]
    OBVIOUS
  <2> HIDE DEF at
  <2>5. at = [i \in 0..(m + 1) |-> IF i = 0 THEN NoFall ELSE DayOn(at[i-1], step[i])]
    BY <2>3, <2>4
  <2>6. m + 1 \in Nat /\ m + 1 \in 0..n
    BY <1>2
  <2>7. Falling(m + 1, step, at)
    BY <2>5, <2>6, FallingIs
  <2> QED BY <2>6, <2>7
<1>3. n \in 0..n
  OBVIOUS
<1>4. n \in T
  <2> HIDE DEF T
  <2> QED BY <1>1, <1>2, <1>3, UpToInduction
<1> QED BY <1>4

\* The state of the loop, by its totals so far.
Seen(P, i, s) ==
    /\ s.total = P[i] /\ s.peak \in Int /\ s.worst \in Int
    /\ \E j \in 0..i : s.peak = P[j]
    /\ \A j \in 0..i : P[j] <= s.peak
    /\ \E k \in 0..i : \E j \in 0..k : s.worst = P[j] - P[k]
    /\ \A k \in 0..i : \A j \in 0..k : P[j] - P[k] <= s.worst

LEMMA SeenOnward ==
    ASSUME NEW i \in Nat, NEW P, \A j \in 0..(i + 1) : P[j] \in Int, NEW s, Seen(P, i, s),
           NEW x \in Int, P[i + 1] = P[i] + x
    PROVE  Seen(P, i + 1, DayOn(s, x))
<1> DEFINE total == s.total + x
           peak == IF total > s.peak THEN total ELSE s.peak
           worst == IF peak - total > s.worst THEN peak - total ELSE s.worst
           r == DayOn(s, x)
<1>1. r.total = total /\ r.peak = peak /\ r.worst = worst
  BY DEF DayOn
<1>2. total = P[i + 1] /\ total \in Int /\ s.peak \in Int /\ s.worst \in Int
  BY DEF Seen
<1>3. peak \in Int /\ worst \in Int /\ peak >= total /\ peak >= s.peak /\ (peak = total \/ peak = s.peak)
  BY <1>2
<1>4. worst >= peak - total /\ worst >= s.worst /\ (worst = peak - total \/ worst = s.worst)
  BY <1>2, <1>3
<1> HIDE DEF total, peak, worst, r
<1>5. /\ i + 1 \in 0..(i + 1) /\ 0..i \subseteq 0..(i + 1)
      /\ \A j \in 0..(i + 1) : j \in 0..i \/ j = i + 1
  OBVIOUS
<1>6. /\ \E j \in 0..i : s.peak = P[j]
      /\ \A j \in 0..i : P[j] <= s.peak
      /\ \E k \in 0..i : \E j \in 0..k : s.worst = P[j] - P[k]
      /\ \A k \in 0..i : \A j \in 0..k : P[j] - P[k] <= s.worst
  BY DEF Seen
<1>7. \E j \in 0..(i + 1) : peak = P[j]
  BY <1>2, <1>3, <1>5, <1>6
<1>8. \A j \in 0..(i + 1) : P[j] <= peak
  <2> SUFFICES ASSUME NEW j \in 0..(i + 1) PROVE P[j] <= peak
    OBVIOUS
  <2>1. CASE j \in 0..i
    <3>1. P[j] <= s.peak /\ P[j] \in Int
      BY <1>5, <1>6, <2>1
    <3> QED BY <1>2, <1>3, <3>1
  <2>2. CASE j = i + 1
    BY <1>2, <1>3, <2>2
  <2> QED BY <1>5, <2>1, <2>2
<1>9. \E k \in 0..(i + 1) : \E j \in 0..k : worst = P[j] - P[k]
  <2>1. CASE worst = s.worst
    <3>1. PICK k \in 0..i : \E j \in 0..k : s.worst = P[j] - P[k]
      BY <1>6
    <3>2. k \in 0..(i + 1)
      OBVIOUS
    <3> QED BY <2>1, <3>1, <3>2
  <2>2. CASE worst = peak - total
    <3>1. PICK j \in 0..(i + 1) : peak = P[j]
      BY <1>7
    <3>2. worst = P[j] - P[i + 1]
      BY <1>2, <2>2, <3>1
    <3> QED BY <1>5, <3>2
  <2> QED BY <1>4, <2>1, <2>2
<1>10. \A k \in 0..(i + 1) : \A j \in 0..k : P[j] - P[k] <= worst
  <2> SUFFICES ASSUME NEW k \in 0..(i + 1), NEW j \in 0..k PROVE P[j] - P[k] <= worst
    OBVIOUS
  <2>0. j \in 0..(i + 1) /\ P[j] \in Int /\ P[k] \in Int
    OBVIOUS
  <2>1. CASE k \in 0..i
    <3>1. P[j] - P[k] <= s.worst
      BY <1>6, <2>1
    <3> QED BY <1>2, <1>3, <1>4, <2>0, <3>1
  <2>2. CASE k = i + 1
    <3>1. P[j] <= peak
      BY <1>8, <2>0
    <3> QED BY <1>2, <1>3, <1>4, <2>0, <2>2, <3>1
  <2> QED BY <1>5, <2>1, <2>2
<1> QED BY <1>1, <1>2, <1>3, <1>7, <1>8, <1>9, <1>10 DEF Seen, r

\* The loop ends with the last total, the highest and the worst fall.
LEMMA FallsSeen ==
    ASSUME NEW n \in Nat, NEW step, NEW P, P[0] = 0, \A j \in 0..n : P[j] \in Int,
           \A i \in 1..n : step[i] \in Int /\ P[i] = P[i - 1] + step[i]
    PROVE  Seen(P, n, Falls(n, step))
<1> DEFINE at == CHOOSE at : Falling(n, step, at)
           T == {i \in 0..n : Seen(P, i, at[i])}
<1>1. Falling(n, step, at) /\ Falls(n, step) = at[n]
  BY FallingExists, FallsIs
<1> HIDE DEF at
<1>2. at = [i \in 0..n |-> IF i = 0 THEN NoFall ELSE DayOn(at[i-1], step[i])]
  BY <1>1, FallingIs
<1>3. 0 \in T
  <2>1. at[0] = NoFall
    BY <1>2
  <2>2. NoFall.total = 0 /\ NoFall.peak = 0 /\ NoFall.worst = 0
    BY DEF NoFall
  <2>3. \A j \in 0..0 : j = 0
    OBVIOUS
  <2>4. Seen(P, 0, NoFall)
    BY <2>2, <2>3 DEF Seen
  <2> QED BY <2>1, <2>4
<1>4. ASSUME NEW i \in 0..n, i < n, i \in T
      PROVE  i + 1 \in T
  <2>1. i + 1 \in 1..n /\ i + 1 \in 0..n /\ (i + 1) - 1 = i /\ i + 1 # 0
    BY <1>4
  <2>2. at[i + 1] = DayOn(at[i], step[i + 1])
    BY <1>2, <2>1
  <2>3. step[i + 1] \in Int /\ P[i + 1] = P[i] + step[i + 1]
    BY <2>1
  <2>4. \A j \in 0..(i + 1) : P[j] \in Int
    BY <2>1
  <2>5. Seen(P, i + 1, DayOn(at[i], step[i + 1]))
    BY <1>4, <2>3, <2>4, SeenOnward
  <2> QED BY <2>1, <2>2, <2>5
<1>5. n \in 0..n
  OBVIOUS
<1>6. n \in T
  <2> HIDE DEF T
  <2> QED BY <1>3, <1>4, <1>5, UpToInduction
<1> QED BY <1>1, <1>6

\* A section after the totals, and what the report holds after reading it.
Sections == SectionNames \ {"none", "core", "count", "sums"}
Holds(s, parts, fall) ==
    /\ s = "days" => parts = DayGroups(report) /\ fall = DayFall(DayGroups(report))
    /\ s = "venues" => parts = VenueGroups(report)
    /\ s = "sides" => parts = SideGroups(report)
    /\ s = "types" => parts = TypeGroups(report)
    /\ s = "symbols" => parts = SymbolGroups(report, "hyperliquid")
    /\ s = "bitsymbols" => parts \in BestOf(Merged(report.parts, SymbolGroups(report, "bybit")))
ReadsOn == \E s \in Sections : \E parts, fall : Read(s, parts, fall) /\ Holds(s, parts, fall)

LEMMA ReadingOn ==
    ASSUME NEW s \in Sections, NEW parts, NEW fall, Read(s, parts, fall), Holds(s, parts, fall)
    PROVE  ReadsOn
BY DEF ReadsOn

LEMMA ReportingCases ==
    Reporting => RequestReport \/ ReadCore \/ ReadSums \/ ReadCount \/ Answer \/ ReadsOn
<1>1. ReadDays => ReadsOn
  BY ReadingOn DEF ReadDays, Sections, SectionNames, Holds
<1>2. ReadExecutions => ReadsOn
  BY ReadingOn DEF ReadExecutions, Sections, SectionNames, Holds
<1>3. ReadVenues => ReadsOn
  BY ReadingOn DEF ReadVenues, Sections, SectionNames, Holds
<1>4. ReadSides => ReadsOn
  BY ReadingOn DEF ReadSides, Sections, SectionNames, Holds
<1>5. ReadTypes => ReadsOn
  BY ReadingOn DEF ReadTypes, Sections, SectionNames, Holds
<1>6. ReadSymbols => ReadsOn
  BY ReadingOn DEF ReadSymbols, Sections, SectionNames, Holds
<1>7. ReadBitSymbols => ReadsOn
  <2> SUFFICES ASSUME ReadBitSymbols PROVE ReadsOn
    OBVIOUS
  <2>1. PICK g \in BestOf(Merged(report.parts, SymbolGroups(report, "bybit"))) :
          Read("bitsymbols", g, 0)
    BY DEF ReadBitSymbols
  <2> QED BY <2>1, ReadingOn DEF Sections, SectionNames, Holds
<1>8. ReadExecuted => ReadsOn
  <2> SUFFICES ASSUME ReadExecuted PROVE ReadsOn
    OBVIOUS
  <2>1. PICK parts : Read("executed", parts, 0)
    BY DEF ReadExecuted
  <2> QED BY <2>1, ReadingOn DEF Sections, SectionNames, Holds
<1>9. ReadProfitable => ReadsOn
  BY ReadingOn DEF ReadProfitable, Sections, SectionNames, Holds
<1>10. ReadRecent => ReadsOn
  <2> SUFFICES ASSUME ReadRecent PROVE ReadsOn
    OBVIOUS
  <2>1. PICK parts : Read("recent", parts, 0)
    BY DEF ReadRecent
  <2> QED BY <2>1, ReadingOn DEF Sections, SectionNames, Holds
<1>11. ReadStatuses => ReadsOn
  <2> SUFFICES ASSUME ReadStatuses PROVE ReadsOn
    OBVIOUS
  <2>1. PICK parts : Read("statuses", parts, 0)
    BY DEF ReadStatuses
  <2> QED BY <2>1, ReadingOn DEF Sections, SectionNames, Holds
<1> QED BY <1>1, <1>2, <1>3, <1>4, <1>5, <1>6, <1>7, <1>8, <1>9, <1>10, <1>11 DEF Reporting

\* Each of these reads a section further.
Summed == [report.core EXCEPT !.profit = Core(Asked(report)).profit,
                              !.loss = Core(Asked(report)).loss,
                              !.winRate = Core(Asked(report)).winRate,
                              !.lossRate = IF report.core.trades = 0 THEN 0
                                           ELSE 10000 - Core(Asked(report)).winRate]
LEMMA FurtherIs ==
    ASSUME report \in ReportShape
    PROVE  /\ \A s, parts, fall : Read(s, parts, fall) => Further(s, report.core, parts, fall)
           /\ ReadCore => Further("core", Core(Asked(report)), report.parts, report.fall)
           /\ ReadCount => Further("count", [trades |-> Cardinality(Made(report))],
                                   report.parts, report.fall)
           /\ ReadSums => Further("sums", Summed, report.parts, report.fall)
<1>1. ASSUME NEW s, NEW core, NEW parts, NEW fall
      PROVE  /\ [report EXCEPT !.left = Tail(@), !.section = s, !.parts = parts, !.fall = fall]
                  = [report EXCEPT !.left = Tail(@), !.section = s, !.core = report.core,
                                   !.parts = parts, !.fall = fall]
             /\ [report EXCEPT !.left = Tail(@), !.section = s, !.core = core]
                  = [report EXCEPT !.left = Tail(@), !.section = s, !.core = core,
                                   !.parts = report.parts, !.fall = report.fall]
  BY DEF ReportShape
<1>2. ASSUME NEW s, NEW parts, NEW fall, Read(s, parts, fall)
      PROVE  Further(s, report.core, parts, fall)
  BY <1>1, <1>2 DEF Read, Further
<1>3. ReadCore => Further("core", Core(Asked(report)), report.parts, report.fall)
  BY <1>1 DEF ReadCore, Further
<1>4. ReadCount => Further("count", [trades |-> Cardinality(Made(report))], report.parts, report.fall)
  BY <1>1 DEF ReadCount, Further
<1>5. ReadSums => Further("sums", Summed, report.parts, report.fall)
  <2> SUFFICES ASSUME ReadSums PROVE Further("sums", Summed, report.parts, report.fall)
    OBVIOUS
  <2>1. Upcoming("sums") /\ report' = [report EXCEPT !.left = Tail(@), !.section = "sums", !.core = Summed]
    BY DEF ReadSums, Summed, ReportShape
  <2> QED BY <1>1, <2>1 DEF Further
<1> QED BY <1>2, <1>3, <1>4, <1>5

LEMMA StageStep == TableOK /\ StageOK /\ [PerformanceNext]_performanceVars => StageOK'
<1> SUFFICES ASSUME TableOK, StageOK, [PerformanceNext]_performanceVars PROVE StageOK'
  OBVIOUS
<1>1. ASSUME report' = report PROVE StageOK'
  BY <1>1 DEF StageOK, ReportShape
<1>2. CASE Reporting
  <2>1. CASE RequestReport
    BY <2>1, StageRequest
  <2>2. CASE Answer
    <3>1. report' = NoReport
      BY <2>2 DEF Answer
    <3>2. NoReport.kind = "none" /\ NoReport.left = << >> /\ NoReport.section = "none"
      BY DEF NoReport
    <3>3. << >> \in Seq(SectionNames) /\ "any" \in Venues \union {"any"} /\ "none" \in SectionNames
      BY DEF SectionNames
    <3>4. NoReport \in [kind : ReportKinds \union {"none"}, left : Seq(SectionNames), since : Int,
               until : Int, venue : Venues \union {"any"}, core : {<< >>}, section : SectionNames,
               parts : {<< >>}, fall : {0}]
      BY <3>3 DEF NoReport
    <3>5. report'.core = << >> /\ report'.parts = << >> /\ report'.fall = 0
      BY <3>1 DEF NoReport
    <3>6. report' \in ReportShape'
      BY <3>1, <3>4, <3>5 DEF ReportShape
    <3> QED BY <3>1, <3>2, <3>6 DEF StageOK
  <2>3. ASSUME NEW s \in SectionNames, NEW core, NEW parts, NEW fall, Further(s, core, parts, fall)
        PROVE  StageOK'
    BY <2>3, StageFurther
  <2>4. report \in ReportShape /\ {"core", "count", "sums"} \subseteq SectionNames
    BY DEF StageOK, SectionNames
  <2>5. ReadCore \/ ReadCount \/ ReadSums => StageOK'
    BY <2>3, <2>4, FurtherIs
  <2>6. ReadsOn => StageOK'
    BY <2>3, <2>4, FurtherIs DEF ReadsOn, Sections
  <2> QED BY <1>2, <2>1, <2>2, <2>5, <2>6, ReportingCases
<1>3. CASE Watching
  BY <1>1, <1>3, WatchingFrame
<1>4. CASE UNCHANGED performanceVars
  BY <1>1, <1>4 DEF performanceVars
<1>5. Tick => StageOK'
  BY <1>1 DEF Tick
<1>6. ASSUME NEW t \in Trades, Record(t) PROVE StageOK'
  BY <1>1, <1>6 DEF Record
<1>7. ASSUME NEW t \in Trades, NEW p \in Results, Close(t, p) PROVE StageOK'
  BY <1>1, <1>7 DEF Close
<1>8. CASE (\E s \in Strategies : DeleteStrategy(s)) \/ CleanUp
  BY <1>1, <1>8 DEF DeleteStrategy, CleanUp, Remove
<1> QED BY <1>2, <1>3, <1>4, <1>5, <1>6, <1>7, <1>8, StepCases

\* The totals come first.
LEMMA SectionBefore ==
    ASSUME StageOK, NEW s \in SectionNames, NEW core, NEW parts, NEW fall,
           Further(s, core, parts, fall), report.kind \in {"performance", "trading"}
    PROVE  /\ s # "count" /\ (s # "core" => report.section # "none")
           /\ s = "bitsymbols" => report.section = "symbols"
<1>1. report.kind \in ReportKinds /\ report.kind # "executions"
  BY DEF ReportKinds
<1>2. PICK i \in 0..(Len(Plans[report.kind]) - 1) :
        Place(report, i) /\ Plans[report.kind][i + 1] = s
  BY StageFurther
<1> DEFINE plan == Plans[report.kind]
<1>3. /\ Len(plan) \in Nat
      /\ \A j \in 1..Len(plan) : /\ plan[j] # "none" /\ plan[j] # "count"
                                 /\ j = 1 <=> plan[j] = "core"
                                 /\ plan[j] = "bitsymbols" => j > 1 /\ plan[j-1] = "symbols"
  BY <1>1, PlanFacts
<1>4. report.section = IF i = 0 THEN "none" ELSE plan[i]
  BY <1>2 DEF Place
<1>5. plan[i + 1] = s /\ i \in 0..(Len(plan) - 1)
  BY <1>2
<1> HIDE DEF plan
<1>6. i + 1 \in 1..Len(plan) /\ (i + 1) - 1 = i /\ (i # 0 => i \in 1..Len(plan))
  BY <1>3, <1>5
<1> QED BY <1>3, <1>4, <1>5, <1>6

\* Windows and venues alone say which trades a report is about.
LEMMA SameQuestion ==
    ASSUME NEW R, NEW q, NEW p, q.since = p.since, q.until = p.until, q.venue = p.venue
    PROVE  /\ Books(R, q) = Books(R, p)
           /\ \A v, g : SymbolsOf(R, q, v, g) = SymbolsOf(R, p, v, g)
BY DEF Books, SymbolsOf

\* What the totals say of a table R, and of a report q that began with ch committed.
TotalsOf(R, q, ch) ==
    /\ {"trades", "wins", "pnl"} \subseteq DOMAIN q.core
    /\ q.core.trades \in Nat /\ q.core.wins \in Nat
    /\ ch = {} =>
         /\ q.core.trades = Cardinality(Books(R, q))
         /\ q.core.wins = Cardinality(Wins(R, Books(R, q)))
         /\ q.core.pnl = Total(Earns(R), Books(R, q))
    /\ q.core.trades <= Cardinality(StillIn(R, q, ch))
    /\ q.core.wins <= Cardinality(StillWon(R, q, ch))
    /\ ch = {} /\ q.section = "symbols" => SymbolsOf(R, q, "hyperliquid", q.parts)

LEMMA TotalsIs ==
    TotalsOK <=> (report.kind \in {"performance", "trading"} /\ report.section # "none"
                    => TotalsOf(rows, report, changed))
BY DEF TotalsOK, TotalsOf

LEMMA TotalsIsLater ==
    TotalsOK' <=> (report'.kind \in {"performance", "trading"} /\ report'.section # "none"
                    => TotalsOf(rows', report', changed'))
BY DEF TotalsOK, TotalsOf

LEMMA SymbolsStay ==
    ASSUME NEW R \in Ledgers, NEW S, SameBooks(R, S), NEW q, NEW v, NEW g, SymbolsOf(R, q, v, g)
    PROVE  SymbolsOf(S, q, v, g)
<1> DEFINE T == {t \in Books(R, q) : Deals[t].venue = v}
<1>1. Books(S, q) = Books(R, q)
  BY SameBooksStay
<1>2. /\ DOMAIN g = {Deals[t].symbol : t \in T}
      /\ \A k \in DOMAIN g : g[k].pnl = Total(Earns(R), {t \in T : Deals[t].symbol = k})
  BY DEF SymbolsOf
<1>3. ASSUME NEW k \in DOMAIN g
      PROVE  Total(Earns(S), {t \in T : Deals[t].symbol = k})
               = Total(Earns(R), {t \in T : Deals[t].symbol = k})
  <2>1. {t \in T : Deals[t].symbol = k} \in SUBSET Books(R, q)
    OBVIOUS
  <2> HIDE DEF T
  <2> QED BY <2>1, SameBooksStay
<1>4. \A k \in DOMAIN g : g[k].pnl = Total(Earns(S), {t \in T : Deals[t].symbol = k})
  BY <1>2, <1>3
<1> QED BY <1>1, <1>2, <1>4 DEF SymbolsOf

\* What a step other than the report's commits: nothing, or closed trades that are noted.
CommitsTo(R, S, ch, dh) == (SameBooks(R, S) /\ dh = ch) \/ MoreBooks(R, S, ch, dh)

LEMMA TotalsStay ==
    ASSUME NEW R \in Ledgers, NEW S, NEW q, NEW ch, NEW dh, TotalsOf(R, q, ch), CommitsTo(R, S, ch, dh)
    PROVE  TotalsOf(S, q, dh)
<1>1. CASE SameBooks(R, S) /\ dh = ch
  <2>1. /\ Books(S, q) = Books(R, q) /\ Wins(S, Books(S, q)) = Wins(R, Books(R, q))
        /\ Total(Earns(S), Books(R, q)) = Total(Earns(R), Books(R, q))
    BY <1>1, SameBooksStay
  <2>2. SymbolsOf(R, q, "hyperliquid", q.parts) => SymbolsOf(S, q, "hyperliquid", q.parts)
    BY <1>1, SymbolsStay
  <2> QED BY <1>1, <2>1, <2>2 DEF TotalsOf, StillIn, StillWon
<1>2. CASE MoreBooks(R, S, ch, dh)
  <2> DEFINE b == Cardinality(StillIn(R, q, ch))
             c == Cardinality(StillIn(S, q, dh))
             v == Cardinality(StillWon(R, q, ch))
             w == Cardinality(StillWon(S, q, dh))
  <2>1. /\ StillIn(R, q, ch) \subseteq StillIn(S, q, dh) /\ IsFiniteSet(StillIn(S, q, dh))
        /\ StillWon(R, q, ch) \subseteq StillWon(S, q, dh) /\ IsFiniteSet(StillWon(S, q, dh))
    BY <1>2, MoreBooksAdd, StillFinite
  <2>2. b \in Nat /\ c \in Nat /\ b <= c /\ v \in Nat /\ w \in Nat /\ v <= w
    BY <2>1, FS_Subset, FS_CardinalityType
  <2>3. /\ {"trades", "wins", "pnl"} \subseteq DOMAIN q.core
        /\ q.core.trades \in Nat /\ q.core.wins \in Nat
        /\ q.core.trades <= b /\ q.core.wins <= v
    BY DEF TotalsOf
  <2>4. dh # {}
    BY <1>2 DEF MoreBooks
  <2> HIDE DEF b, c, v, w
  <2>5. q.core.trades <= c /\ q.core.wins <= w
    BY <2>2, <2>3
  <2> QED BY <2>3, <2>4, <2>5 DEF TotalsOf, c, w
<1> QED BY <1>1, <1>2 DEF CommitsTo

\* What a step commits to the closed trades.
LEMMA RecordKeepsBooks ==
    ASSUME TableOK, NEW t \in Trades, Record(t)
    PROVE  SameBooks(rows, rows')
<1>1. rows[t].status = "NONE" /\ rows \in [Trades -> [status : Statuses, created : Instants,
                executed : Instants, pnl : {<< >>} \union {<<p>> : p \in Results}]]
  BY DEF Record, TableOK
<1>2. PICK began \in Instants :
        \/ rows' = [rows EXCEPT ![t] = [Absent EXCEPT !.status = "FILLED", !.created = began,
                                                      !.executed = clock]]
        \/ rows' = [rows EXCEPT ![t] = [Absent EXCEPT !.status = "FAILED", !.created = began]]
  BY DEF Record
<1>3. PICK r : rows' = [rows EXCEPT ![t] = r] /\ r.status \in {"FILLED", "FAILED"}
  <2> DEFINE a == [Absent EXCEPT !.status = "FILLED", !.created = began, !.executed = clock]
             b == [Absent EXCEPT !.status = "FAILED", !.created = began]
  <2>1. a.status = "FILLED" /\ b.status = "FAILED"
    BY DEF Absent
  <2>2. rows' = [rows EXCEPT ![t] = a] \/ rows' = [rows EXCEPT ![t] = b]
    BY <1>2
  <2> HIDE DEF a, b
  <2> QED BY <2>1, <2>2
<1>4. rows'[t] = r /\ \A u \in Trades : u # t => rows'[u] = rows[u]
  BY <1>1, <1>3
<1> QED BY <1>1, <1>3, <1>4 DEF SameBooks

\* A trade that closes again keeps its place in the books, if not its pnl.
LEMMA CloseAddsBooks ==
    ASSUME TableOK, NEW t \in Trades, NEW p \in Results, Close(t, p), report.kind # "none"
    PROVE  MoreBooks(rows, rows', changed, changed')
<1>1. \A u \in Trades : u # t => rows'[u] = rows[u]
  BY DEF Close, TableOK
<1>2. rows'[t].status = "CLOSED" /\ rows'[t].created = rows[t].created
  BY DEF Close, TableOK
<1> DEFINE kind == IF rows[t].status = "CLOSED" THEN "resettled" ELSE "closed"
<1>0. changed' = changed \union ({kind} \X {t})
  BY DEF Close, Noted
<1>3. changed \subseteq changed' /\ changed' # {}
  <2>1. <<kind, t>> \in {kind} \X {t}
    OBVIOUS
  <2> HIDE DEF kind
  <2> QED BY <1>0, <2>1
<1>4. rows[t].status = "CLOSED" => t \in Out("resettled", changed')
  BY <1>0 DEF Out
<1> QED BY <1>1, <1>2, <1>3, <1>4 DEF MoreBooks

\* What is removed is noted, if it was closed.
LEMMA RemoveCommits ==
    ASSUME TableOK, NEW T \in SUBSET Trades, Remove(T), report.kind # "none"
    PROVE  CommitsTo(rows, rows', changed, changed')
<1> DEFINE C == {t \in T : rows[t].status = "CLOSED"}
<1>1. /\ \A u \in Trades : u \notin T => rows'[u] = rows[u]
      /\ \A u \in T : rows'[u].status = "NONE"
  BY DEF Remove, Absent
<1>2. changed' = changed \union ({"removed"} \X C)
  BY DEF Remove, Noted
<1>3. CASE C = {}
  <2>1. changed' = changed /\ \A u \in T : rows[u].status # "CLOSED"
    BY <1>2, <1>3
  <2> QED BY <1>1, <2>1 DEF CommitsTo, SameBooks
<1>4. CASE C # {}
  <2>1. changed \subseteq changed' /\ changed' # {}
    <3>1. PICK u \in C : TRUE
      BY <1>4
    <3>2. <<"removed", u>> \in {"removed"} \X C
      BY <3>1
    <3> HIDE DEF C
    <3> QED BY <1>2, <3>2
  <2>2. \A u \in C : u \in Out("removed", changed')
    BY <1>2 DEF Out
  <2> QED BY <1>1, <2>1, <2>2 DEF CommitsTo, MoreBooks
<1> QED BY <1>3, <1>4

\* A second statement for some of the totals leaves the others alone.
LEMMA OneFieldSet ==
    ASSUME NEW c, NEW h \in {"profit", "loss", "winRate", "lossRate"}, NEW a,
           NEW f \in {"trades", "wins", "pnl"}, f \in DOMAIN c
    PROVE  f \in DOMAIN [c EXCEPT ![h] = a] /\ [c EXCEPT ![h] = a][f] = c[f]
<1>1. f # h
  OBVIOUS
<1> QED BY <1>1

LEMMA TotalsKept ==
    ASSUME NEW f \in {"trades", "wins", "pnl"}, f \in DOMAIN report.core
    PROVE  f \in DOMAIN Summed /\ Summed[f] = report.core[f]
<1> DEFINE sums == Core(Asked(report))
           c1 == [report.core EXCEPT !["profit"] = sums.profit]
           c2 == [c1 EXCEPT !["loss"] = sums.loss]
           c3 == [c2 EXCEPT !["winRate"] = sums.winRate]
           e == IF report.core.trades = 0 THEN 0 ELSE 10000 - sums.winRate
           c4 == [c3 EXCEPT !["lossRate"] = e]
<1>1. Summed = c4
  BY Zenon DEF Summed
<1> HIDE DEF sums, e
<1>2. f \in DOMAIN c1 /\ c1[f] = report.core[f]
  BY OneFieldSet
<1> HIDE DEF c1
<1>3. f \in DOMAIN c2 /\ c2[f] = report.core[f]
  BY <1>2, OneFieldSet
<1> HIDE DEF c2
<1>4. f \in DOMAIN c3 /\ c3[f] = report.core[f]
  BY <1>3, OneFieldSet
<1> HIDE DEF c3
<1> QED BY <1>1, <1>4, OneFieldSet

LEMMA SymbolGroupsAre ==
    ASSUME TableOK, NEW v \in Venues
    PROVE  SymbolsOf(rows, report, v, SymbolGroups(report, v))
<1> DEFINE T == {t \in Books(rows, report) : Deals[t].venue = v}
           key == Column("symbol")
           K == Present(T, key)
           g == GroupBy(T, key, K)
<1>1. OnVenue(Asked(report), v) = T
  BY AskedIs DEF OnVenue, Venues
<1>2. SymbolGroups(report, v) = g
  BY <1>1 DEF SymbolGroups
<1>3. \A t \in T : key[t] = Deals[t].symbol
  BY DEF Books, Column
<1>4. DOMAIN g = {Deals[t].symbol : t \in T}
  <2>1. DOMAIN g = K
    BY DEF GroupBy
  <2>2. K = {key[t] : t \in T}
    BY DEF Present
  <2> HIDE DEF T, key, K, g
  <2> QED BY <1>3, <2>1, <2>2
<1>5. ASSUME NEW k \in DOMAIN g
      PROVE  g[k].pnl = Total(Earns(rows), {t \in T : Deals[t].symbol = k})
  <2>1. g[k] = Figures({t \in T : key[t] = k})
    BY DEF GroupBy
  <2>2. {t \in T : key[t] = k} = {t \in T : Deals[t].symbol = k}
    BY <1>3
  <2> DEFINE U == {t \in T : Deals[t].symbol = k}
  <2>3. Figures(U).pnl = Total(Earned, U)
    BY DEF Figures
  <2> HIDE DEF U, T, key, g
  <2> QED BY <2>1, <2>2, <2>3, EarnedIs DEF U
<1> HIDE DEF g
<1>6. SymbolsOf(rows, report, v, g)
  BY <1>4, <1>5 DEF SymbolsOf
<1> QED BY <1>2, <1>6

\* The totals of a report go on holding, step by step.
LEMMA TotalsOfReading ==
    ASSUME TableOK, StageOK, TotalsOK, UNCHANGED rows,
           NEW s \in SectionNames, NEW parts, NEW fall, NEW core, Further(s, core, parts, fall),
           s # "core", changed' = changed,
           s = "symbols" => parts = SymbolGroups(report, "hyperliquid"),
           \A f \in {"trades", "wins", "pnl"} :
              f \in DOMAIN report.core => f \in DOMAIN core /\ core[f] = report.core[f]
    PROVE  TotalsOK'
<1> SUFFICES ASSUME report.kind \in {"performance", "trading"}
             PROVE  TotalsOf(rows', report', changed')
  BY FurtherShape, TotalsIsLater DEF StageOK
<1>1. /\ report'.kind = report.kind /\ report'.core = core /\ report'.section = s
      /\ report'.since = report.since /\ report'.until = report.until
      /\ report'.venue = report.venue /\ report'.parts = parts
  BY FurtherShape DEF StageOK
<1>2. report.section # "none"
  BY SectionBefore
<1>3. TotalsOf(rows, report, changed)
  BY <1>2, TotalsIs
<1>4. /\ "trades" \in DOMAIN core /\ "wins" \in DOMAIN core /\ "pnl" \in DOMAIN core
      /\ core.trades = report.core.trades /\ core.wins = report.core.wins
      /\ core.pnl = report.core.pnl
  BY <1>3 DEF TotalsOf
<1>5. /\ Books(rows', report') = Books(rows, report)
      /\ \A g : SymbolsOf(rows', report', "hyperliquid", g) = SymbolsOf(rows, report, "hyperliquid", g)
  BY <1>1, SameQuestion
<1>6. s = "symbols" => SymbolsOf(rows, report, "hyperliquid", parts)
  <2> SUFFICES ASSUME s = "symbols" PROVE SymbolsOf(rows, report, "hyperliquid", parts)
    OBVIOUS
  <2> QED BY SymbolGroupsAre DEF Venues
<1> QED BY <1>1, <1>3, <1>4, <1>5, <1>6 DEF TotalsOf, StillIn, StillWon

LEMMA TotalsOfReport ==
    ASSUME TableOK, StageOK, TotalsOK, Reporting
    PROVE  TotalsOK'
<1>1. UNCHANGED rows /\ report \in ReportShape
  BY ReportingFrame DEF tables, StageOK
<1>2. CASE RequestReport
  BY <1>2, StageRequest, TotalsIsLater
<1>3. CASE Answer
  <2>1. report'.kind = "none"
    BY <1>3 DEF Answer, NoReport
  <2> QED BY <2>1, TotalsIsLater
<1>4. CASE ReadCore
  <2>1. Further("core", Core(Asked(report)), report.parts, report.fall) /\ "core" \in SectionNames
    BY <1>1, <1>4, FurtherIs DEF SectionNames
  <2>2. /\ report'.core = Core(Asked(report)) /\ report'.section = "core"
        /\ report'.since = report.since /\ report'.until = report.until
        /\ report'.venue = report.venue
    BY <1>1, <2>1, FurtherShape
  <2>3. Books(rows', report') = Books(rows, report) /\ Asked(report) = Books(rows, report)
    BY <1>1, <2>2, SameQuestion, AskedIs
  <2> DEFINE T == Books(rows, report)
  <2>4. /\ {"trades", "wins", "pnl"} \subseteq DOMAIN Core(T)
        /\ Core(T).trades = Cardinality(T) /\ Core(T).wins = Cardinality(Wins(rows, T))
        /\ Core(T).pnl = Total(Earns(rows), T)
    BY EarnedIs DEF Core
  <2>5. IsFiniteSet(T) /\ IsFiniteSet(Wins(rows, T))
    BY BooksFinite, FS_Subset DEF Wins
  <2>6. Cardinality(T) \in Nat /\ Cardinality(Wins(rows, T)) \in Nat
    BY <2>5, FS_CardinalityType
  <2> HIDE DEF T
  <2>7. report'.core = Core(T) /\ Books(rows', report') = T /\ rows' = rows
    BY <1>1, <2>2, <2>3 DEF T
  <2>8. /\ T \subseteq StillIn(rows', report', changed')
        /\ Wins(rows, T) \subseteq StillWon(rows', report', changed')
    BY <2>7 DEF StillIn, StillWon
  <2>9. /\ Cardinality(T) <= Cardinality(StillIn(rows', report', changed'))
        /\ Cardinality(Wins(rows, T)) <= Cardinality(StillWon(rows', report', changed'))
    BY <2>8, StillFinite, FS_Subset
  <2>10. TotalsOf(rows', report', changed')
    BY <2>2, <2>4, <2>6, <2>7, <2>9 DEF TotalsOf
  <2> QED BY <2>10, TotalsIsLater
<1>5. CASE ReadSums
  <2>1. Further("sums", Summed, report.parts, report.fall) /\ "sums" \in SectionNames
    BY <1>1, <1>5, FurtherIs DEF SectionNames
  <2>2. \A f \in {"trades", "wins", "pnl"} :
          f \in DOMAIN report.core => f \in DOMAIN Summed /\ Summed[f] = report.core[f]
    BY TotalsKept
  <2>3. changed' = changed
    BY <1>5 DEF ReadSums
  <2> QED BY <1>1, <2>1, <2>2, <2>3, TotalsOfReading
<1>6. CASE ReadCount
  <2>1. Further("count", [trades |-> Cardinality(Made(report))], report.parts, report.fall)
    BY <1>1, <1>6, FurtherIs
  <2>2. report.kind \notin {"performance", "trading"} /\ "count" \in SectionNames
    BY <2>1, SectionBefore DEF SectionNames
  <2>3. report'.kind = report.kind
    BY <1>1, <2>1, <2>2, FurtherShape
  <2> QED BY <2>2, <2>3, TotalsIsLater
<1>7. CASE ReadsOn
  <2>1. PICK s \in Sections : \E parts, fall : Read(s, parts, fall) /\ Holds(s, parts, fall)
    BY <1>7 DEF ReadsOn
  <2>2. PICK parts, fall : Read(s, parts, fall) /\ Holds(s, parts, fall)
    BY <2>1
  <2>3. Further(s, report.core, parts, fall) /\ s \in SectionNames /\ s # "core"
    BY <1>1, <2>2, FurtherIs DEF Sections
  <2>4. changed' = changed /\ (s = "symbols" => parts = SymbolGroups(report, "hyperliquid"))
    BY <2>2 DEF Read, Holds
  <2> QED BY <1>1, <2>3, <2>4, TotalsOfReading
<1> QED BY <1>2, <1>3, <1>4, <1>5, <1>6, <1>7, ReportingCases

\* Any other step, while there is a report.
LEMMA OtherSteps ==
    ASSUME TableOK, [PerformanceNext]_performanceVars
    PROVE  \/ Reporting
           \/ report' = report /\ (report.kind # "none" => CommitsTo(rows, rows', changed, changed'))
<1> DEFINE Quiet == report' = report /\ (report.kind # "none" => CommitsTo(rows, rows', changed, changed'))
<1>0. ASSUME UNCHANGED <<rows, report, changed>> PROVE Quiet
  BY <1>0 DEF CommitsTo, SameBooks
<1>1. CASE Watching
  BY <1>0, <1>1, WatchingFrame DEF tables
<1>2. CASE UNCHANGED performanceVars
  BY <1>0, <1>2 DEF performanceVars, tables
<1>3. CASE Tick
  BY <1>0, <1>3 DEF Tick
<1>4. ASSUME NEW t \in Trades, Record(t) PROVE Quiet
  <2>1. report' = report /\ changed' = changed
    BY <1>4 DEF Record
  <2> QED BY <1>4, <2>1, RecordKeepsBooks DEF CommitsTo
<1>5. ASSUME NEW t \in Trades, NEW p \in Results, Close(t, p) PROVE Quiet
  <2>1. report' = report
    BY <1>5 DEF Close
  <2> QED BY <1>5, <2>1, CloseAddsBooks DEF CommitsTo
<1>6. CASE (\E s \in Strategies : DeleteStrategy(s)) \/ CleanUp
  <2>1. PICK T \in SUBSET Trades : Remove(T)
    BY <1>6, RemovalsRemove
  <2>2. report' = report
    BY <2>1 DEF Remove
  <2> QED BY <2>1, <2>2, RemoveCommits
<1> QED BY <1>1, <1>2, <1>3, <1>4, <1>5, <1>6, StepCases

LEMMA TotalsStep ==
    ASSUME TableOK, StageOK, TotalsOK, [PerformanceNext]_performanceVars
    PROVE  TotalsOK'
<1>1. CASE Reporting
  BY <1>1, TotalsOfReport
<1>2. CASE report' = report /\ (report.kind # "none" => CommitsTo(rows, rows', changed, changed'))
  <2> SUFFICES ASSUME report.kind \in {"performance", "trading"}, report.section # "none"
               PROVE  TotalsOf(rows', report, changed')
    BY <1>2, TotalsIsLater
  <2>1. TotalsOf(rows, report, changed) /\ rows \in Ledgers
    BY TotalsIs, TableIsTyped
  <2> QED BY <1>2, <2>1, TotalsStay
<1> QED BY <1>1, <1>2, OtherSteps

LEMMA TotalsInit == PerformanceInit => TotalsOK
BY DEF PerformanceInit, TotalsOK, NoReport

(* The drawdown of a report.                                               *)

\* The largest fall of the running total over the days of g.
IsWorstFall(g, fall) ==
    LET D == DOMAIN g
        at(d) == SumFunction([e \in {e \in D : e <= d} |-> g[e].pnl])
        falls == {0} \union {-at(d) : d \in D}
                 \union {at(x[1]) - at(x[2]) : x \in {y \in D \X D : y[1] < y[2]}}
    IN fall \in falls /\ \A f \in falls : f <= fall

PnlOf(g) == [e \in DOMAIN g |-> g[e].pnl]
Below(D, k) == {e \in D : e < k}
Until(g, k) == SumFunctionOnSet(PnlOf(g), Below(DOMAIN g, k))

LEMMA UntilIs ==
    ASSUME NEW n \in Nat, NEW g, DOMAIN g \in SUBSET (0..(n - 1)), \A e \in DOMAIN g : g[e].pnl \in Int,
           NEW d \in DOMAIN g
    PROVE  /\ SumFunction([e \in {e \in DOMAIN g : e <= d} |-> g[e].pnl]) = Until(g, d + 1)
           /\ Until(g, d + 1) \in Int
<1> DEFINE E == {e \in DOMAIN g : e <= d}
           f == [e \in E |-> g[e].pnl]
<1>1. E = Below(DOMAIN g, d + 1) /\ IsFiniteSet(E)
  <2>1. IsFiniteSet(0..(n - 1))
    BY FS_Interval
  <2>2. E \subseteq 0..(n - 1)
    OBVIOUS
  <2>3. \A e \in DOMAIN g : e <= d <=> e < d + 1
    OBVIOUS
  <2> QED BY <2>1, <2>2, <2>3, FS_Subset DEF Below
<1>2. \A e \in E : f[e] \in Int /\ PnlOf(g)[e] \in Int /\ f[e] = PnlOf(g)[e]
  BY DEF PnlOf
<1>3. DOMAIN f = E
  OBVIOUS
<1> HIDE DEF E, f
<1>4. SumFunctionOnSet(f, E) = SumFunctionOnSet(PnlOf(g), E) /\ SumFunctionOnSet(PnlOf(g), E) \in Int
  BY <1>1, <1>2, SumSame, SumTakes
<1> QED BY <1>1, <1>3, <1>4 DEF SumFunction, Until, E, f

\* The running total changes on the days of g only.
LEMMA UntilSteps ==
    ASSUME NEW n \in Nat, NEW g, DOMAIN g \in SUBSET (0..(n - 1)), \A e \in DOMAIN g : g[e].pnl \in Int
    PROVE  /\ Until(g, 0) = 0 /\ \A k \in 0..n : Until(g, k) \in Int
           /\ \A i \in 1..n : Until(g, i) = Until(g, i - 1)
                                            + (IF i - 1 \in DOMAIN g THEN g[i-1].pnl ELSE 0)
<1> DEFINE D == DOMAIN g
<1>1. \A k : IsFiniteSet(Below(D, k)) /\ Below(D, k) \subseteq D
  <2>1. IsFiniteSet(0..(n - 1))
    BY FS_Interval
  <2> QED BY <2>1, FS_Subset DEF Below
<1>2. \A e \in D : PnlOf(g)[e] = g[e].pnl /\ PnlOf(g)[e] \in Int
  BY DEF PnlOf
<1>3. \A k \in 0..n : Until(g, k) \in Int
  BY <1>1, <1>2, SumTakes DEF Until
<1>4. Below(D, 0) = {}
  BY DEF Below
<1>5. Until(g, 0) = 0
  BY <1>4, SumEmpty DEF Until
<1>6. ASSUME NEW i \in 1..n
      PROVE  Until(g, i) = Until(g, i - 1) + (IF i - 1 \in D THEN g[i-1].pnl ELSE 0)
  <2>0. \A e \in D : e < i <=> (e < i - 1 \/ e = i - 1)
    OBVIOUS
  <2>1. CASE i - 1 \in D
    <3>1. Below(D, i) = Below(D, i - 1) \union {i - 1} /\ i - 1 \notin Below(D, i - 1)
      BY <2>0, <2>1 DEF Below
    <3>2. \A x \in Below(D, i - 1) \union {i - 1} : PnlOf(g)[x] \in Int
      BY <1>1, <1>2, <2>1
    <3>3. SumFunctionOnSet(PnlOf(g), Below(D, i - 1) \union {i - 1})
            = SumFunctionOnSet(PnlOf(g), Below(D, i - 1)) + PnlOf(g)[i - 1]
      BY <1>1, <3>1, <3>2, SumWith
    <3> QED BY <1>2, <2>1, <3>1, <3>3 DEF Until
  <2>2. CASE i - 1 \notin D
    <3>1. Below(D, i) = Below(D, i - 1)
      BY <2>0, <2>2 DEF Below
    <3>2. Until(g, i) = Until(g, i - 1)
      BY <3>1 DEF Until
    <3>3. Until(g, i - 1) \in Int
      <4>1. i - 1 \in 0..n
        OBVIOUS
      <4> QED BY <1>3, <4>1
    <3> QED BY <2>2, <3>2, <3>3
  <2> QED BY <2>1, <2>2
<1> QED BY <1>3, <1>5, <1>6

\* Before any day the total is zero, or that of the last day of g before it.
LEMMA UntilLast ==
    ASSUME NEW n \in Nat, NEW g, DOMAIN g \in SUBSET (0..(n - 1)), NEW k \in 0..n
    PROVE  \/ Below(DOMAIN g, k) = {} /\ Until(g, k) = 0
           \/ \E b \in Below(DOMAIN g, k) : /\ Until(g, k) = Until(g, b + 1)
                                            /\ \A e \in Below(DOMAIN g, k) : e <= b
<1> DEFINE D == DOMAIN g
<1>1. CASE Below(D, k) = {}
  BY <1>1, SumEmpty DEF Until
<1>2. CASE Below(D, k) # {}
  <2>1. Below(D, k) \in SUBSET (0..n)
    BY DEF Below
  <2>2. PICK b \in Below(D, k) : \A e \in Below(D, k) : e <= b
    BY <1>2, <2>1, LargestExists
  <2>3. Below(D, k) = Below(D, b + 1)
    <3>1. \A e \in D : e \in Int
      OBVIOUS
    <3>2. b \in D /\ b < k
      BY DEF Below
    <3> QED BY <2>2, <3>1, <3>2 DEF Below
  <2> QED BY <2>2, <2>3 DEF Until
<1> QED BY <1>1, <1>2

LEMMA FallIsWorst ==
    ASSUME NEW n \in Nat, NEW g, DOMAIN g \in SUBSET (0..(n - 1)), \A e \in DOMAIN g : g[e].pnl \in Int,
           NEW fall,
           fall = Falls(n, [i \in 1..n |-> IF i - 1 \in DOMAIN g THEN g[i-1].pnl ELSE 0]).worst
    PROVE  IsWorstFall(g, fall)
<1> DEFINE D == DOMAIN g
           step == [i \in 1..n |-> IF i - 1 \in D THEN g[i-1].pnl ELSE 0]
           P == [k \in 0..n |-> Until(g, k)]
           at(d) == SumFunction([e \in {e \in D : e <= d} |-> g[e].pnl])
<1>1. /\ P[0] = 0 /\ \A j \in 0..n : P[j] \in Int /\ P[j] = Until(g, j)
      /\ \A i \in 1..n : step[i] \in Int /\ P[i] = P[i - 1] + step[i]
  <2>1. 0 \in 0..n /\ \A i \in 1..n : i \in 0..n /\ i - 1 \in 0..n
    OBVIOUS
  <2> QED BY <2>1, UntilSteps
<1>2. \A d \in D : at(d) = Until(g, d + 1) /\ Until(g, d + 1) \in Int /\ d \in Nat /\ d + 1 \in 0..n
  <2>1. ASSUME NEW d \in D PROVE at(d) = Until(g, d + 1) /\ Until(g, d + 1) \in Int
    BY UntilIs
  <2>2. ASSUME NEW d \in D PROVE d \in Nat /\ d + 1 \in 0..n
    <3>1. d \in 0..(n - 1)
      OBVIOUS
    <3> QED BY <3>1
  <2> HIDE DEF at
  <2> QED BY <2>1, <2>2
<1>3. fall = Falls(n, step).worst
  OBVIOUS
<1> HIDE DEF step, P
<1>4. /\ fall \in Int
      /\ \E k \in 0..n : \E j \in 0..k : fall = P[j] - P[k]
      /\ \A k \in 0..n : \A j \in 0..k : P[j] - P[k] <= fall
  <2>1. Seen(P, n, Falls(n, step))
    BY <1>1, FallsSeen
  <2> QED BY <1>3, <2>1 DEF Seen
<1> HIDE DEF at
<1> DEFINE falls == {0} \union {-at(d) : d \in D}
                    \union {at(x[1]) - at(x[2]) : x \in {y \in D \X D : y[1] < y[2]}}
<1>5. /\ 0 \in falls /\ \A d \in D : -at(d) \in falls
      /\ \A a, b \in D : a < b => at(a) - at(b) \in falls
  <2>1. ASSUME NEW a \in D, NEW b \in D, a < b
        PROVE  at(a) - at(b) \in {at(x[1]) - at(x[2]) : x \in {y \in D \X D : y[1] < y[2]}}
    <3>1. <<a, b>> \in {y \in D \X D : y[1] < y[2]} /\ <<a, b>>[1] = a /\ <<a, b>>[2] = b
      BY <2>1
    <3> QED BY <3>1
  <2> QED BY <2>1
<1>6. \A f \in falls : \/ f = 0 \/ \E d \in D : f = -at(d)
                       \/ \E a, b \in D : a < b /\ f = at(a) - at(b)
  OBVIOUS
<1> HIDE DEF falls
<1>7. ASSUME NEW f \in falls PROVE f <= fall
  <2>1. CASE f = 0
    <3>1. P[0] - P[0] <= fall /\ P[0] = 0
      <4>1. 0 \in 0..n /\ 0 \in 0..0
        OBVIOUS
      <4> QED BY <1>1, <1>4, <4>1
    <3> QED BY <1>4, <2>1, <3>1
  <2>2. ASSUME NEW d \in D, f = -at(d) PROVE f <= fall
    <3>1. P[0] - P[d + 1] <= fall
      <4>1. d + 1 \in 0..n /\ 0 \in 0..(d + 1)
        BY <1>2
      <4> QED BY <1>4, <4>1
    <3> QED BY <1>1, <1>2, <1>4, <2>2, <3>1
  <2>3. ASSUME NEW a \in D, NEW b \in D, a < b, f = at(a) - at(b) PROVE f <= fall
    <3>1. P[a + 1] - P[b + 1] <= fall
      <4>1. b + 1 \in 0..n /\ a + 1 \in 0..(b + 1)
        BY <1>2, <2>3
      <4> QED BY <1>4, <4>1
    <3> QED BY <1>1, <1>2, <1>4, <2>3, <3>1
  <2> QED BY <1>6, <2>1, <2>2, <2>3
<1>8. fall \in falls
  <2>1. PICK k \in 0..n : \E j \in 0..k : fall = P[j] - P[k]
    BY <1>4
  <2>2. PICK j \in 0..k : fall = P[j] - P[k]
    BY <2>1
  <2>3. j \in 0..n /\ k \in 0..n /\ j <= k /\ P[j] = Until(g, j) /\ P[k] = Until(g, k)
    BY <1>1
  <2>4. Below(D, j) \subseteq Below(D, k)
    <3>1. \A e \in D : e \in Int
      BY <1>2
    <3> QED BY <2>3, <3>1 DEF Below
  <2>5. \A b : b \in Below(D, k) \/ b \in Below(D, j) => b \in D
    BY DEF Below
  <2>6. \/ Below(D, j) = {} /\ Until(g, j) = 0
        \/ \E b \in Below(D, j) : /\ Until(g, j) = Until(g, b + 1)
                                  /\ \A e \in Below(D, j) : e <= b
    BY <2>3, UntilLast
  <2>7. \/ Below(D, k) = {} /\ Until(g, k) = 0
        \/ \E b \in Below(D, k) : /\ Until(g, k) = Until(g, b + 1)
                                  /\ \A e \in Below(D, k) : e <= b
    BY <2>3, UntilLast
  <2>8. CASE Until(g, k) = 0 /\ Below(D, k) = {}
    <3>1. Until(g, j) = 0
      BY <2>4, <2>6, <2>8
    <3> QED BY <1>5, <2>2, <2>3, <2>8, <3>1
  <2>9. ASSUME NEW b \in Below(D, k), Until(g, k) = Until(g, b + 1), \A e \in Below(D, k) : e <= b
        PROVE  fall \in falls
    <3>1. b \in D /\ Until(g, k) = at(b) /\ at(b) \in Int
      BY <1>2, <2>5, <2>9
    <3>2. CASE Until(g, j) = 0
      <4>1. fall = -at(b)
        BY <2>2, <2>3, <3>1, <3>2
      <4> QED BY <1>5, <3>1, <4>1
    <3>3. ASSUME NEW a \in Below(D, j), Until(g, j) = Until(g, a + 1)
          PROVE  fall \in falls
      <4>1. a \in D /\ Until(g, j) = at(a) /\ at(a) \in Int /\ a <= b
        BY <1>2, <2>4, <2>5, <2>9, <3>3
      <4>2. fall = at(a) - at(b)
        BY <2>2, <2>3, <3>1, <4>1
      <4>3. CASE a = b
        <5>1. fall = 0
          BY <3>1, <4>2, <4>3
        <5> QED BY <1>5, <5>1
      <4>4. CASE a # b
        <5>1. a < b
          BY <1>2, <3>1, <4>1, <4>4
        <5> QED BY <1>5, <3>1, <4>1, <4>2, <5>1
      <4> QED BY <4>3, <4>4
    <3> QED BY <2>6, <3>2, <3>3
  <2> QED BY <2>7, <2>8, <2>9
<1>9. fall \in falls /\ \A f \in falls : f <= fall
  BY <1>7, <1>8
<1> QED BY <1>9 DEF IsWorstFall, falls, at

(* Every breakdown adds up to the totals.                                  *)

BreaksOf(q) == {"days", "sides", "types"} \union (IF q.venue = "any" THEN {"venues"} ELSE {})
OnBinance(R, q) == {t \in Books(R, q) : Deals[t].venue = "binance"}
AddsUpOf(R, q, ch) ==
    ch = {} =>
        /\ q.section \in BreaksOf(q) =>
             OverAll(q.parts) = [field \in {"trades", "wins", "pnl"} |-> q.core[field]]
        /\ q.section = "bitsymbols" /\ Cardinality(DOMAIN q.parts) < TopSymbols =>
             q.core.pnl - GroupSum(q.parts, "pnl") = Total(Earns(R), OnBinance(R, q))
NothingLeaves(q, ch) ==
    q.section \in BreaksOf(q) =>
        /\ GroupSum(q.parts, "trades") \in Int /\ GroupSum(q.parts, "wins") \in Int
        /\ q.core.trades \in Int /\ q.core.wins \in Int
        /\ GroupSum(q.parts, "trades") + Cardinality(Out("removed", ch)) >= q.core.trades
        /\ GroupSum(q.parts, "wins") + Cardinality(Out("removed", ch) \union Out("resettled", ch))
              >= q.core.wins
FallOf(q) == q.section = "days" => IsWorstFall(q.parts, q.fall)
AgreesOf(R, q, ch) == AddsUpOf(R, q, ch) /\ NothingLeaves(q, ch) /\ FallOf(q)

\* A report of its section agrees with the tables it was read from.
AgreesOK == AgreesOf(rows, report, changed)

LEMMA AgreesIsIt == TableOK /\ StageOK /\ AgreesOK => ReportAgrees
<1> SUFFICES ASSUME TableOK, StageOK, AgreesOK PROVE ReportAgrees
  OBVIOUS
<1>1. Breakdowns = BreaksOf(report)
  BY DEF Breakdowns, BreaksOf
<1>2. NothingLeavesReport
  BY <1>1 DEF NothingLeavesReport, AgreesOK, AgreesOf, NothingLeaves, Removed, Resettled, Out
<1>3. DrawdownIsWorstFall
  BY DEF DrawdownIsWorstFall, AgreesOK, AgreesOf, FallOf, IsWorstFall
<1>4. ReportAddsUp
  <2> DEFINE B == {t \in Trades : /\ Deals[t].venue = "binance" /\ rows[t].status = "CLOSED"
                                  /\ rows[t].created \in report.since..report.until
                                  /\ report.venue \in {"any", "binance"}}
  <2>1. report.since \in Int /\ report.until \in Int
    BY DEF StageOK, ReportShape
  <2>2. \A t \in Trades : rows[t].created \in Int
    BY PerformanceConstants DEF TableOK, Instants
  <2>3. B = OnBinance(rows, report)
    BY <2>1, <2>2 DEF OnBinance, Books
  <2>4. Total(Earned, B) = Total(Earns(rows), OnBinance(rows, report))
    BY <2>3, EarnedIs
  <2>5. AddsUpOf(rows, report, changed)
    BY DEF AgreesOK, AgreesOf
  <2> QED BY <1>1, <2>4, <2>5 DEF ReportAddsUp, AddsUpOf, CoreSum
<1> QED BY <1>2, <1>3, <1>4 DEF ReportAgrees

\* The sections of a report, one by one.
LEMMA BreakdownsAddUp ==
    ASSUME TableOK, NEW parts, NEW s,
           \/ s = "days" /\ parts = DayGroups(report)
           \/ s = "venues" /\ parts = VenueGroups(report) /\ report.venue = "any"
           \/ s = "sides" /\ parts = SideGroups(report)
           \/ s = "types" /\ parts = TypeGroups(report)
    PROVE  /\ GroupSum(parts, "trades") = Cardinality(Books(rows, report))
           /\ GroupSum(parts, "wins") = Cardinality(Wins(rows, Books(rows, report)))
           /\ GroupSum(parts, "pnl") = Total(Earns(rows), Books(rows, report))
<1> DEFINE T == Books(rows, report)
           Right(g) == /\ GroupSum(g, "trades") = Cardinality(T)
                       /\ GroupSum(g, "wins") = Cardinality(Wins(rows, T))
                       /\ GroupSum(g, "pnl") = Total(Earns(rows), T)
<1>1. T \in SUBSET Trades /\ Asked(report) = T
  BY BooksFinite, AskedIs
<1>2. ASSUME NEW key PROVE Right(GroupBy(T, key, Present(T, key)))
  BY <1>1, PresentGroups, GroupsAddUp
<1>3. Right(GroupBy(T, Column("side"), Sides))
  <2>1. IsFiniteSet(Sides)
    <3>1. Sides = {"buy"} \union {"sell"} /\ IsFiniteSet({"buy"})
      BY FS_Singleton DEF Sides
    <3> QED BY <3>1, FS_AddElement
  <2>2. \A t \in T : Column("side")[t] \in Sides
    BY <1>1, PerformanceConstants DEF Column
  <2> QED BY <1>1, <2>1, <2>2, GroupsAddUp
<1> HIDE DEF Right, T
<1>4. CASE s = "days" /\ parts = DayGroups(report)
  BY <1>1, <1>2, <1>4 DEF DayGroups, Right, T
<1>5. CASE s = "sides" /\ parts = SideGroups(report)
  BY <1>1, <1>3, <1>5 DEF SideGroups, Right, T
<1>6. CASE s = "types" /\ parts = TypeGroups(report)
  BY <1>1, <1>2, <1>6 DEF TypeGroups, Right, T
<1>7. CASE s = "venues" /\ parts = VenueGroups(report) /\ report.venue = "any"
  <2>1. Booked(Final, report.since, report.until) = T
    BY <1>7, BookedIs DEF T, Books
  <2> QED BY <1>2, <1>7, <2>1 DEF VenueGroups, Right, T
<1> QED BY <1>4, <1>5, <1>6, <1>7

LEMMA DaysFall == TableOK => IsWorstFall(DayGroups(report), DayFall(DayGroups(report)))
<1> SUFFICES ASSUME TableOK PROVE IsWorstFall(DayGroups(report), DayFall(DayGroups(report)))
  OBVIOUS
<1> DEFINE T == Asked(report)
           g == DayGroups(report)
           n == Day(LastInstant) + 1
<1>1. T \in SUBSET Trades /\ IsFiniteSet(T)
  BY AskedIs, BooksFinite
<1>2. n \in Nat /\ n - 1 = Day(LastInstant)
  <2>1. LastInstant \in Nat
    BY PerformanceConstants
  <2>2. Day(LastInstant) \in Nat
    BY <2>1, DayGrows
  <2> QED BY <2>2
<1>3. DOMAIN g = Present(T, DayMade) /\ \A d \in DOMAIN g : g[d] = Figures({t \in T : DayMade[t] = d})
  BY DEF DayGroups, GroupBy
<1> HIDE DEF g, T
<1>4. DOMAIN g \in SUBSET (0..(n - 1))
  <2>1. ASSUME NEW t \in T PROVE DayMade[t] \in 0..Day(LastInstant)
    <3>1. rows[t].created \in 0..LastInstant /\ LastInstant \in Nat
      BY <1>1, PerformanceConstants DEF TableOK, Instants
    <3>2. Day(rows[t].created) \in Nat /\ Day(rows[t].created) <= Day(LastInstant)
      BY <3>1, DayGrows
    <3>3. Day(LastInstant) \in Nat
      BY <3>1, DayGrows
    <3>4. DayMade[t] = Day(rows[t].created)
      BY <1>1 DEF DayMade
    <3> QED BY <3>2, <3>3, <3>4
  <2>2. \A d \in DOMAIN g : \E t \in T : d = DayMade[t]
    BY <1>3 DEF Present
  <2> HIDE DEF n
  <2> QED BY <1>2, <2>1, <2>2
<1>5. ASSUME NEW e \in DOMAIN g PROVE g[e].pnl \in Int
  <2> DEFINE U == {t \in T : DayMade[t] = e}
  <2>1. IsFiniteSet(U) /\ U \subseteq Trades
    BY <1>1, FS_Subset
  <2>2. g[e].pnl = Total(Earned, U)
    BY <1>3 DEF Figures
  <2>3. \A t \in U : Earned[t] \in Int
    <3>1. \A t \in Trades : Earns(rows)[t] \in Int
      BY TableIsTyped, EarnsType
    <3> HIDE DEF U
    <3> QED BY <2>1, <3>1, EarnedIs
  <2> HIDE DEF U
  <2>4. SumFunctionOnSet(Earned, U) \in Int
    BY <2>1, <2>3, SumTakes
  <2> QED BY <2>2, <2>4 DEF Total
<1>6. DayFall(g) = Falls(n, [i \in 1..n |-> IF i - 1 \in DOMAIN g THEN g[i-1].pnl ELSE 0]).worst
  BY DEF DayFall
<1> HIDE DEF n
<1> QED BY <1>2, <1>4, <1>5, <1>6, FallIsWorst DEF g

\* The best symbols, when all of them are shown.
LEMMA AllSymbolsShown ==
    ASSUME NEW m, IsFiniteSet(DOMAIN m), NEW g \in BestOf(m), Cardinality(DOMAIN g) < TopSymbols
    PROVE  DOMAIN g = DOMAIN m /\ \A k \in DOMAIN m : g[k] = m[k]
<1>1. PICK K \in SUBSET DOMAIN m :
        /\ Cardinality(K) = IF Cardinality(DOMAIN m) < TopSymbols THEN Cardinality(DOMAIN m)
                            ELSE TopSymbols
        /\ g = [k \in K |-> m[k]]
  BY DEF BestOf
<1>2. DOMAIN g = K /\ TopSymbols \in Nat
  BY <1>1, PerformanceConstants
<1>3. Cardinality(K) = Cardinality(DOMAIN m)
  BY <1>1, <1>2
<1>4. K = DOMAIN m
  BY <1>3, FS_Subset
<1> QED BY <1>1, <1>4

\* Merging the symbols of two exchanges adds their trades up.
LEMMA MergedAddUp ==
    ASSUME TableOK, NEW g, NEW h,
           SymbolsOf(rows, report, "hyperliquid", g), SymbolsOf(rows, report, "bybit", h),
           NEW m, DOMAIN m = DOMAIN g \union DOMAIN h,
           \A k \in DOMAIN m :
              m[k].pnl = IF k \notin DOMAIN g THEN h[k].pnl ELSE
                         IF k \notin DOMAIN h THEN g[k].pnl ELSE g[k].pnl + h[k].pnl
    PROVE  /\ IsFiniteSet(DOMAIN m)
           /\ GroupSum(m, "pnl") =
                Total(Earns(rows), {t \in Books(rows, report) : Deals[t].venue # "binance"})
<1> DEFINE S == Books(rows, report)
           On(v) == {t \in S : Deals[t].venue = v}
           T == {t \in S : Deals[t].venue # "binance"}
           e == Earns(rows)
           Here(v, k) == {t \in On(v) : Deals[t].symbol = k}
           K == DOMAIN m
           key == Column("symbol")
           part == [k \in K |-> {t \in T : Deals[t].symbol = k}]
           pnl == [k \in K |-> m[k].pnl]
<1>1. S \subseteq Trades /\ IsFiniteSet(S) /\ T \subseteq S /\ IsFiniteSet(T)
  BY BooksFinite, FS_Subset
<1>2. \A t \in S : e[t] \in Int
  BY <1>1, TableIsTyped, EarnsType
<1>3. T = On("hyperliquid") \union On("bybit")
  <2>1. \A t \in Trades : Deals[t].venue \in Venues
    BY PerformanceConstants
  <2> QED BY <1>1, <2>1 DEF Venues
<1>4. /\ DOMAIN g = {Deals[t].symbol : t \in On("hyperliquid")}
      /\ \A k \in DOMAIN g : g[k].pnl = Total(e, Here("hyperliquid", k))
      /\ DOMAIN h = {Deals[t].symbol : t \in On("bybit")}
      /\ \A k \in DOMAIN h : h[k].pnl = Total(e, Here("bybit", k))
  BY DEF SymbolsOf
<1>5. K = {key[t] : t \in T} /\ \A t \in T : key[t] = Deals[t].symbol
  <2>1. \A t \in T : key[t] = Deals[t].symbol
    BY <1>1 DEF Column
  <2> HIDE DEF key, T, On
  <2> QED BY <1>3, <1>4, <2>1
<1>6. IsFiniteSet(K)
  <2>1. T \in SUBSET Trades
    BY <1>1
  <2> HIDE DEF T, key, K
  <2> QED BY <1>5, <2>1, PresentGroups DEF Present
<1>7. Grouped(T, key, K, part)
  <2>1. \A k \in K : part[k] \in SUBSET T /\ \A t \in T : t \in part[k] <=> key[t] = k
    BY <1>5
  <2>2. \A t \in T : key[t] \in K
    <3> HIDE DEF T, key, K
    <3> QED BY <1>5
  <2> HIDE DEF T, key, K, part
  <2> QED BY <2>1, <2>2 DEF Grouped
<1>8. ASSUME NEW k \in K PROVE pnl[k] = SumFunctionOnSet(e, part[k])
  <2> DEFINE A == Here("hyperliquid", k)
             B == Here("bybit", k)
  <2>1. part[k] = A \union B /\ A \intersect B = {}
    BY <1>3
  <2>2. IsFiniteSet(A) /\ IsFiniteSet(B)
    BY <1>1, FS_Subset
  <2>3. \A t \in A \union B : e[t] \in Int
    BY <1>2
  <2>4. k \in DOMAIN g => g[k].pnl = SumFunctionOnSet(e, A)
    BY <1>4 DEF Total
  <2>5. k \in DOMAIN h => h[k].pnl = SumFunctionOnSet(e, B)
    BY <1>4 DEF Total
  <2>6. k \notin DOMAIN g => A = {}
    BY <1>4
  <2>7. k \notin DOMAIN h => B = {}
    BY <1>4
  <2>8. k \in DOMAIN g \/ k \in DOMAIN h
    OBVIOUS
  <2>9. pnl[k] = IF k \notin DOMAIN g THEN h[k].pnl ELSE
                 IF k \notin DOMAIN h THEN g[k].pnl ELSE g[k].pnl + h[k].pnl
    OBVIOUS
  <2> HIDE DEF A, B, part, pnl, K, e
  <2>10. SumFunctionOnSet(e, A \union B) = SumFunctionOnSet(e, A) + SumFunctionOnSet(e, B)
    BY <2>1, <2>2, <2>3, SumUnion
  <2>11. CASE k \notin DOMAIN g
    <3>1. A \union B = B
      BY <2>6, <2>11
    <3> QED BY <2>1, <2>5, <2>8, <2>9, <2>11, <3>1
  <2>12. CASE k \in DOMAIN g /\ k \notin DOMAIN h
    <3>1. A \union B = A
      BY <2>7, <2>12
    <3> QED BY <2>1, <2>4, <2>9, <2>12, <3>1
  <2>13. CASE k \in DOMAIN g /\ k \in DOMAIN h
    BY <2>1, <2>4, <2>5, <2>9, <2>10, <2>13
  <2> QED BY <2>11, <2>12, <2>13
<1>9. GroupSum(m, "pnl") = SumFunctionOnSet(pnl, K)
  <2>1. [k \in DOMAIN m |-> m[k]["pnl"]] = pnl /\ DOMAIN pnl = K
    OBVIOUS
  <2> HIDE DEF pnl
  <2> QED BY <2>1 DEF GroupSum, SumFunction
<1>10. \A t \in T : e[t] \in Int
  BY <1>2
<1> HIDE DEF pnl, part, K, T, e, key
<1>11. SumFunctionOnSet(pnl, K) = SumFunctionOnSet(e, T)
  BY <1>1, <1>6, <1>7, <1>8, <1>10, SumByGroup
<1> QED BY <1>6, <1>9, <1>11 DEF K, T, e, Total

LEMMA BitSymbolsAddUp ==
    ASSUME TableOK, SymbolsOf(rows, report, "hyperliquid", report.parts),
           NEW g \in BestOf(Merged(report.parts, SymbolGroups(report, "bybit"))),
           Cardinality(DOMAIN g) < TopSymbols
    PROVE  Total(Earns(rows), Books(rows, report)) - GroupSum(g, "pnl")
             = Total(Earns(rows), OnBinance(rows, report))
<1> DEFINE p == report.parts
           h == SymbolGroups(report, "bybit")
           m == Merged(p, h)
           S == Books(rows, report)
           N == {t \in S : Deals[t].venue # "binance"}
           B == OnBinance(rows, report)
           e == Earns(rows)
<1>1. SymbolsOf(rows, report, "bybit", h)
  BY SymbolGroupsAre DEF Venues
<1> HIDE DEF h, p
<1>2. /\ DOMAIN m = DOMAIN p \union DOMAIN h
      /\ \A k \in DOMAIN m :
           m[k] = IF k \notin DOMAIN p THEN h[k] ELSE
                  IF k \notin DOMAIN h THEN p[k] ELSE AddedUp(p[k], h[k])
  BY DEF Merged
<1>3. SymbolsOf(rows, report, "hyperliquid", p) /\ g \in BestOf(m)
  BY DEF p, h
<1> HIDE DEF m
<1>4. \A k \in DOMAIN m :
        m[k].pnl = IF k \notin DOMAIN p THEN h[k].pnl ELSE
                   IF k \notin DOMAIN h THEN p[k].pnl ELSE p[k].pnl + h[k].pnl
  <2>1. \A a, b : AddedUp(a, b).pnl = a.pnl + b.pnl
    BY DEF AddedUp
  <2>2. ASSUME NEW k \in DOMAIN m
        PROVE  m[k].pnl = IF k \notin DOMAIN p THEN h[k].pnl ELSE
                          IF k \notin DOMAIN h THEN p[k].pnl ELSE p[k].pnl + h[k].pnl
    <3>1. CASE k \in DOMAIN p /\ k \in DOMAIN h
      <4>1. m[k] = AddedUp(p[k], h[k])
        BY <1>2, <3>1
      <4> QED BY <2>1, <3>1, <4>1
    <3>2. CASE k \notin DOMAIN p \/ k \notin DOMAIN h
      BY <1>2, <3>2
    <3> QED BY <3>1, <3>2
  <2> QED BY <2>2
<1>5. IsFiniteSet(DOMAIN m) /\ GroupSum(m, "pnl") = Total(e, N)
  BY <1>1, <1>2, <1>3, <1>4, MergedAddUp
<1>6. DOMAIN g = DOMAIN m /\ \A k \in DOMAIN m : g[k] = m[k]
  BY <1>3, <1>5, AllSymbolsShown
<1>7. GroupSum(g, "pnl") = GroupSum(m, "pnl")
  <2>1. [k \in DOMAIN g |-> g[k]["pnl"]] = [k \in DOMAIN m |-> m[k]["pnl"]]
    BY <1>6
  <2> QED BY <2>1 DEF GroupSum
<1>8. S = N \union B /\ N \intersect B = {}
  BY DEF OnBinance
<1>9. IsFiniteSet(N) /\ IsFiniteSet(B) /\ \A t \in N \union B : e[t] \in Int
  <2>1. S \subseteq Trades /\ IsFiniteSet(S)
    BY BooksFinite
  <2>2. \A t \in S : e[t] \in Int
    BY <2>1, TableIsTyped, EarnsType
  <2> HIDE DEF S, N, B, e
  <2> QED BY <1>8, <2>1, <2>2, FS_Subset
<1> HIDE DEF S, N, B, e
<1>10. SumFunctionOnSet(e, N \union B) = SumFunctionOnSet(e, N) + SumFunctionOnSet(e, B)
  BY <1>8, <1>9, SumUnion
<1>11. SumFunctionOnSet(e, N) \in Int /\ SumFunctionOnSet(e, B) \in Int
  BY <1>9, SumTakes
<1>12. Total(e, S) - GroupSum(g, "pnl") = Total(e, B)
  BY <1>5, <1>7, <1>8, <1>10, <1>11 DEF Total
<1> QED BY <1>12 DEF e, S, B

\* A section read while nothing was committed agrees with the totals; whatever
\* was, it lacks no more trades than were removed.
LEMMA AgreesOnReading ==
    ASSUME TableOK, StageOK, TotalsOK, NEW s \in Sections, NEW parts, NEW fall,
           Read(s, parts, fall), Holds(s, parts, fall)
    PROVE  AgreesOK'
<1>1. /\ Further(s, report.core, parts, fall) /\ s \in SectionNames
      /\ rows' = rows /\ changed' = changed
  BY FurtherIs DEF StageOK, Sections, Read, tables
<1>2. /\ report'.kind = report.kind /\ report'.core = report.core /\ report'.section = s
      /\ report'.since = report.since /\ report'.until = report.until
      /\ report'.venue = report.venue /\ report'.parts = parts /\ report'.fall = fall
  BY <1>1, FurtherShape DEF StageOK
<1>3. FallOf(report')
  <2>1. s = "days" => IsWorstFall(parts, fall)
    BY DaysFall DEF Holds
  <2> QED BY <1>2, <2>1 DEF FallOf
<1>4. BreaksOf(report') = BreaksOf(report) /\ "bitsymbols" \notin BreaksOf(report)
  BY <1>2 DEF BreaksOf
<1>5. CASE s \notin BreaksOf(report) /\ s # "bitsymbols"
  <2>1. AddsUpOf(rows', report', changed') /\ NothingLeaves(report', changed')
    BY <1>2, <1>4, <1>5 DEF AddsUpOf, NothingLeaves
  <2> QED BY <1>3, <2>1 DEF AgreesOK, AgreesOf
<1>6. CASE s \in BreaksOf(report) \/ s = "bitsymbols"
  <2>1. report.kind \in {"performance", "trading"}
    <3>1. report.kind \in ReportKinds
      BY <1>1, StageFurther
    <3>2. PICK i \in 0..(Len(Plans[report.kind]) - 1) :
            Place(report, i) /\ Plans[report.kind][i + 1] = s
      BY <1>1, StageFurther
    <3>3. CASE report.kind = "executions"
      <4>1. i + 1 \in 1..Len(Plans[report.kind])
        BY <3>1, PlanFacts
      <4>2. s \in {"count", "statuses"}
        BY <3>1, <3>2, <3>3, <4>1, PlanFacts
      <4> QED BY <1>6, <4>2 DEF BreaksOf
    <3> QED BY <3>1, <3>3 DEF ReportKinds
  <2>2. report.section # "none" /\ (s = "bitsymbols" => report.section = "symbols")
    <3>1. s # "core"
      BY DEF Sections
    <3> QED BY <1>1, <2>1, <3>1, SectionBefore
  <2>3. TotalsOf(rows, report, changed)
    BY <2>1, <2>2, TotalsIs
  <2> DEFINE T == Books(rows, report)
             W == Wins(rows, T)
             O == Out("removed", changed)
             P == Out("removed", changed) \union Out("resettled", changed)
  <2>4. IsFiniteSet(T) /\ IsFiniteSet(W)
    BY BooksFinite, FS_Subset DEF Wins
  <2>5. Cardinality(T) \in Nat /\ Cardinality(W) \in Nat
    BY <2>4, FS_CardinalityType
  <2>6. /\ report.core.trades \in Nat /\ report.core.wins \in Nat
        /\ changed = {} => /\ report.core.trades = Cardinality(T)
                           /\ report.core.wins = Cardinality(W)
                           /\ report.core.pnl = Total(Earns(rows), T)
        /\ report.core.trades <= Cardinality(T \union O) /\ report.core.wins <= Cardinality(W \union P)
    BY <2>3 DEF TotalsOf, StillIn, StillWon
  <2>7. Books(rows', report') = T
    BY <1>1, <1>2, SameQuestion
  <2>8. CASE s \in BreaksOf(report)
    <3>1. /\ GroupSum(parts, "trades") = Cardinality(T) /\ GroupSum(parts, "wins") = Cardinality(W)
          /\ GroupSum(parts, "pnl") = Total(Earns(rows), T)
      <4>1. \/ s = "days" /\ parts = DayGroups(report)
            \/ s = "venues" /\ parts = VenueGroups(report) /\ report.venue = "any"
            \/ s = "sides" /\ parts = SideGroups(report)
            \/ s = "types" /\ parts = TypeGroups(report)
        BY <2>8 DEF Holds, BreaksOf
      <4> QED BY <4>1, BreakdownsAddUp
    <3> HIDE DEF T, W, O, P
    <3>2. NothingLeaves(report', changed')
      <4>1. /\ Cardinality(O) \in Nat /\ Cardinality(P) \in Nat
            /\ Cardinality(T \union O) \in Nat /\ Cardinality(W \union P) \in Nat
            /\ Cardinality(T \union O) <= Cardinality(T) + Cardinality(O)
            /\ Cardinality(W \union P) <= Cardinality(W) + Cardinality(P)
        <5>1. IsFiniteSet(O) /\ IsFiniteSet(P)
          BY StillFinite DEF O, P
        <5>2. ASSUME NEW A, NEW B, IsFiniteSet(A), IsFiniteSet(B)
              PROVE  /\ Cardinality(A) \in Nat /\ Cardinality(B) \in Nat
                     /\ Cardinality(A \union B) \in Nat
                     /\ Cardinality(A \union B) <= Cardinality(A) + Cardinality(B)
          <6>1. IsFiniteSet(A \union B) /\ IsFiniteSet(A \cap B)
            BY <5>2, FS_Union, FS_Intersection
          <6>2. Cardinality(A \union B) = Cardinality(A) + Cardinality(B) - Cardinality(A \cap B)
            BY <5>2, FS_Union
          <6> QED BY <5>2, <6>1, <6>2, FS_CardinalityType
        <5> QED BY <2>4, <5>1, <5>2
      <4>2. /\ GroupSum(parts, "trades") + Cardinality(O) >= report.core.trades
            /\ GroupSum(parts, "wins") + Cardinality(P) >= report.core.wins
        BY <2>5, <2>6, <3>1, <4>1
      <4> QED BY <1>1, <1>2, <2>5, <2>6, <3>1, <4>2 DEF NothingLeaves, O, P
    <3>3. changed = {} => OverAll(parts) = [field \in {"trades", "wins", "pnl"} |-> report.core[field]]
      BY <2>6, <3>1 DEF OverAll
    <3>4. s # "bitsymbols"
      BY <1>4, <2>8
    <3>5. AddsUpOf(rows', report', changed')
      BY <1>1, <1>2, <3>3, <3>4 DEF AddsUpOf
    <3> QED BY <1>3, <3>2, <3>5 DEF AgreesOK, AgreesOf
  <2>9. CASE s = "bitsymbols"
    <3>1. parts \in BestOf(Merged(report.parts, SymbolGroups(report, "bybit")))
      BY <2>9 DEF Holds
    <3>2. changed = {} => SymbolsOf(rows, report, "hyperliquid", report.parts)
      BY <2>2, <2>3, <2>9 DEF TotalsOf
    <3>3. changed = {} /\ Cardinality(DOMAIN parts) < TopSymbols =>
            report.core.pnl - GroupSum(parts, "pnl") = Total(Earns(rows), OnBinance(rows, report))
      BY <2>6, <3>1, <3>2, BitSymbolsAddUp
    <3>4. OnBinance(rows', report') = OnBinance(rows, report)
      BY <2>7 DEF OnBinance
    <3>5. s \notin BreaksOf(report)
      BY <1>4, <2>9
    <3>6. AddsUpOf(rows', report', changed')
      BY <1>1, <1>2, <1>4, <3>3, <3>4, <3>5 DEF AddsUpOf
    <3>7. NothingLeaves(report', changed')
      BY <1>2, <1>4, <3>5 DEF NothingLeaves
    <3> QED BY <1>3, <3>6, <3>7 DEF AgreesOK, AgreesOf
  <2> QED BY <1>6, <2>8, <2>9
<1> QED BY <1>5, <1>6

\* At the totals, before them, and without a report there is nothing to agree.
LEMMA AgreesBefore ==
    ASSUME NEW R, NEW q, NEW ch, q.section \in {"none", "core", "count", "sums"}
    PROVE  AgreesOf(R, q, ch)
BY DEF AgreesOf, AddsUpOf, NothingLeaves, FallOf, BreaksOf

LEMMA AgreesStay ==
    ASSUME NEW R \in Ledgers, NEW S, NEW q, NEW ch, NEW dh, AgreesOf(R, q, ch), CommitsTo(R, S, ch, dh)
    PROVE  AgreesOf(S, q, dh)
<1>1. CASE SameBooks(R, S) /\ dh = ch
  <2>1. OnBinance(S, q) = OnBinance(R, q) /\ OnBinance(R, q) \in SUBSET Books(R, q)
    BY <1>1, SameBooksStay DEF OnBinance
  <2>2. Total(Earns(S), OnBinance(S, q)) = Total(Earns(R), OnBinance(R, q))
    BY <1>1, <2>1, SameBooksStay
  <2> QED BY <1>1, <2>2 DEF AgreesOf, AddsUpOf
<1>2. CASE MoreBooks(R, S, ch, dh)
  <2> DEFINE o == Cardinality(Out("removed", ch))
             oo == Cardinality(Out("removed", dh))
             p == Cardinality(Out("removed", ch) \union Out("resettled", ch))
             pp == Cardinality(Out("removed", dh) \union Out("resettled", dh))
  <2>1. dh # {} /\ \A kind : Out(kind, ch) \subseteq Out(kind, dh)
    BY <1>2 DEF MoreBooks, Out
  <2>2. o \in Nat /\ oo \in Nat /\ o <= oo /\ p \in Nat /\ pp \in Nat /\ p <= pp
    <3>1. Out("removed", ch) \union Out("resettled", ch) \subseteq Out("removed", dh) \union Out("resettled", dh)
      BY <2>1
    <3> QED BY <2>1, <3>1, StillFinite, FS_Subset, FS_CardinalityType
  <2>3. AddsUpOf(S, q, dh) /\ FallOf(q)
    BY <2>1 DEF AgreesOf, AddsUpOf
  <2>4. NothingLeaves(q, dh)
    <3>1. NothingLeaves(q, ch)
      BY DEF AgreesOf
    <3> SUFFICES ASSUME q.section \in BreaksOf(q)
                 PROVE  /\ GroupSum(q.parts, "trades") \in Int /\ GroupSum(q.parts, "wins") \in Int
                        /\ q.core.trades \in Int /\ q.core.wins \in Int
                        /\ GroupSum(q.parts, "trades") + oo >= q.core.trades
                        /\ GroupSum(q.parts, "wins") + pp >= q.core.wins
      BY DEF NothingLeaves
    <3>2. /\ GroupSum(q.parts, "trades") \in Int /\ GroupSum(q.parts, "wins") \in Int
          /\ q.core.trades \in Int /\ q.core.wins \in Int
          /\ GroupSum(q.parts, "trades") + o >= q.core.trades
          /\ GroupSum(q.parts, "wins") + p >= q.core.wins
      BY <3>1 DEF NothingLeaves
    <3> HIDE DEF o, oo, p, pp
    <3> QED BY <2>2, <3>2
  <2> QED BY <2>3, <2>4 DEF AgreesOf
<1> QED BY <1>1, <1>2 DEF CommitsTo

LEMMA AgreesStep ==
    ASSUME TableOK, StageOK, TotalsOK, AgreesOK, [PerformanceNext]_performanceVars
    PROVE  AgreesOK'
<1>1. CASE Reporting
  <2>1. ASSUME report'.section \in {"none", "core", "count", "sums"} PROVE AgreesOK'
    BY <2>1, AgreesBefore DEF AgreesOK
  <2>2. ASSUME NEW s \in {"core", "count", "sums"}, NEW core, NEW parts, NEW fall,
               Further(s, core, parts, fall)
        PROVE  AgreesOK'
    <3>1. s \in SectionNames /\ report \in ReportShape
      BY DEF SectionNames, StageOK
    <3>2. report'.section = s
      BY <2>2, <3>1, FurtherShape
    <3> QED BY <2>1, <3>2
  <2>3. CASE RequestReport
    BY <2>1, <2>3, StageRequest
  <2>4. CASE Answer
    BY <2>1, <2>4 DEF Answer, NoReport
  <2>5. CASE ReadCore \/ ReadCount \/ ReadSums
    BY <2>2, <2>5, FurtherIs DEF StageOK
  <2>6. CASE ReadsOn
    <3>1. PICK s \in Sections : \E parts, fall : Read(s, parts, fall) /\ Holds(s, parts, fall)
      BY <2>6 DEF ReadsOn
    <3>2. PICK parts, fall : Read(s, parts, fall) /\ Holds(s, parts, fall)
      BY <3>1
    <3> QED BY <3>2, AgreesOnReading
  <2> QED BY <1>1, <2>3, <2>4, <2>5, <2>6, ReportingCases
<1>2. CASE report' = report /\ (report.kind # "none" => CommitsTo(rows, rows', changed, changed'))
  <2>1. CASE report.kind # "none"
    <3>1. AgreesOf(rows', report, changed')
      BY <1>2, <2>1, TableIsTyped, AgreesStay DEF AgreesOK
    <3> QED BY <1>2, <3>1 DEF AgreesOK
  <2>2. CASE report.kind = "none"
    <3>1. report'.section = "none"
      BY <1>2, <2>2 DEF StageOK
    <3> QED BY <3>1, AgreesBefore DEF AgreesOK
  <2> QED BY <2>1, <2>2
<1> QED BY <1>1, <1>2, OtherSteps

LEMMA AgreesInit == PerformanceInit => AgreesOK
<1> SUFFICES ASSUME PerformanceInit PROVE AgreesOK
  OBVIOUS
<1>1. report.section = "none"
  BY DEF PerformanceInit, NoReport
<1> QED BY <1>1, AgreesBefore DEF AgreesOK

\* Every breakdown of a report adds up to its totals unless something was
\* committed while it was read (Binance's trades have no symbol); none lacks
\* more trades than were removed with a strategy or an old signal meanwhile,
\* nor more wins than were removed or settled a second time; and its drawdown
\* is the worst fall: for every set of trades and any interleaving with the
\* workers.
THEOREM ReportsAgree == PerformanceSpec => []ReportAgrees
<1> DEFINE Inv == TableOK /\ StageOK /\ TotalsOK /\ AgreesOK
<1>1. PerformanceInit => Inv
  BY TableInit, StageInit, TotalsInit, AgreesInit
<1>2. Inv /\ [PerformanceNext]_performanceVars => Inv'
  BY TableStep, StageStep, TotalsStep, AgreesStep
<1>3. Inv => ReportAgrees
  BY AgreesIsIt
<1> QED BY <1>1, <1>2, <1>3, PTL DEF PerformanceSpec

(* The curves and the daily rows.                                          *)

\* Each element has its rank below a total order.
LEMMA RanksAreAll ==
    ASSUME NEW T, IsFiniteSet(T), NEW below, \A t \in T : below[t] \in SUBSET T /\ t \notin below[t],
           \A s, t \in T : s = t \/ s \in below[t] \/ t \in below[s],
           \A s, t \in T : s \in below[t] => below[s] \subseteq below[t]
    PROVE  /\ Cardinality(T) \in Nat
           /\ \A t \in T : Cardinality(below[t]) \in 0..(Cardinality(T) - 1)
           /\ \A s, t \in T : Cardinality(below[s]) = Cardinality(below[t]) => s = t
           /\ \A i \in 0..(Cardinality(T) - 1) : \E t \in T : Cardinality(below[t]) = i
<1> DEFINE n == Cardinality(T)
           place == [t \in T |-> Cardinality(below[t])]
           N == 0..(n - 1)
<1>1. n \in Nat
  BY FS_CardinalityType
<1>2. \A t \in T : IsFiniteSet(below[t]) /\ place[t] \in Nat
  <2>1. ASSUME NEW t \in T PROVE IsFiniteSet(below[t]) /\ Cardinality(below[t]) \in Nat
    <3>1. IsFiniteSet(below[t])
      BY FS_Subset
    <3> QED BY <3>1, FS_CardinalityType
  <2> QED BY <2>1
<1>3. ASSUME NEW t \in T PROVE place[t] \in N
  <2>1. below[t] \in SUBSET (T \ {t})
    OBVIOUS
  <2>2. IsFiniteSet(T \ {t}) /\ Cardinality(T \ {t}) = n - 1
    BY FS_RemoveElement
  <2>3. Cardinality(below[t]) <= n - 1
    BY <2>1, <2>2, FS_Subset
  <2> QED BY <1>1, <1>2, <2>3
<1>4. ASSUME NEW s \in T, NEW t \in T, s \in below[t]
      PROVE  place[s] < place[t]
  <2>1. below[s] \in SUBSET (below[t] \ {s})
    BY <1>4
  <2>2. IsFiniteSet(below[t] \ {s}) /\ Cardinality(below[t] \ {s}) = Cardinality(below[t]) - 1
    BY <1>2, <1>4, FS_RemoveElement
  <2>3. Cardinality(below[s]) <= Cardinality(below[t]) - 1
    BY <2>1, <2>2, FS_Subset
  <2> QED BY <1>2, <2>3
<1>5. ASSUME NEW s \in T, NEW t \in T, place[s] = place[t]
      PROVE  s = t
  BY <1>2, <1>4, <1>5
<1>6. place \in Injection(T, N)
  <2>1. place \in [T -> N]
    <3>1. place = [t \in T |-> place[t]]
      OBVIOUS
    <3> HIDE DEF place, N
    <3> QED BY <1>3, <3>1
  <2> HIDE DEF place, N
  <2> QED BY <1>5, <2>1 DEF Injection, IsInjective
<1>7. IsFiniteSet(N) /\ Cardinality(N) = n
  <2>1. 0 \in Int /\ n - 1 \in Int
    BY <1>1
  <2>2. IsFiniteSet(N) /\ Cardinality(N) = IF 0 > n - 1 THEN 0 ELSE (n - 1) - 0 + 1
    <3> HIDE DEF n
    <3> QED BY <2>1, FS_Interval
  <2> HIDE DEF n
  <2> QED BY <1>1, <2>2
<1>8. place \in Surjection(T, N)
  <2> HIDE DEF place, N
  <2> QED BY <1>6, <1>7, FS_Injection
<1>9. \A i \in N : \E t \in T : place[t] = i
  <2> HIDE DEF place, N
  <2> QED BY <1>8 DEF Surjection
<1>10. \A t \in T : place[t] = Cardinality(below[t])
  OBVIOUS
<1> HIDE DEF place
<1> QED BY <1>1, <1>3, <1>5, <1>9, <1>10

\* The trades of a curve, each of them once.
LEMMA OrderedIsAll ==
    ASSUME TableOK, NEW T \in SUBSET Trades
    PROVE  /\ Cardinality(T) \in Nat /\ (T # {} => Cardinality(T) >= 1)
           /\ {Ordered(T)[j] : j \in 1..Cardinality(T)} = T
<1> DEFINE n == Cardinality(T)
           below == [t \in T |-> {s \in T : Before(s, t)}]
           At(i) == CHOOSE t \in T : Cardinality({s \in T : Before(s, t)}) = i - 1
<1>1. IsFiniteSet(T)
  BY PerformanceConstants, FS_Subset
<1>2. n \in Nat /\ (T # {} => n >= 1)
  <2>1. n \in Nat /\ (n = 0 <=> T = {})
    BY <1>1, FS_CardinalityType, FS_EmptySet
  <2> HIDE DEF n
  <2> QED BY <2>1
<1>3. \A t \in T : rows[t].executed \in Nat /\ rows[t].created \in Nat /\ t \in Nat
  BY PerformanceConstants DEF TableOK, Instants
<1>4. /\ \A t \in T : ~Before(t, t)
      /\ \A s, t \in T : s = t \/ Before(s, t) \/ Before(t, s)
      /\ \A r, s, t \in T : Before(r, s) /\ Before(s, t) => Before(r, t)
  BY <1>3 DEF Before
<1>5. /\ \A t \in T : below[t] \in SUBSET T /\ t \notin below[t]
      /\ \A s, t \in T : s = t \/ s \in below[t] \/ t \in below[s]
      /\ \A s, t \in T : s \in below[t] => below[s] \subseteq below[t]
  BY <1>4
<1>6. \A t \in T : below[t] = {s \in T : Before(s, t)}
  OBVIOUS
<1> HIDE DEF below
<1>7. /\ \A t \in T : Cardinality(below[t]) \in 0..(n - 1)
      /\ \A s, t \in T : Cardinality(below[s]) = Cardinality(below[t]) => s = t
      /\ \A i \in 0..(n - 1) : \E t \in T : Cardinality(below[t]) = i
  BY <1>1, <1>5, RanksAreAll
<1>8. ASSUME NEW i \in 1..n
      PROVE  At(i) \in T /\ Cardinality(below[At(i)]) = i - 1
  <2>1. i - 1 \in 0..(n - 1)
    BY <1>2
  <2>2. \E t \in T : Cardinality({s \in T : Before(s, t)}) = i - 1
    BY <1>6, <1>7, <2>1
  <2>3. At(i) \in T /\ Cardinality({s \in T : Before(s, At(i))}) = i - 1
    BY <2>2
  <2> HIDE DEF At
  <2> QED BY <1>6, <2>3
<1>9. \A i \in 1..n : Ordered(T)[i] = At(i)
  BY DEF Ordered
<1> HIDE DEF At, n
<1>10. \A t \in T : \E i \in 1..n : Ordered(T)[i] = t
  <2> SUFFICES ASSUME NEW t \in T PROVE \E i \in 1..n : Ordered(T)[i] = t
    OBVIOUS
  <2> DEFINE i == Cardinality(below[t]) + 1
  <2>1. i \in 1..n /\ i - 1 = Cardinality(below[t])
    BY <1>2, <1>7
  <2> HIDE DEF i
  <2>2. Ordered(T)[i] \in T /\ Cardinality(below[Ordered(T)[i]]) = Cardinality(below[t])
    BY <1>8, <1>9, <2>1
  <2> QED BY <1>7, <2>1, <2>2
<1>11. {Ordered(T)[j] : j \in 1..n} = T
  BY <1>8, <1>9, <1>10
<1> QED BY <1>2, <1>11 DEF n

LEMMA CurveEnds ==
    ASSUME TableOK, NEW T \in SUBSET Trades, T # {}
    PROVE  EquityCurve(T)[Cardinality(T)] = Total(Earned, T)
<1>1. Cardinality(T) \in 1..Cardinality(T)
  BY OrderedIsAll
<1>2. EquityCurve(T)[Cardinality(T)] = Total(Earned, {Ordered(T)[j] : j \in 1..Cardinality(T)})
  BY <1>1 DEF EquityCurve
<1> QED BY <1>2, OrderedIsAll

\* The days of a set of trades.
LEMMA DayRange ==
    ASSUME TableOK
    PROVE  /\ Day(LastInstant) \in Nat
           /\ \A t \in Trades : /\ DayDone[t] \in 0..Day(LastInstant)
                                /\ DayMade[t] \in 0..Day(LastInstant)
                                /\ rows[t].status = "CLOSED" => DayMade[t] <= DayDone[t]
<1>1. LastInstant \in Nat
  BY PerformanceConstants
<1>2. \A i \in Instants : Day(i) \in 0..Day(LastInstant)
  <2>1. ASSUME NEW i \in Instants PROVE Day(i) \in 0..Day(LastInstant)
    <3>1. i \in Nat /\ i <= LastInstant
      BY <1>1 DEF Instants
    <3>2. Day(i) \in Nat /\ Day(LastInstant) \in Nat /\ Day(i) <= Day(LastInstant)
      BY <1>1, <3>1, DayGrows
    <3> QED BY <3>2
  <2> QED BY <2>1
<1>3. Day(LastInstant) \in Nat
  BY <1>1, DayGrows
<1>4. \A t \in Trades : rows[t].created \in Instants /\ rows[t].executed \in Instants
  BY DEF TableOK
<1>5. \A t \in Trades : DayDone[t] = Day(rows[t].executed) /\ DayMade[t] = Day(rows[t].created)
  BY DEF DayDone, DayMade
<1>6. ASSUME NEW t \in Trades, rows[t].status = "CLOSED"
      PROVE  DayMade[t] <= DayDone[t]
  <2>1. rows[t].created <= rows[t].executed
    BY <1>6 DEF TableOK, Final
  <2>2. rows[t].created \in Nat /\ rows[t].executed \in Nat
    BY <1>1, <1>4 DEF Instants
  <2>3. Day(rows[t].created) <= Day(rows[t].executed)
    BY <2>1, <2>2, DayGrows
  <2> QED BY <1>5, <2>3
<1> QED BY <1>2, <1>3, <1>4, <1>5, <1>6

LEMMA DailyEnds ==
    ASSUME TableOK, NEW T \in SUBSET Trades, T # {}
    PROVE  \E d \in DOMAIN DailyRows(T) : DailyRows(T)[d].cumulative = Total(Earned, T)
<1> DEFINE K == Present(T, DayDone)
<1>1. K \in SUBSET (0..Day(LastInstant)) /\ K # {} /\ \A t \in T : DayDone[t] \in K
  BY DayRange DEF Present
<1>2. Day(LastInstant) \in Nat
  BY DayRange
<1> HIDE DEF K
<1>3. PICK d \in K : \A o \in K : o <= d
  BY <1>1, <1>2, LargestExists
<1>4. {t \in T : DayDone[t] <= d} = T
  BY <1>1, <1>3
<1>5. DOMAIN DailyRows(T) = K /\ DailyRows(T)[d].cumulative = Total(Earned, {t \in T : DayDone[t] <= d})
  BY DEF DailyRows, K
<1> QED BY <1>4, <1>5

\* The trades of all days up to d.
Upto(g, d) == SumFunction([e \in {e \in DOMAIN g : e <= d} |-> g[e].trades])

LEMMA UptoCounts ==
    ASSUME NEW T \in SUBSET Trades, NEW key, NEW g, DOMAIN g = Present(T, key),
           \A e \in DOMAIN g : g[e].trades = Cardinality({t \in T : key[t] = e}), NEW d
    PROVE  Upto(g, d) = Cardinality({t \in T : key[t] <= d})
<1> DEFINE S == {t \in T : key[t] <= d}
           K == {e \in DOMAIN g : e <= d}
           f == [e \in K |-> g[e].trades]
           part == [e \in K |-> {t \in T : key[t] = e}]
<1>1. IsFiniteSet(S)
  BY PerformanceConstants, FS_Subset
<1>2. IsFiniteSet(K)
  <2>1. IsFiniteSet(DOMAIN g)
    BY PresentGroups
  <2> QED BY <2>1, FS_Subset
<1>3. Grouped(S, key, K, part)
  <2>1. \A t \in S : key[t] \in K
    BY PresentGroups
  <2>2. \A e \in K : part[e] \in SUBSET S /\ \A t \in S : t \in part[e] <=> key[t] = e
    OBVIOUS
  <2> HIDE DEF S, K, part
  <2> QED BY <2>1, <2>2 DEF Grouped
<1>4. \A e \in K : f[e] = Cardinality(part[e])
  OBVIOUS
<1>5. Upto(g, d) = SumFunctionOnSet(f, K)
  <2>1. DOMAIN f = K
    OBVIOUS
  <2> QED BY <2>1 DEF Upto, SumFunction
<1> HIDE DEF S, K, f, part
<1>6. SumFunctionOnSet(f, K) = Cardinality(S)
  BY <1>1, <1>2, <1>3, <1>4, CountByGroup
<1> QED BY <1>5, <1>6 DEF S

(* The views of the results, side by side.                                 *)

\* What each program adds up is the same set of closed trades.
LEMMA ViewedIs ==
    ASSUME TableOK, NEW a
    PROVE  /\ Booked(Final, a, clock) \in SUBSET Trades
           /\ PublicTrades(a) = Booked(Final, a, clock)
           /\ \A m \in Members : MemberTrades(m, a, clock)
                                   = {t \in Booked(Final, a, clock) : Deals[t].owner = m}
           /\ \A t \in Booked(Final, a, clock) : rows[t].status = "CLOSED"
<1> DEFINE B == {t \in Trades : /\ rows[t].status = "CLOSED" /\ a <= rows[t].created
                                /\ rows[t].created <= clock}
<1>1. Booked(Final, a, clock) = B
  BY BookedIs
<1>2. Booked({"CLOSED"}, a, clock) = B
  BY DEF Booked, TableOK
<1>3. PublicTrades(a) = B
  <2>1. \A t \in Trades : rows[t].created <= clock /\ rows[t].created <= LastInstant
    BY PerformanceConstants DEF TableOK, Instants
  <2> QED BY <2>1 DEF PublicTrades, Booked, TableOK
<1>4. \A m : MemberTrades(m, a, clock) = {t \in B : Deals[t].owner = m}
  BY <1>2 DEF MemberTrades
<1> QED BY <1>1, <1>3, <1>4

\* The members' shares add up.
LEMMA SharesAddUp ==
    ASSUME TableOK, NEW T \in SUBSET Trades
    PROVE  SumFunction([m \in Members |-> Total(Earned, {t \in T : Deals[t].owner = m})])
             = Total(Earned, T)
<1> DEFINE part == [m \in Members |-> {t \in T : Deals[t].owner = m}]
           key == [t \in Trades |-> Deals[t].owner]
           f == [m \in Members |-> Total(Earned, {t \in T : Deals[t].owner = m})]
<1>1. IsFiniteSet(T) /\ IsFiniteSet(Members)
  BY PerformanceConstants, FS_Subset
<1>2. \A t \in T : Earned[t] \in Int
  BY TableIsTyped, EarnsType, EarnedIs
<1>3. Grouped(T, key, Members, part)
  <2>1. \A t \in T : key[t] \in Members
    BY PerformanceConstants
  <2> QED BY <2>1 DEF Grouped
<1>4. \A m \in Members : f[m] = SumFunctionOnSet(Earned, part[m])
  BY DEF Total
<1>5. DOMAIN f = Members
  OBVIOUS
<1> HIDE DEF f, part, key
<1>6. SumFunctionOnSet(f, Members) = SumFunctionOnSet(Earned, T)
  BY <1>1, <1>2, <1>3, <1>4, SumByGroup
<1> QED BY <1>5, <1>6 DEF SumFunction, Total, f

\* Members see a trade no sooner than the administrator does.
LEMMA MadeBeforeDone ==
    ASSUME TableOK, NEW T \in SUBSET Trades, \A t \in T : rows[t].status = "CLOSED", NEW d \in Int
    PROVE  Upto(DailyRows(T), d) <= Upto(GroupBy(T, DayMade, Present(T, DayMade)), d)
<1> DEFINE g == DailyRows(T)
           h == GroupBy(T, DayMade, Present(T, DayMade))
           Executed == {t \in T : DayDone[t] <= d}
           MadeThen == {t \in T : DayMade[t] <= d}
<1>0. IsFiniteSet(T)
  BY PerformanceConstants, FS_Subset
<1>1. DOMAIN g = Present(T, DayDone)
      /\ \A e \in DOMAIN g : g[e].trades = Cardinality({t \in T : DayDone[t] = e})
  BY DEF DailyRows
<1>2. DOMAIN h = Present(T, DayMade)
      /\ \A e \in DOMAIN h : h[e].trades = Cardinality({t \in T : DayMade[t] = e})
  BY DEF GroupBy, Figures
<1> HIDE DEF g, h
<1>3. Upto(g, d) = Cardinality(Executed) /\ Upto(h, d) = Cardinality(MadeThen)
  BY <1>1, <1>2, UptoCounts
<1>4. Executed \subseteq MadeThen
  <2> SUFFICES ASSUME NEW t \in Executed PROVE t \in MadeThen
    OBVIOUS
  <2>1. DayDone[t] \in Int /\ DayMade[t] \in Int /\ DayMade[t] <= DayDone[t] /\ DayDone[t] <= d
    BY DayRange
  <2> QED BY <2>1
<1>5. IsFiniteSet(MadeThen)
  BY <1>0, FS_Subset
<1> HIDE DEF Executed, MadeThen
<1>6. Cardinality(Executed) <= Cardinality(MadeThen)
  BY <1>4, <1>5, FS_Subset
<1> QED BY <1>3, <1>6 DEF g, h

LEMMA ViewsAre == TableOK => ViewsAgree
<1> SUFFICES ASSUME TableOK PROVE ViewsAgree
  OBVIOUS
<1> DEFINE since == clock - Period
           admin == Booked(Final, since, clock)
           of == [m \in Members |-> MemberTrades(m, since, clock)]
           public == PublicTrades(since)
           theirs == GroupBy(admin, DayMade, Present(admin, DayMade))
<1>1. /\ admin \in SUBSET Trades /\ public = admin
      /\ \A m \in Members : of[m] = {t \in admin : Deals[t].owner = m}
      /\ \A t \in admin : rows[t].status = "CLOSED"
  <2> HIDE DEF since
  <2> QED BY ViewedIs
<1> HIDE DEF since, admin, public, of
<1>2. Core(admin).pnl = Total(Earned, admin) /\ PublicFigures(public).pnl = Total(Earned, admin)
  BY <1>1 DEF Core, PublicFigures
<1>3. \A m \in Members : MemberFigures(of[m]).pnl = Total(Earned, of[m])
  BY DEF MemberFigures
<1>4. Core(admin).pnl = SumFunction([m \in Members |-> MemberFigures(of[m]).pnl])
  <2>1. [m \in Members |-> MemberFigures(of[m]).pnl]
          = [m \in Members |-> Total(Earned, {t \in admin : Deals[t].owner = m})]
    BY <1>1, <1>3
  <2> QED BY <1>1, <1>2, <2>1, SharesAddUp
<1>5. Core(admin).pnl = PublicFigures(public).pnl
  BY <1>2
<1>6. ASSUME NEW m \in Members, of[m] # {}
      PROVE  /\ EquityCurve(of[m])[Cardinality(of[m])] = MemberFigures(of[m]).pnl
             /\ \E d \in DOMAIN DailyRows(of[m]) :
                  DailyRows(of[m])[d].cumulative = MemberFigures(of[m]).pnl
  <2>1. of[m] \in SUBSET Trades
    BY <1>1
  <2> QED BY <1>3, <1>6, <2>1, CurveEnds, DailyEnds
<1>7. \A d \in 0..Day(LastInstant) : Upto(DailyRows(public), d) <= Upto(theirs, d)
  <2>1. ASSUME NEW d \in 0..Day(LastInstant)
        PROVE  Upto(DailyRows(admin), d) <= Upto(theirs, d)
    <3>1. d \in Int
      BY DayRange
    <3> QED BY <1>1, <3>1, MadeBeforeDone
  <2> QED BY <1>1, <2>1
<1> HIDE DEF theirs
<1> QED BY <1>4, <1>5, <1>6, <1>7 DEF ViewsAgree, Upto, since, admin, public, of, theirs

\* At every moment the administrator's total, the sum of the members' and the
\* figure of the public page are one number, every curve ends at it, and no
\* trade shows at members on an earlier day than at the administrator: for
\* every set of trades and members, whatever the workers commit.
THEOREM AllViewsAgree == PerformanceSpec => []ViewsAgree
<1>1. PerformanceInit => TableOK
  BY TableInit
<1>2. TableOK /\ [PerformanceNext]_performanceVars => TableOK'
  BY TableStep
<1>3. TableOK => ViewsAgree
  BY ViewsAre
<1> QED BY <1>1, <1>2, <1>3, PTL DEF PerformanceSpec
=============================================================================
