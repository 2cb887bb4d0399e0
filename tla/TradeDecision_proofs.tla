------------------------ MODULE TradeDecision_proofs ------------------------
(***************************************************************************)
(* What one strategy makes of one signal, for any prices, wallets, rules   *)
(* and settings.  The execution row and the stage of the attempt keep in   *)
(* step, so that one attempt decides and its refusal is the last word;     *)
(* from that alone, whatever the prices.  Then the numbers: the medians    *)
(* and the normalised prices of a signal stay in order when they are       *)
(* stored, and a planned quantity stays worth its position value until the *)
(* leverage is settled, so that what is ordered is bounded.  Types come    *)
(* last, since they need all of it: a price is a number because the        *)
(* medians and the rounding are.                                           *)
(***************************************************************************)
EXTENDS TradeDecision, FiniteSetTheorems, SequenceTheorems, WellFoundedInduction, TLAPS

Deciding == {"balance", "gates", "size", "reference"}
Ordering == {"leverage", "order"}

\* While nothing is decided there is no row; while leverage and order are on
\* their way the row is PENDING, and the reference was seen between the stop
\* and the target of the signal.
InStep ==
    /\ {"stage", "reference", "quantity", "left", "balance"} \subseteq DOMAIN attempt
    /\ {"status", "quantity"} \subseteq DOMAIN row
    /\ {"side", "entry", "stop", "target", "live"} \subseteq DOMAIN signal
    /\ attempt.stage \in {"idle"} \union Deciding \union Ordering
    /\ attempt.stage \in Deciding => row = NoRow
    /\ attempt.stage \in Ordering => row.status = "PENDING"
    /\ row.status \in {"none", "PENDING", "FAILED", "FILLED"}
    /\ row.status = "none" => row = NoRow
    /\ attempt.stage # "idle" \/ row # NoRow => signal # NoSignal
    /\ signal # NoSignal => signal.side \in Sides
    /\ row.status \in {"PENDING", "FILLED"} => Untriggered(attempt.reference)

LEMMA InStepStart == Init => InStep
<1>1. Idle.stage = "idle" /\ {"stage", "reference", "quantity", "left", "balance"} \subseteq DOMAIN Idle
  BY DEF Idle
<1>2. NoRow.status = "none" /\ {"status", "quantity"} \subseteq DOMAIN NoRow
  BY DEF NoRow
<1>3. {"side", "entry", "stop", "target", "live"} \subseteq DOMAIN NoSignal
  BY DEF NoSignal
<1> QED
  BY <1>1, <1>2, <1>3 DEF Init, InStep, Deciding, Ordering

\* The world changes no row; what it publishes has a side.
LEMMA WorldKeeps == InStep /\ World => InStep'
<1> SUFFICES ASSUME InStep, World PROVE InStep'
  OBVIOUS
<1>1. CASE Generate
  <2>1. signal = NoSignal /\ row = NoRow /\ attempt.stage = "idle" /\ UNCHANGED <<attempt, row>>
    BY <1>1 DEF Generate, InStep
  <2>2. PICK answers, view, s :
           /\ s \in SignalsFrom(answers, view, setting["confidence"])
           /\ signal' = [side |-> s.side, confidence |-> s.confidence, entry |-> s.entry,
                         stop |-> s.stop, target |-> s.target, live |-> TRUE]
    BY <1>1 DEF Generate
  <2>3. s.side \in Sides
    BY <2>2 DEF SignalsFrom, Consensus
  <2>4. signal'.side \in Sides /\ {"side", "entry", "stop", "target", "live"} \subseteq DOMAIN signal'
    BY <2>2, <2>3
  <2>5. signal' # NoSignal
    BY <2>4 DEF NoSignal, Sides
  <2> QED
    BY <2>1, <2>4, <2>5 DEF InStep, NoRow
<1>2. CASE Expire
  <2>1. signal # NoSignal /\ signal' = [signal EXCEPT !.live = FALSE] /\ UNCHANGED <<attempt, row>>
    BY <1>2 DEF Expire, NoSignal
  <2>2. /\ signal'.side = signal.side /\ signal'.stop = signal.stop /\ signal'.target = signal.target
        /\ DOMAIN signal' = DOMAIN signal
    BY <2>1 DEF InStep
  <2>3. signal' # NoSignal
    BY <2>1, <2>2 DEF InStep, NoSignal, Sides
  <2> QED
    BY <2>1, <2>2, <2>3 DEF InStep, Untriggered, Ahead
<1>3. CASE MovePrice \/ SetSetting \/ DeleteSetting
  BY <1>3 DEF InStep, MovePrice, SetSetting, DeleteSetting, Untriggered
<1> QED
  BY <1>1, <1>2, <1>3 DEF World

LEMMA RefuseKeeps == ASSUME InStep, attempt.stage \in Deciding, Refuse, signal' = signal PROVE InStep'
<1>1. Idle.stage = "idle" /\ {"stage", "reference", "quantity", "left", "balance"} \subseteq DOMAIN Idle
  BY DEF Idle
<1>2. Failed.status = "FAILED" /\ {"status", "quantity"} \subseteq DOMAIN Failed
  BY DEF Failed
<1>3. Failed # NoRow
  BY <1>2 DEF NoRow
<1> QED
  BY <1>1, <1>2, <1>3 DEF InStep, Refuse, Deciding, Ordering

LEMMA SessionKeeps == InStep /\ Session => InStep'
<1> SUFFICES ASSUME InStep, Session PROVE InStep'
  OBVIOUS
<1>0. signal' = signal
  BY DEF Session, Attempt, ReadBalance, Gates, Size, CheckReference, LeverageSet, LeverageTooHigh,
         LeverageFails, LadderEnds, PlaceOrder, world
<1>1. CASE Attempt
  <2>1. CASE UNCHANGED <<attempt, row>>
    BY <1>0, <2>1 DEF InStep, Untriggered
  <2>2. CASE \E b, l : attempt' = [Idle EXCEPT !.stage = "balance", !.buys = b, !.least = l] /\ row' = row
    BY <1>0, <1>1, <2>2 DEF InStep, Attempt, Taken, Idle, Deciding, Ordering, NoRow
  <2> QED
    BY <1>1, <2>1, <2>2 DEF Attempt, Proceed
<1>2. CASE ReadBalance
  <2>1. CASE Refuse
    BY <1>0, <1>2, <2>1, RefuseKeeps DEF ReadBalance, Deciding
  <2>2. CASE \E b : attempt' = [attempt EXCEPT !.stage = "gates", !.balance = b] /\ row' = row
    BY <1>0, <1>2, <2>2 DEF InStep, ReadBalance, Deciding, Ordering, NoRow
  <2> QED
    BY <1>2, <2>1, <2>2 DEF ReadBalance, Proceed
<1>3. CASE Gates
  <2>1. CASE Refuse
    BY <1>0, <1>3, <2>1, RefuseKeeps DEF Gates, Deciding
  <2>2. CASE attempt' = [attempt EXCEPT !.stage = "size"] /\ row' = row
    BY <1>0, <1>3, <2>2 DEF InStep, Gates, Deciding, Ordering, NoRow
  <2> QED
    BY <1>3, <2>1, <2>2 DEF Gates, Proceed
<1>4. CASE Size
  <2>1. CASE Refuse
    BY <1>0, <1>4, <2>1, RefuseKeeps DEF Size, Deciding
  <2>2. CASE \E n : attempt' = [attempt EXCEPT !.stage = "reference", !.quantity = n] /\ row' = row
    BY <1>0, <1>4, <2>2 DEF InStep, Size, Deciding, Ordering, NoRow
  <2> QED
    BY <1>4, <2>1, <2>2 DEF Size, Proceed
<1>5. CASE CheckReference
  <2>1. CASE Refuse
    BY <1>0, <1>5, <2>1, RefuseKeeps DEF CheckReference, Deciding
  <2>2. ASSUME NEW p, Untriggered(p), row' = [status |-> "PENDING", quantity |-> attempt.quantity, leverage |-> profile.leverage],
               attempt' = [attempt EXCEPT !.stage = "leverage", !.reference = p, !.left = Ladder]
        PROVE  InStep'
    <3>1. attempt'.stage = "leverage" /\ attempt'.reference = p /\ DOMAIN attempt' = DOMAIN attempt
      BY <2>2 DEF InStep
    <3>2. row'.status = "PENDING" /\ {"status", "quantity"} \subseteq DOMAIN row' /\ row' # NoRow
      BY <2>2 DEF NoRow
    <3>3. signal # NoSignal
      BY <1>5 DEF CheckReference, InStep
    <3> QED
      BY <1>0, <2>2, <3>1, <3>2, <3>3 DEF InStep, Untriggered, Ahead, Deciding, Ordering
  <2> QED
    BY <1>5, <2>1, <2>2 DEF CheckReference
<1>6. ASSUME attempt.stage = "leverage",
             \/ \E a : Believe(a)
             \/ NextRung,
             row' = row
      PROVE  InStep'
  <2>1. /\ attempt'.stage \in Ordering /\ attempt'.reference = attempt.reference
        /\ DOMAIN attempt' = DOMAIN attempt
    BY <1>6 DEF InStep, Believe, NextRung, Ordering
  <2> QED
    BY <1>0, <1>6, <2>1 DEF InStep, Untriggered, Ahead, Deciding, Ordering, NoRow
<1>7. CASE LeverageSet \/ LeverageTooHigh \/ LeverageFails \/ LadderEnds
  <2>1. attempt.stage = "leverage" /\ row' = row /\ (NextRung \/ \E a : Believe(a))
    <3>1. CASE LeverageSet
      BY <3>1 DEF LeverageSet
    <3>2. CASE LeverageTooHigh
      BY <3>2 DEF LeverageTooHigh
    <3>3. CASE LeverageFails
      BY <3>3 DEF LeverageFails
    <3>4. CASE LadderEnds
      BY <3>4 DEF LadderEnds
    <3> QED
      BY <1>7, <3>1, <3>2, <3>3, <3>4
  <2> QED
    BY <1>6, <2>1
<1>8. CASE PlaceOrder
  <2>1. attempt' = [attempt EXCEPT !.stage = "idle"] /\ row.status = "PENDING"
    BY <1>8 DEF PlaceOrder, InStep, Ordering
  <2>2. attempt'.stage = "idle" /\ attempt'.reference = attempt.reference /\ DOMAIN attempt' = DOMAIN attempt
    BY <2>1 DEF InStep
  <2>3. row'.status \in {"FILLED", "FAILED"} /\ DOMAIN row' = DOMAIN row
    BY <1>8 DEF PlaceOrder, InStep
  <2>4. signal # NoSignal /\ row' # NoRow
    BY <2>1, <2>3 DEF InStep, NoRow
  <2> QED
    BY <1>0, <2>1, <2>2, <2>3, <2>4 DEF InStep, Untriggered, Ahead, Deciding, Ordering
<1> QED
  BY <1>1, <1>2, <1>3, <1>4, <1>5, <1>7, <1>8 DEF Session

LEMMA InStepInvariant == Spec => []InStep
<1>1. InStep /\ UNCHANGED vars => InStep'
  BY DEF InStep, vars, Untriggered
<1>2. InStep /\ [Next]_vars => InStep'
  BY <1>1, WorldKeeps, SessionKeeps DEF Next
<1> QED
  BY <1>2, InStepStart, PTL DEF Spec

\* A refusal is final: whatever settings, price and wallet become, the
\* strategy does not come back to a signal it has a FAILED execution for
\* (execute_signal counts its executions whatever their status).
THEOREM RefusedForGood == Spec => RefusalIsFinal
<1>1. InStep /\ [Next]_vars => [row.status = "FAILED" => row' = row]_vars
  <2> SUFFICES ASSUME InStep, Next, row.status = "FAILED" PROVE row' = row
    BY DEF vars
  <2>1. attempt.stage = "idle" /\ row # NoRow
    BY DEF InStep, Deciding, Ordering, NoRow
  <2> QED
    BY <2>1 DEF Next, World, Session, Attempt, Taken, ReadBalance, Gates, Size, CheckReference, LeverageSet,
                LeverageTooHigh, LeverageFails, LadderEnds, PlaceOrder, Generate, MovePrice, Expire,
                SetSetting, DeleteSetting
<1> QED
  BY <1>1, InStepInvariant, PTL DEF Spec, RefusalIsFinal

\* Whatever the market does between analysis, check and order, the price the
\* attempt has checked last lies between stop and target of the signal
\* (_validate_tpsl_prices).
THEOREM ReferenceBracketed ==
    Spec => [](row.status \in {"PENDING", "FILLED"} => Between(attempt.reference))
<1>1. InStep => (row.status \in {"PENDING", "FILLED"} => Between(attempt.reference))
  BY DEF InStep, Untriggered, Ahead, Between, Sides, NoRow
<1> QED
  BY <1>1, InStepInvariant, PTL

----------------------------------------------------------------------------
(* Order statistics: a median of whole numbers is one. *)

LEMMA Floored ==
    ASSUME NEW x \in Int, NEW y \in Nat \ {0}
    PROVE  /\ x \div y \in Int
           /\ y * (x \div y) <= x
           /\ x < y * (x \div y) + y
OBVIOUS

\* Strictly smaller sets of indices cannot go on for ever, so that a finite
\* family of numbers has a least one.
LEMMA LeastValue ==
    ASSUME NEW D, IsFiniteSet(D), D # {}, NEW f, \A i \in D : f[i] \in Int
    PROVE  \E a \in D : \A i \in D : f[a] <= f[i]
<1> DEFINE below(i) == {j \in D : f[j] < f[i]}
<1> DEFINE T == {below(i) : i \in D}
<1>1. T # {} /\ T \subseteq FiniteSubsetsOf(D)
  <2>1. \A i \in D : below(i) \in SUBSET D
    OBVIOUS
  <2> HIDE DEF below
  <2> QED BY <2>1, FS_Subset DEF FiniteSubsetsOf
<1>2. PICK x \in T : \A y \in T : ~(<<y, x>> \in StrictSubsetOrdering(D))
  <2>1. IsWellFoundedOn(StrictSubsetOrdering(D), FiniteSubsetsOf(D))
    BY FS_StrictSubsetOrderingWellFounded
  <2> HIDE DEF T
  <2> QED BY <1>1, <2>1, WFMin
<1>3. PICK a \in D : x = below(a)
  BY <1>2
<1>4. ASSUME NEW i \in D, f[i] < f[a] PROVE FALSE
  <2>1. below(i) \subseteq below(a) /\ below(i) # below(a)
    BY <1>4
  <2>2. <<below(i), below(a)>> \in StrictSubsetOrdering(D)
    <3>1. below(i) \in SUBSET D /\ below(a) \in SUBSET D
      OBVIOUS
    <3> HIDE DEF below
    <3> QED BY <2>1, <3>1 DEF StrictSubsetOrdering
  <2>3. below(i) \in T
    OBVIOUS
  <2> QED BY <1>2, <1>3, <2>2, <2>3
<1> QED BY <1>4

LEMMA GreatestValue ==
    ASSUME NEW D, IsFiniteSet(D), D # {}, NEW f, \A i \in D : f[i] \in Int
    PROVE  \E a \in D : \A i \in D : f[i] <= f[a]
<1> DEFINE g == [i \in D |-> -f[i]]
<1>1. \A i \in D : g[i] \in Int
  OBVIOUS
<1>2. PICK a \in D : \A i \in D : g[a] <= g[i]
  <2> HIDE DEF g
  <2> QED BY <1>1, LeastValue
<1> QED BY <1>2

\* There is a k-th smallest price, and KthPrice is one of the prices.
LEMMA KthIsAPrice ==
    ASSUME NEW prices, IsFiniteSet(DOMAIN prices), \A i \in DOMAIN prices : prices[i] \in Nat,
           NEW k \in Nat \ {0}, k <= Cardinality(DOMAIN prices)
    PROVE  KthPrice(prices, k) \in Nat
<1> DEFINE D == DOMAIN prices
           upto(p) == {i \in D : prices[i] <= p}
           less(p) == {i \in D : prices[i] < p}
           enough == {a \in D : Cardinality(upto(prices[a])) >= k}
<1>1. \A S \in SUBSET D : IsFiniteSet(S) /\ Cardinality(S) \in Nat
  BY FS_Subset, FS_CardinalityType
<1>2. D # {}
  BY FS_EmptySet
<1>3. PICK m \in D : \A i \in D : prices[i] <= prices[m]
  BY <1>2, GreatestValue
<1>4. enough # {} /\ IsFiniteSet(enough)
  <2>1. upto(prices[m]) = D
    BY <1>3
  <2>2. m \in enough
    BY <2>1
  <2>3. enough \in SUBSET D
    OBVIOUS
  <2> HIDE DEF enough, D
  <2> QED BY <1>1, <2>2, <2>3
<1>5. PICK q \in enough : \A i \in enough : prices[q] <= prices[i]
  <2>1. \A i \in enough : prices[i] \in Int
    OBVIOUS
  <2> HIDE DEF enough
  <2> QED BY <1>4, <2>1, LeastValue
<1>6. Cardinality(less(prices[q])) < k
  <2> SUFFICES ASSUME Cardinality(less(prices[q])) >= k PROVE FALSE
    <3>1. less(prices[q]) \in SUBSET D
      OBVIOUS
    <3> HIDE DEF less, D, enough
    <3> QED BY <1>1, <3>1
  <2>1. less(prices[q]) # {} /\ IsFiniteSet(less(prices[q]))
    <3>1. less(prices[q]) \in SUBSET D
      OBVIOUS
    <3> HIDE DEF less, D, enough
    <3> QED BY <1>1, <3>1, FS_EmptySet
  <2>2. \A i \in less(prices[q]) : prices[i] \in Int
    OBVIOUS
  <2>3. PICK r \in less(prices[q]) : \A i \in less(prices[q]) : prices[i] <= prices[r]
    <3> HIDE DEF less
    <3> QED BY <2>1, <2>2, GreatestValue
  <2>4. less(prices[q]) \subseteq upto(prices[r]) /\ upto(prices[r]) \in SUBSET D
    BY <2>3
  <2>5. /\ Cardinality(less(prices[q])) <= Cardinality(upto(prices[r]))
        /\ Cardinality(less(prices[q])) \in Nat /\ Cardinality(upto(prices[r])) \in Nat
    <3> HIDE DEF less, upto, D
    <3> QED BY <1>1, <2>4, FS_Subset
  <2>6. r \in enough
    <3>1. r \in D
      OBVIOUS
    <3> HIDE DEF less, upto, D
    <3> QED BY <2>5, <3>1
  <2> QED BY <1>5, <2>3, <2>6
<1>7. \E p \in {prices[i] : i \in D} :
        Cardinality(less(p)) < k /\ Cardinality(upto(p)) >= k
  BY <1>5, <1>6
<1>8. KthPrice(prices, k) \in {prices[i] : i \in D}
  BY <1>7 DEF KthPrice
<1> QED BY <1>8

LEMMA MedianIsWhole ==
    ASSUME NEW answers, NEW agree, IsFiniteSet(agree), NEW field,
           \A i \in agree : answers[i][field] \in Nat
    PROVE  MedianPrice(answers, agree, field) \in Nat
<1> DEFINE known == [i \in {j \in agree : answers[j][field] > 0} |-> answers[i][field]]
           n == Cardinality(DOMAIN known)
<1>1. IsFiniteSet(DOMAIN known) /\ n \in Nat
  BY FS_Subset, FS_CardinalityType
<1>2. \A i \in DOMAIN known : known[i] \in Nat
  OBVIOUS
<1>3. CASE n = 0
  BY <1>3 DEF MedianPrice
<1>4. CASE n # 0
  <2> DEFINE low == KthPrice(known, (n + 1) \div 2)
             high == KthPrice(known, (n + 2) \div 2)
  <2>1. /\ (n + 1) \div 2 \in Nat \ {0} /\ (n + 1) \div 2 <= n
        /\ (n + 2) \div 2 \in Nat \ {0} /\ (n + 2) \div 2 <= n
    <3> HIDE DEF n
    <3> QED BY <1>1, <1>4
  <2>2. low \in Nat /\ high \in Nat
    <3> HIDE DEF known
    <3> QED BY <1>1, <1>2, <2>1, KthIsAPrice
  <2>3. MedianPrice(answers, agree, field) = (low + high) \div 2
    BY <1>4 DEF MedianPrice
  <2> HIDE DEF low, high
  <2> QED BY <2>2, <2>3
<1> QED BY <1>3, <1>4

----------------------------------------------------------------------------
(* The prices of a signal. *)

\* Exchanges quote whole grains: at most eight decimals.
WholeQuotes == \A v \in Views : v.reference % Grain = 0

LEMMA StoredNear ==
    ASSUME NEW p \in Int
    PROVE  \E k \in Int : /\ Stored(p) = k * Grain
                          /\ 2 * (k * Grain) <= 2 * p + Grain
                          /\ 2 * p - Grain < 2 * (k * Grain)
<1> DEFINE k == (2 * p + Grain) \div (2 * Grain)
<1>1. Grain \in Nat \ {0}
  BY GrainIsPositive
<1>2. /\ k \in Int
      /\ (2 * Grain) * k <= 2 * p + Grain
      /\ 2 * p + Grain < (2 * Grain) * k + 2 * Grain
  <2>1. 2 * p + Grain \in Int /\ 2 * Grain \in Nat \ {0}
    BY <1>1
  <2> QED BY <2>1, Floored
<1>3. Stored(p) = k * Grain
  BY DEF Stored
<1> HIDE DEF k
<1>4. (2 * Grain) * k = 2 * (k * Grain)
  BY <1>1, <1>2
<1>5. k * Grain \in Int
  BY <1>1, <1>2
<1> QED BY <1>1, <1>2, <1>3, <1>4, <1>5

\* Multiples of a grain that differ, differ by a grain.
LEMMA GrainsApart ==
    ASSUME NEW j \in Int, NEW k \in Int, j * Grain < k * Grain
    PROVE  j * Grain + Grain <= k * Grain
<1>1. Grain \in Nat \ {0}
  BY GrainIsPositive
<1>2. j < k
  <2> SUFFICES ASSUME k <= j PROVE FALSE
    OBVIOUS
  <2>1. (j - k) * Grain >= 0
    BY <1>1
  <2>2. (j - k) * Grain = j * Grain - k * Grain
    BY <1>1
  <2> QED BY <1>1, <2>1, <2>2
<1>3. (k - j - 1) * Grain >= 0
  BY <1>1, <1>2
<1>4. (k - j - 1) * Grain = k * Grain - j * Grain - Grain
  BY <1>1
<1> QED BY <1>1, <1>3, <1>4

LEMMA WholeIsStored == ASSUME NEW k \in Int PROVE Stored(k * Grain) = k * Grain
<1>1. Grain \in Nat \ {0} /\ k * Grain \in Int
  BY GrainIsPositive
<1>2. PICK j \in Int : /\ Stored(k * Grain) = j * Grain
                       /\ 2 * (j * Grain) <= 2 * (k * Grain) + Grain
                       /\ 2 * (k * Grain) - Grain < 2 * (j * Grain)
  BY <1>1, StoredNear
<1>3. j * Grain \in Int
  BY <1>1
<1>4. ~(j * Grain < k * Grain) /\ ~(k * Grain < j * Grain)
  <2>1. CASE j * Grain < k * Grain
    BY <2>1, <1>1, <1>2, <1>3, GrainsApart
  <2>2. CASE k * Grain < j * Grain
    BY <2>2, <1>1, <1>2, <1>3, GrainsApart
  <2> QED BY <2>1, <2>2
<1> QED BY <1>1, <1>2, <1>3, <1>4

\* Levels that are stacked, with a stop within its bounds and two and a half
\* times the risk to win, stay so when they are rounded to grains: a stop within
\* two percent is at least a grain away from at least fifty grains.
LEMMA RoundingKeepsOrder ==
    ASSUME NEW side \in Sides, NEW k \in Int, NEW e \in Int, e = k * Grain, NEW s \in Int, NEW t \in Int,
           Stacked(side, e, s, t), StopInBounds(e, s), 2 * Gap(t, e) >= 5 * Gap(e, s),
           StopInBounds(e, Stored(s))
    PROVE  /\ Ahead(side, Stored(s), e) /\ Ahead(side, e, Stored(t))
           /\ 2 * (Gap(Stored(t), e) + Grain) >= 5 * (Gap(e, Stored(s)) - Grain)
<1>1. Grain \in Nat \ {0}
  BY GrainIsPositive
<1>2. PICK j \in Int : /\ Stored(s) = j * Grain
                       /\ 2 * (j * Grain) <= 2 * s + Grain
                       /\ 2 * s - Grain < 2 * (j * Grain)
  BY StoredNear
<1>3. PICK m \in Int : /\ Stored(t) = m * Grain
                       /\ 2 * (m * Grain) <= 2 * t + Grain
                       /\ 2 * t - Grain < 2 * (m * Grain)
  BY StoredNear
<1>4. /\ j * Grain < e => j * Grain + Grain <= e
      /\ e < j * Grain => e + Grain <= j * Grain
      /\ j * Grain \in Int /\ m * Grain \in Int
  BY <1>1, GrainsApart
<1> DEFINE S == j * Grain
           T == m * Grain
<1>5. /\ S \in Int /\ T \in Int /\ Stored(s) = S /\ Stored(t) = T
      /\ S < e => S + Grain <= e
      /\ e < S => e + Grain <= S
      /\ 2 * S <= 2 * s + Grain /\ 2 * s - Grain < 2 * S
      /\ 2 * T <= 2 * t + Grain /\ 2 * t - Grain < 2 * T
  BY <1>2, <1>3, <1>4
<1> HIDE DEF S, T
<1>6. /\ e > 0
      /\ 50 * e <= 10000 * Gap(e, S) /\ 10000 * Gap(e, S) <= 200 * e
      /\ 50 * e <= 10000 * Gap(e, s)
  BY <1>5 DEF Stacked, StopInBounds, MinStop, MaxStop
<1>7. CASE side = "BUY"
  <2>1. s < e /\ e < t
    BY <1>7 DEF Stacked, Ahead
  <2>2. S < e
    BY <1>1, <1>5, <1>6, <2>1 DEF Gap
  <2>3. e < T
    BY <1>1, <1>5, <1>6, <2>1, <2>2 DEF Gap
  <2>4. 2 * (Gap(T, e) + Grain) >= 5 * (Gap(e, S) - Grain)
    BY <1>1, <1>5, <2>1, <2>2, <2>3 DEF Gap
  <2> QED BY <1>5, <1>7, <2>2, <2>3, <2>4 DEF Ahead
<1>8. CASE side = "SELL"
  <2>1. e < s /\ t < e
    BY <1>8 DEF Stacked, Ahead
  <2>2. e < S
    BY <1>1, <1>5, <1>6, <2>1 DEF Gap
  <2>3. T < e
    BY <1>1, <1>5, <1>6, <2>1, <2>2 DEF Gap
  <2>4. 2 * (Gap(T, e) + Grain) >= 5 * (Gap(e, S) - Grain)
    BY <1>1, <1>5, <2>1, <2>2, <2>3 DEF Gap
  <2> QED BY <1>5, <1>8, <2>2, <2>3, <2>4 DEF Ahead
<1> QED BY <1>7, <1>8 DEF Sides

LEMMA PaddingIsWhole ==
    ASSUME NEW entry \in Nat, NEW atr \in Nat PROVE Padding(entry, atr) \in Int
<1>1. entry * (IF (IF atr > 0 THEN atr ELSE 100) < MinStop THEN MinStop
               ELSE IF (IF atr > 0 THEN atr ELSE 100) > MaxStop THEN MaxStop
               ELSE (IF atr > 0 THEN atr ELSE 100)) \in Int
  BY DEF MinStop, MaxStop
<1> QED BY <1>1, Floored DEF Padding

LEMMA StopIsWhole ==
    ASSUME NEW side \in Sides, NEW entry \in Nat, NEW suggested \in Nat, NEW level \in Nat, NEW pad \in Int
    PROVE  StopFor(side, entry, suggested, level, pad) \in Int
BY DEF StopFor, Further, Sides

\* The target is two and a half times the risk away, or further.
LEMMA TargetIsFar ==
    ASSUME NEW side \in Sides, NEW entry \in Nat, NEW stop \in Int, NEW suggested \in Nat, NEW level \in Nat,
           Ahead(side, stop, entry)
    PROVE  LET target == TargetFor(side, entry, stop, suggested, level)
           IN  target \in Int /\ 2 * Gap(target, entry) >= 5 * Gap(entry, stop)
<1> DEFINE risk == Gap(entry, stop)
           by == (MinRatio * risk + 99) \div 100
           least == Further(side, entry, by)
           target == TargetFor(side, entry, stop, suggested, level)
<1>1. risk \in Nat
  BY DEF Gap
<1>2. by \in Int /\ 2 * by >= 5 * risk
  <2> HIDE DEF risk
  <2>1. MinRatio * risk + 99 \in Int /\ MinRatio = 250
    BY <1>1 DEF MinRatio
  <2>2. by \in Int /\ 100 * by <= 250 * risk + 99 /\ 250 * risk + 99 < 100 * by + 100
    BY <1>1, <2>1, Floored
  <2> QED BY <1>1, <2>2
<1> HIDE DEF by
<1>3. least \in Int /\ (target = least \/ (target \in Nat /\ ~Ahead(side, target, least)))
  <2>1. target = IF suggested > 0 /\ ~Ahead(side, suggested, least) THEN suggested
                 ELSE IF level > 0 /\ Ahead(side, least, level) THEN level ELSE least
    BY DEF TargetFor, by
  <2>2. least \in Int
    BY <1>2 DEF Further, Sides
  <2> HIDE DEF target, least
  <2> QED BY <2>1, <2>2 DEF Ahead, Sides
<1>4. target \in Int /\ 2 * Gap(target, entry) >= 5 * risk
  <2> HIDE DEF risk, target
  <2> QED BY <1>1, <1>2, <1>3 DEF Gap, Further, Ahead, Sides
<1> QED BY <1>4

\* What survives the normalisation of a suggestion.
Sound(side, l) ==
    /\ l.entry \in Nat /\ l.stop \in Int /\ l.target \in Int
    /\ Stacked(side, l.entry, l.stop, l.target)
    /\ StopInBounds(l.entry, l.stop)
    /\ 2 * Gap(l.target, l.entry) >= 5 * Gap(l.entry, l.stop)

LEMMA NormalisedIsSound ==
    ASSUME NEW side \in Sides, NEW view \in Views, NEW drafted,
           drafted.entry \in Nat, drafted.stop \in Nat, drafted.target \in Nat,
           NEW l \in Normalised(side, view, drafted)
    PROVE  Sound(side, l) /\ l.entry \in {drafted.entry, view.reference}
<1> DEFINE entry == EntryNear(drafted.entry, view.reference)
           stop == StopFor(side, entry, drafted.stop,
                           IF side = "BUY" THEN view.support15 ELSE view.resistance15,
                           Padding(entry, view.atr))
           target == TargetFor(side, entry, stop, drafted.target,
                               IF side = "BUY" THEN view.resistance ELSE view.support)
<1>1. /\ view.reference \in Nat /\ view.atr \in Nat
      /\ view.support15 \in Nat /\ view.resistance15 \in Nat
      /\ view.support \in Nat /\ view.resistance \in Nat
  <2>1. \A q \in Quotes : view[q] \in Nat
    BY DecisionConstants
  <2> QED BY <2>1 DEF Quotes
<1>2. entry \in Nat /\ entry \in {drafted.entry, view.reference}
  BY <1>1 DEF EntryNear
<1>3. stop \in Int
  <2> HIDE DEF entry
  <2>1. Padding(entry, view.atr) \in Int
    BY <1>1, <1>2, PaddingIsWhole
  <2> QED BY <1>1, <1>2, <2>1, StopIsWhole
<1>4. /\ l = [entry |-> entry, stop |-> stop, target |-> target]
      /\ Stacked(side, entry, stop, target) /\ StopInBounds(entry, stop)
  BY DEF Normalised
<1> HIDE DEF entry, stop
<1>5. target \in Int /\ 2 * Gap(target, entry) >= 5 * Gap(entry, stop)
  <2>1. Ahead(side, stop, entry)
    BY <1>4 DEF Stacked
  <2> QED BY <1>1, <1>2, <1>3, <2>1, TargetIsFar
<1> HIDE DEF target
<1> QED BY <1>2, <1>3, <1>4, <1>5 DEF Sound

LEMMA StoredIsWhole ==
    ASSUME NEW p \in Int
    PROVE  /\ Stored(p) \in Int /\ \E k \in Int : Stored(p) = k * Grain
           /\ p >= 0 => Stored(p) \in Nat
<1>1. Grain \in Nat \ {0}
  BY GrainIsPositive
<1>2. PICK k \in Int : /\ Stored(p) = k * Grain
                       /\ 2 * (k * Grain) <= 2 * p + Grain
                       /\ 2 * p - Grain < 2 * (k * Grain)
  BY StoredNear
<1>3. k * Grain \in Int
  BY <1>1
<1>4. ASSUME p >= 0 PROVE ~(k * Grain < 0)
  <2>1. 0 * Grain = 0
    BY <1>1
  <2> SUFFICES ASSUME k * Grain < 0 * Grain PROVE FALSE
    BY <2>1
  <2>2. k * Grain + Grain <= 0 * Grain
    BY GrainsApart
  <2> QED BY <1>1, <1>2, <1>3, <1>4, <2>1, <2>2
<1> QED BY <1>2, <1>3, <1>4

\* The models' answers end in whole prices, each a number of grains.
LEMMA DraftIsWhole ==
    ASSUME NEW answers \in [1..Cardinality(Models) -> Answers \union {Missing}],
           NEW side, NEW move
    PROVE  LET drafted == Aggregated(answers, side, move)
           IN  \A field \in {"entry", "stop", "target"} :
                 drafted[field] \in Nat /\ \E k \in Int : drafted[field] = k * Grain
<1> DEFINE agree == Saying(answers, side)
           level(field) == Stored(MedianPrice(answers, agree, field))
           drafted == Aggregated(answers, side, move)
<1>1. IsFiniteSet(agree)
  <2>1. IsFiniteSet(1..Cardinality(Models))
    BY DecisionConstants, FS_CardinalityType, FS_Interval
  <2>2. agree \in SUBSET (1..Cardinality(Models))
    BY DEF Saying, Valid
  <2> HIDE DEF agree
  <2> QED BY <2>1, <2>2, FS_Subset
<1>2. ASSUME NEW field \in {"entry", "stop", "target"}
      PROVE  MedianPrice(answers, agree, field) \in Nat
  <2>1. \A i \in agree : answers[i] \in Answers
    BY DEF Saying, Valid
  <2>2. \A a \in Answers : a[field] \in Nat
    <3>1. ASSUME NEW a \in Answers PROVE a.entry \in Nat /\ a.stop \in Nat /\ a.target \in Nat
      BY DecisionConstants
    <3> QED BY <3>1
  <2>3. \A i \in agree : answers[i][field] \in Nat
    <3> HIDE DEF agree
    <3> QED BY <2>1, <2>2
  <2> HIDE DEF agree
  <2> QED BY <1>1, <2>3, MedianIsWhole
<1>3. \A field \in {"entry", "stop", "target"} : drafted[field] = level(field)
  BY DEF Aggregated
<1>4. ASSUME NEW field \in {"entry", "stop", "target"}
      PROVE  drafted[field] \in Nat /\ \E k \in Int : drafted[field] = k * Grain
  <2> HIDE DEF drafted, agree
  <2>1. drafted[field] = Stored(MedianPrice(answers, agree, field))
    BY <1>3
  <2>2. MedianPrice(answers, agree, field) \in Nat
    BY <1>2
  <2> QED BY <2>1, <2>2, StoredIsWhole
<1> QED BY <1>4

LEMMA WholeQuote ==
    ASSUME WholeQuotes, NEW view \in Views
    PROVE  \E k \in Int : view.reference = k * Grain
<1>1. view.reference \in Nat /\ Grain \in Nat \ {0}
  BY DecisionConstants, GrainIsPositive DEF Quotes
<1>2. view.reference % Grain = 0
  BY DEF WholeQuotes
<1>3. view.reference = Grain * (view.reference \div Grain)
  BY <1>1, <1>2
<1>4. view.reference \div Grain \in Int
  BY <1>1, Floored
<1>5. Grain * (view.reference \div Grain) = (view.reference \div Grain) * Grain
  BY <1>1, <1>4
<1> QED BY <1>3, <1>4, <1>5

\* A signal comes from a sound suggestion, rounded, whose stop is still in its bounds.
LEMMA SignalsAreSound ==
    ASSUME NEW answers \in [1..Cardinality(Models) -> Answers \union {Missing}],
           NEW view \in Views, NEW threshold,
           NEW s \in SignalsFrom(answers, view, threshold)
    PROVE  /\ s.side \in Sides
           /\ s.entry > 0 /\ s.stop > 0 /\ s.target > 0
           /\ StopInBounds(s.entry, s.stop)
           /\ \E l : /\ Sound(s.side, l)
                     /\ s.entry = Stored(l.entry) /\ s.stop = Stored(l.stop)
                     /\ s.target = Stored(l.target)
                     /\ WholeQuotes => \E k \in Int : l.entry = k * Grain
<1>1. PICK side \in Consensus(answers) :
        \E l \in Normalised(side, view, Aggregated(answers, side, view.move)) :
             /\ s.side = side /\ s.entry = Stored(l.entry)
             /\ s.stop = Stored(l.stop) /\ s.target = Stored(l.target)
  BY DEF SignalsFrom
<1>9. PICK l \in Normalised(side, view, Aggregated(answers, side, view.move)) :
             /\ s.side = side /\ s.entry = Stored(l.entry)
             /\ s.stop = Stored(l.stop) /\ s.target = Stored(l.target)
  BY <1>1
<1>2. side \in Sides
  BY DEF Consensus
<1> DEFINE drafted == Aggregated(answers, side, view.move)
<1>3. \A field \in {"entry", "stop", "target"} :
        drafted[field] \in Nat /\ \E k \in Int : drafted[field] = k * Grain
  BY DraftIsWhole
<1> HIDE DEF drafted
<1>4. drafted.entry \in Nat /\ drafted.stop \in Nat /\ drafted.target \in Nat
  BY <1>3
<1>5. \E k \in Int : drafted.entry = k * Grain
  BY <1>3
<1>6. Sound(side, l) /\ l.entry \in {drafted.entry, view.reference}
  <2>1. l \in Normalised(side, view, drafted)
    BY DEF drafted
  <2> QED BY <1>2, <1>4, <2>1, NormalisedIsSound
<1>7. WholeQuotes => \E k \in Int : l.entry = k * Grain
  BY <1>5, <1>6, WholeQuote
<1>8. /\ s.entry > 0 /\ s.stop > 0 /\ s.target > 0
      /\ StopInBounds(s.entry, s.stop)
  BY DEF SignalsFrom
<1> QED BY <1>2, <1>6, <1>7, <1>8, <1>9

----------------------------------------------------------------------------
(* What is published. *)

\* The levels of a signal are numbers, with the stop between half a percent and
\* two percent away from the entry.
LevelsOK ==
    signal # NoSignal =>
        /\ signal.entry \in Nat \ {0} /\ signal.stop \in Nat \ {0} /\ signal.target \in Nat \ {0}
        /\ StopInBounds(signal.entry, signal.stop)

\* What Generate publishes, and nothing changes afterwards but live.
LEMMA LevelsStep ==
    ASSUME InStep, [Next]_vars
    PROVE  /\ LevelsOK => LevelsOK'
           /\ WholeQuotes /\ PublishedPrices => PublishedPrices'
<1>1. CASE Generate
  <2>0. PICK answers \in [1..Cardinality(Models) -> Answers \union {Missing}], view \in Views :
          \E s \in SignalsFrom(answers, view, setting["confidence"]) :
            signal' = [side |-> s.side, confidence |-> s.confidence, entry |-> s.entry,
                       stop |-> s.stop, target |-> s.target, live |-> TRUE]
    BY <1>1 DEF Generate
  <2>1. PICK s \in SignalsFrom(answers, view, setting["confidence"]) :
          signal' = [side |-> s.side, confidence |-> s.confidence, entry |-> s.entry,
                     stop |-> s.stop, target |-> s.target, live |-> TRUE]
    BY <2>0
  <2>2. /\ s.side \in Sides
        /\ s.entry > 0 /\ s.stop > 0 /\ s.target > 0
        /\ StopInBounds(s.entry, s.stop)
    BY SignalsAreSound
  <2>3. PICK l : /\ Sound(s.side, l)
                 /\ s.entry = Stored(l.entry) /\ s.stop = Stored(l.stop)
                 /\ s.target = Stored(l.target)
                 /\ WholeQuotes => \E k \in Int : l.entry = k * Grain
    BY SignalsAreSound
  <2>4. l.entry \in Int /\ l.stop \in Int /\ l.target \in Int
    BY <2>3 DEF Sound
  <2>5. s.entry \in Int /\ s.stop \in Int /\ s.target \in Int
    BY <2>3, <2>4, StoredIsWhole
  <2>6. /\ signal'.side = s.side /\ signal'.entry = s.entry
        /\ signal'.stop = s.stop /\ signal'.target = s.target
    BY <2>1
  <2>7. LevelsOK'
    BY <2>2, <2>5, <2>6 DEF LevelsOK
  <2>8. ASSUME WholeQuotes PROVE PublishedPrices'
    <3>1. PICK k \in Int : l.entry = k * Grain
      BY <2>3, <2>8
    <3>2. s.entry = l.entry
      BY <2>3, <3>1, WholeIsStored
    <3>3. /\ Ahead(s.side, s.stop, s.entry) /\ Ahead(s.side, s.entry, s.target)
          /\ 2 * (Gap(s.target, s.entry) + Grain) >= 5 * (Gap(s.entry, s.stop) - Grain)
      BY <2>2, <2>3, <3>1, <3>2, RoundingKeepsOrder DEF Sound
    <3>4. s.entry <= 200 * Gap(s.entry, s.stop) /\ 50 * Gap(s.entry, s.stop) <= s.entry
      BY <2>2, <2>5 DEF StopInBounds, MinStop, MaxStop, Gap
    <3> QED BY <2>2, <2>6, <3>3, <3>4 DEF PublishedPrices, Between, Ahead, Sides
  <2> QED BY <2>7, <2>8
<1>2. CASE Expire
  <2>1. signal # NoSignal /\ signal' = [signal EXCEPT !.live = FALSE]
    BY <1>2 DEF Expire, NoSignal
  <2>2. /\ signal'.side = signal.side /\ signal'.entry = signal.entry
        /\ signal'.stop = signal.stop /\ signal'.target = signal.target
    BY <2>1 DEF InStep
  <2> QED BY <2>1, <2>2 DEF LevelsOK, PublishedPrices, Between
<1>3. CASE UNCHANGED signal
  BY <1>3 DEF LevelsOK, PublishedPrices, Between
<1> QED
  BY <1>1, <1>2, <1>3 DEF Next, World, Session, Attempt, ReadBalance, Gates, Size, CheckReference,
     LeverageSet, LeverageTooHigh, LeverageFails, LadderEnds, PlaceOrder, MovePrice,
     SetSetting, DeleteSetting, world, vars

LEMMA LevelsInvariant == Spec => []LevelsOK
<1>1. Init => LevelsOK
  BY DEF Init, LevelsOK
<1>2. InStep /\ LevelsOK /\ [Next]_vars => LevelsOK'
  BY LevelsStep
<1> QED BY <1>1, <1>2, InStepInvariant, PTL DEF Spec

\* Whatever the models answered, a published signal has its stop between half a
\* percent and two percent on the losing side of its entry and at least two and
\* a half times that to win, but for the rounding (_normalize_signal_prices and
\* the checks and the rounding after it), where quotes have at most eight
\* decimals.
THEOREM PublishedLevels == ASSUME WholeQuotes PROVE Spec => []PublishedPrices
<1>1. Init => PublishedPrices
  BY DEF Init, PublishedPrices
<1>2. InStep /\ PublishedPrices /\ [Next]_vars => PublishedPrices'
  BY LevelsStep
<1> QED BY <1>1, <1>2, InStepInvariant, PTL DEF Spec

\* When an order is on its way or placed, the entry and the last price seen lie
\* between the stop and the target (_validate_tpsl_prices).
THEOREM OrdersBracketed == ASSUME WholeQuotes PROVE Spec => []BothPricesBracketed
<1>1. InStep /\ PublishedPrices => BothPricesBracketed
  BY DEF InStep, NoRow, PublishedPrices, BothPricesBracketed, Untriggered, Ahead, Between, Sides
<1> QED BY <1>1, InStepInvariant, PublishedLevels, PTL

----------------------------------------------------------------------------
(* What an order may lose. *)

LEMMA TimesMonotone ==
    ASSUME NEW a \in Nat, NEW b \in Nat, NEW c \in Nat, a <= b
    PROVE  a * c <= b * c /\ a * c \in Nat /\ b * c \in Nat
<1>1. (b - a) * c >= 0 /\ (b - a) * c = b * c - a * c
  OBVIOUS
<1>2. a * c \in Nat /\ b * c \in Nat
  OBVIOUS
<1> QED BY <1>1, <1>2

LEMMA FlooredNat ==
    ASSUME NEW x \in Nat, NEW y \in Nat \ {0}
    PROVE  x \div y \in Nat /\ y * (x \div y) <= x
BY Floored

\* Rounding to lots and the cap of the symbol only make a quantity smaller.
LEMMA LotsShrink ==
    ASSUME lot \in Lots, NEW q \in Nat
    PROVE  /\ InLots(q) \in Nat /\ InLots(q) <= q
           /\ Capped(q) \in Nat /\ Capped(q) <= q
<1>1. lot.step \in Nat \ {0} /\ lot.max \in Nat
  BY DecisionConstants
<1>2. ASSUME NEW n \in Nat PROVE InLots(n) \in Nat /\ InLots(n) <= n
  <2>1. n \div lot.step \in Nat /\ lot.step * (n \div lot.step) <= n
    BY <1>1, Floored
  <2>2. (n \div lot.step) * lot.step = lot.step * (n \div lot.step)
    BY <1>1, <2>1
  <2>3. (n \div lot.step) * lot.step \in Nat
    BY <1>1, <2>1
  <2> QED BY <2>1, <2>2, <2>3 DEF InLots
<1>3. Capped(q) \in Nat /\ Capped(q) <= q
  BY <1>1, <1>2 DEF Capped
<1> QED BY <1>2, <1>3

\* The position value, in whole money.
LEMMA ValueIsWhole ==
    ASSUME profile \in Profiles, NEW balance \in Nat
    PROVE  PositionValue(balance) \in Nat
<1>1. /\ profile.allocation \in Nat /\ profile.risk \in Nat /\ profile.leverage \in Nat
      /\ OneFold \in Nat \ {0}
  BY DecisionConstants
<1> DEFINE capital == (balance * profile.allocation) \div 100
           value == (capital * profile.risk) \div 100
<1>2. capital \in Nat
  <2>1. balance * profile.allocation \in Nat
    BY <1>1
  <2> QED BY <2>1
<1>3. value \in Nat
  <2> HIDE DEF capital
  <2>1. capital * profile.risk \in Nat
    BY <1>1, <1>2
  <2> QED BY <2>1
<1>4. PositionValue(balance) = (value * profile.leverage) \div OneFold
  BY DEF PositionValue
<1>5. value * profile.leverage \in Nat
  <2> HIDE DEF value
  <2> QED BY <1>1, <1>3
<1> HIDE DEF value
<1> QED BY <1>1, <1>4, <1>5, FlooredNat

\* The whole part of a leverage limit of one or more is one or more.
LEMMA TargetIsWhole == ASSUME profile \in Profiles PROVE TargetLeverage \in Nat \ {0}
<1>1. profile.leverage \in Nat /\ profile.leverage >= OneFold /\ OneFold \in Nat \ {0}
  BY DecisionConstants
<1>2. ASSUME NEW limit \in Nat, NEW one \in Nat \ {0}, limit >= one
      PROVE  limit \div one \in Nat \ {0}
  <2>1. limit \div one \in Nat /\ limit < one * (limit \div one) + one
    BY Floored
  <2>2. ASSUME limit \div one = 0 PROVE FALSE
    BY <1>2, <2>1, <2>2
  <2> QED BY <2>1, <2>2
<1> QED BY <1>1, <1>2 DEF TargetLeverage

\* A planned quantity is worth the position value at most, with or without the
\* ten-dollar minimum and the cap.
LEMMA SizeFits ==
    ASSUME lot \in Lots, NEW value \in Nat, signal.entry \in Nat \ {0}
    PROVE  /\ Capped(PositionSize(value)) \in Nat
           /\ Capped(PositionSize(value)) * signal.entry <= value
<1> DEFINE whole == value \div signal.entry
           least == (21 * Dollar) \div (2 * signal.entry)
           again == IF least < whole THEN least ELSE whole
           size == PositionSize(value)
<1>1. whole \in Nat /\ signal.entry * whole <= value
  BY Floored
<1>2. least \in Nat
  <2>1. 21 * Dollar \in Nat /\ 2 * signal.entry \in Nat \ {0}
    BY DecisionConstants
  <2> QED BY <2>1
<1> HIDE DEF whole, least
<1>3. again \in Nat /\ again <= whole
  BY <1>1, <1>2
<1> HIDE DEF again
<1>4. size \in {InLots(whole), InLots(again), again}
  BY DEF PositionSize, whole, least, again
<1>5. size \in Nat /\ size <= whole
  <2>1. /\ InLots(whole) \in Nat /\ InLots(whole) <= whole
        /\ InLots(again) \in Nat /\ InLots(again) <= again
    BY <1>1, <1>3, LotsShrink
  <2> HIDE DEF size
  <2> QED BY <1>1, <1>3, <1>4, <2>1
<1> HIDE DEF size
<1>6. Capped(size) \in Nat /\ Capped(size) <= whole
  <2>1. Capped(size) \in Nat /\ Capped(size) <= size
    BY <1>5, LotsShrink
  <2> QED BY <1>1, <1>5, <2>1
<1>7. Capped(size) * signal.entry <= whole * signal.entry
  BY <1>1, <1>6, TimesMonotone
<1>8. whole * signal.entry = signal.entry * whole
  BY <1>1
<1>9. Capped(size) * signal.entry \in Nat /\ whole * signal.entry \in Nat
  BY <1>1, <1>6
<1>10. Capped(size) * signal.entry <= value
  BY <1>1, <1>7, <1>8, <1>9
<1> QED BY <1>6, <1>10 DEF size

\* A quantity that is worth the position value at most, rescaled to a leverage
\* under the ceiling, risks the position value at the ceiling at most.
LEMMA RescaleFits ==
    ASSUME lot \in Lots, profile \in Profiles, attempt.quantity \in Nat,
           NEW entry \in Nat, NEW value \in Nat, attempt.quantity * entry <= value,
           NEW actual \in Nat, NEW ceiling \in Nat, actual <= ceiling, TargetLeverage <= ceiling
    PROVE  /\ Rescaled(actual) \in Nat
           /\ Rescaled(actual) * entry * TargetLeverage <= value * ceiling
<1> DEFINE L == TargetLeverage
           q == attempt.quantity
           r == Rescaled(actual)
<1>1. L \in Nat \ {0}
  BY TargetIsWhole
<1>2. r \in Nat /\ r * L <= q * ceiling
  <2>1. CASE actual = L
    <3>1. r = q
      BY <2>1 DEF Rescaled
    <3>2. L * q <= ceiling * q
      BY <1>1, TimesMonotone
    <3> HIDE DEF L, q, r
    <3> QED BY <1>1, <3>1, <3>2 DEF q
  <2>2. CASE actual # L
    <3> DEFINE x == (q * actual) \div L
    <3>1. q * actual \in Nat
      OBVIOUS
    <3>2. x \in Nat /\ L * x <= q * actual
      <4> HIDE DEF L, q
      <4> QED BY <1>1, <3>1, FlooredNat
    <3>3. r = Capped(InLots(x))
      BY <2>2 DEF Rescaled
    <3> HIDE DEF x
    <3>4. r \in Nat /\ r <= x
      <4>1. InLots(x) \in Nat /\ InLots(x) <= x
        BY <3>2, LotsShrink
      <4>2. Capped(InLots(x)) \in Nat /\ Capped(InLots(x)) <= InLots(x)
        BY <4>1, LotsShrink
      <4> HIDE DEF r
      <4> QED BY <3>2, <3>3, <4>1, <4>2
    <3> HIDE DEF r, L
    <3>5. r * L <= x * L /\ r * L \in Nat /\ x * L \in Nat
      BY <1>1, <3>2, <3>4, TimesMonotone
    <3>6. actual * q <= ceiling * q /\ actual * q \in Nat /\ ceiling * q \in Nat
      BY TimesMonotone
    <3>7. x * L = L * x /\ actual * q = q * actual /\ ceiling * q = q * ceiling
      BY <1>1, <3>2
    <3> HIDE DEF q
    <3> QED BY <3>2, <3>4, <3>5, <3>6, <3>7
  <2> QED BY <2>1, <2>2
<1> HIDE DEF r, L, q
<1>3. q \in Nat /\ q * entry <= value
  BY DEF q
<1>4. /\ (r * L) * entry <= (q * ceiling) * entry
      /\ (r * L) * entry \in Nat /\ (q * ceiling) * entry \in Nat
  <2>1. r * L \in Nat /\ q * ceiling \in Nat
    BY <1>1, <1>2, <1>3
  <2> QED BY <1>2, <2>1, TimesMonotone
<1>5. /\ (q * entry) * ceiling <= value * ceiling
      /\ (q * entry) * ceiling \in Nat /\ value * ceiling \in Nat
  <2>1. q * entry \in Nat
    BY <1>3
  <2> QED BY <1>3, <2>1, TimesMonotone
<1>6. (r * L) * entry = r * entry * L
  BY <1>1, <1>2
<1>7. (q * ceiling) * entry = (q * entry) * ceiling
  BY <1>3
<1>8. r * entry * L <= value * ceiling
  BY <1>4, <1>5, <1>6, <1>7
<1> QED BY <1>2, <1>8 DEF r, L

\* What one attempt has planned, and what it may end up with.
Value == PositionValue(attempt.balance)
Planned == attempt.quantity * signal.entry <= Value
Bounded(quantity) == quantity * signal.entry * TargetLeverage <= Value * Ceiling

\* The plan is worth the position value until the leverage is settled; every
\* rung still to be tried is under the ceiling; what is ordered is bounded.
SizeOK ==
    /\ profile \in Profiles /\ lot \in Lots
    /\ attempt.balance \in Nat /\ attempt.quantity \in Nat
    /\ attempt.stage \in {"reference", "leverage"} => Planned
    /\ attempt.stage = "leverage" =>
         /\ attempt.left \in Seq(Nat)
         /\ \A i \in 1..Len(attempt.left) : attempt.left[i] <= Ceiling
    /\ attempt.stage = "order" => Bounded(attempt.quantity)
    /\ row.status = "FILLED" => row.quantity \in Nat /\ Bounded(row.quantity)

LEMMA CeilingIsWhole ==
    ASSUME profile \in Profiles
    PROVE  TargetLeverage \in Nat \ {0} /\ Ceiling \in Nat /\ TargetLeverage <= Ceiling
<1>1. TargetLeverage \in Nat \ {0}
  BY TargetIsWhole
<1> QED BY <1>1 DEF Ceiling

\* The rungs of the ladder are under the ceiling.
LEMMA LadderIsLow ==
    ASSUME profile \in Profiles
    PROVE  Ladder \in Seq(Nat) /\ \A i \in 1..Len(Ladder) : Ladder[i] <= Ceiling
<1>1. TargetLeverage \in Nat \ {0}
  BY TargetIsWhole
<1>2. CASE exchange = "hyperliquid"
  BY <1>1, <1>2 DEF Ladder, Ceiling
<1>3. CASE exchange # "hyperliquid"
  <2>1. Ladder = <<TargetLeverage, 10, 5, 3, 1>>
    BY <1>3 DEF Ladder
  <2>2. Ceiling = IF TargetLeverage > 10 THEN TargetLeverage ELSE 10
    BY <1>3 DEF Ceiling
  <2> QED BY <1>1, <2>1, <2>2
<1> QED BY <1>2, <1>3

LEMMA SizeStart == Init => SizeOK
BY DEF Init, SizeOK, Idle, NoRow

\* The world publishes before there is an attempt, and changes no level after.
LEMMA WorldKeepsSize == InStep /\ SizeOK /\ World => SizeOK'
<1> SUFFICES ASSUME InStep, SizeOK, World PROVE SizeOK'
  OBVIOUS
<1>1. UNCHANGED <<exchange, profile, lot, attempt, row>>
  BY DEF World, Generate, MovePrice, Expire, SetSetting, DeleteSetting, fixed
<1>2. CASE signal = NoSignal
  <2>1. attempt.stage = "idle" /\ row = NoRow
    BY <1>2 DEF InStep
  <2> QED BY <1>1, <2>1 DEF SizeOK, NoRow
<1>3. CASE signal # NoSignal
  <2>1. signal' = signal \/ signal' = [signal EXCEPT !.live = FALSE]
    BY <1>3 DEF World, Generate, MovePrice, Expire, SetSetting, DeleteSetting
  <2>2. signal'.entry = signal.entry
    BY <2>1 DEF InStep
  <2> QED BY <1>1, <2>2 DEF SizeOK, Planned, Bounded, Value, PositionValue, Ceiling, TargetLeverage
<1> QED BY <1>2, <1>3

\* A step that goes back to no attempt, or on to a stage without a size.
LEMMA UnsizedKeeps ==
    ASSUME SizeOK, UNCHANGED <<exchange, profile, lot, signal>>,
           attempt'.balance \in Nat, attempt'.quantity \in Nat,
           attempt'.stage \notin {"reference", "leverage", "order"}, row'.status # "FILLED"
    PROVE  SizeOK'
BY DEF SizeOK

\* Believing in a leverage under the ceiling settles a bounded quantity.
LEMMA BelieveKeeps ==
    ASSUME InStep, LevelsOK, SizeOK, attempt.stage = "leverage",
           NEW actual \in Nat, actual <= Ceiling, Believe(actual),
           UNCHANGED <<exchange, profile, lot, signal, row>>
    PROVE  SizeOK'
<1>1. signal.entry \in Nat
  BY DEF InStep, LevelsOK
<1>2. /\ Rescaled(actual) \in Nat
      /\ Rescaled(actual) * signal.entry * TargetLeverage <= Value * Ceiling
  <2>1. Value \in Nat
    BY ValueIsWhole DEF SizeOK, Value
  <2>2. Ceiling \in Nat /\ TargetLeverage <= Ceiling
    BY CeilingIsWhole DEF SizeOK
  <2>3. attempt.quantity * signal.entry <= Value
    BY DEF SizeOK, Planned
  <2> QED BY <1>1, <2>1, <2>2, <2>3, RescaleFits DEF SizeOK
<1>3. /\ attempt'.stage = "order" /\ attempt'.quantity = Rescaled(actual)
      /\ attempt'.balance = attempt.balance
  BY DEF Believe, InStep
<1>4. row.status # "FILLED"
  BY DEF InStep, Ordering
<1>5. Bounded(attempt.quantity)'
  BY <1>2, <1>3 DEF Bounded, Value, PositionValue, Ceiling, TargetLeverage
<1> QED BY <1>2, <1>3, <1>4, <1>5 DEF SizeOK

\* The rungs that are left stay under the ceiling.
LEMMA NextRungKeeps ==
    ASSUME InStep, SizeOK, attempt.stage = "leverage", attempt.left # <<>>, NextRung,
           UNCHANGED <<exchange, profile, lot, signal, row>>
    PROVE  SizeOK'
<1>1. /\ attempt'.stage = "leverage" /\ attempt'.quantity = attempt.quantity
      /\ attempt'.balance = attempt.balance /\ attempt'.left = Tail(attempt.left)
  BY DEF NextRung, InStep
<1>2. attempt.left \in Seq(Nat) /\ \A i \in 1..Len(attempt.left) : attempt.left[i] <= Ceiling
  BY DEF SizeOK
<1>3. /\ Tail(attempt.left) \in Seq(Nat)
      /\ \A i \in 1..Len(Tail(attempt.left)) : Tail(attempt.left)[i] <= Ceiling
  BY <1>2
<1>4. row.status # "FILLED"
  BY DEF InStep, Ordering
<1>5. Planned' /\ Ceiling' = Ceiling
  BY <1>1 DEF SizeOK, Planned, Value, PositionValue, Ceiling, TargetLeverage
<1> QED BY <1>1, <1>3, <1>4, <1>5 DEF SizeOK

LEMMA RefuseKeepsSize ==
    ASSUME SizeOK, Refuse, UNCHANGED <<exchange, profile, lot, signal>>
    PROVE  SizeOK'
<1>1. /\ attempt'.balance = 0 /\ attempt'.quantity = 0 /\ attempt'.stage = "idle"
      /\ row'.status = "FAILED"
  BY DEF Refuse, Idle, Failed
<1> QED BY <1>1, UnsizedKeeps

LEMMA SessionKeepsSize == InStep /\ LevelsOK /\ SizeOK /\ Session => SizeOK'
<1> SUFFICES ASSUME InStep, LevelsOK, SizeOK, Session PROVE SizeOK'
  OBVIOUS
<1>0. UNCHANGED <<exchange, profile, lot, signal>>
  BY DEF Session, Attempt, ReadBalance, Gates, Size, CheckReference, LeverageSet, LeverageTooHigh,
         LeverageFails, LadderEnds, PlaceOrder, world, fixed
<1>1. CASE Attempt
  <2>1. row = NoRow
    BY <1>1 DEF Attempt, Taken
  <2>2. CASE UNCHANGED <<attempt, row>>
    BY <1>0, <2>2 DEF SizeOK, Planned, Bounded, Value, PositionValue, Ceiling, TargetLeverage
  <2>3. CASE \E b, l : attempt' = [Idle EXCEPT !.stage = "balance", !.buys = b, !.least = l] /\ row' = row
    <3>1. attempt'.balance = 0 /\ attempt'.quantity = 0 /\ attempt'.stage = "balance"
      BY <2>3 DEF Idle
    <3> QED BY <1>0, <2>1, <2>3, <3>1, UnsizedKeeps DEF NoRow
  <2> QED BY <1>1, <2>2, <2>3 DEF Attempt, Proceed
<1>2. CASE ReadBalance
  <2>1. CASE Refuse
    BY <1>0, <2>1, RefuseKeepsSize
  <2>2. ASSUME NEW b \in Balances, attempt' = [attempt EXCEPT !.stage = "gates", !.balance = b], row' = row
        PROVE  SizeOK'
    <3>1. attempt'.balance = b /\ attempt'.quantity = attempt.quantity /\ attempt'.stage = "gates"
      BY <2>2 DEF InStep
    <3>2. row = NoRow
      BY <1>2 DEF ReadBalance, InStep, Deciding
    <3>3. b \in Nat /\ attempt.quantity \in Nat
      BY DecisionConstants DEF SizeOK
    <3> QED BY <1>0, <2>2, <3>1, <3>2, <3>3, UnsizedKeeps DEF NoRow
  <2> QED BY <1>2, <2>1, <2>2 DEF ReadBalance, Proceed
<1>3. CASE Gates
  <2>1. CASE Refuse
    BY <1>0, <2>1, RefuseKeepsSize
  <2>2. CASE attempt' = [attempt EXCEPT !.stage = "size"] /\ row' = row
    <3>1. attempt'.balance = attempt.balance /\ attempt'.quantity = attempt.quantity /\ attempt'.stage = "size"
      BY <2>2 DEF InStep
    <3>2. row = NoRow
      BY <1>3 DEF Gates, InStep, Deciding
    <3> QED BY <1>0, <2>2, <3>1, <3>2, UnsizedKeeps DEF NoRow, SizeOK
  <2> QED BY <1>3, <2>1, <2>2 DEF Gates, Proceed
<1>4. CASE Size
  <2>1. CASE Refuse
    BY <1>0, <2>1, RefuseKeepsSize
  <2>2. ASSUME NEW q, q = Capped(PositionSize(PositionValue(attempt.balance))),
               attempt' = [attempt EXCEPT !.stage = "reference", !.quantity = q], row' = row
        PROVE  SizeOK'
    <3>1. attempt'.balance = attempt.balance /\ attempt'.quantity = q /\ attempt'.stage = "reference"
      BY <2>2 DEF InStep
    <3>2. row = NoRow /\ signal.entry \in Nat \ {0}
      BY <1>4 DEF Size, InStep, Deciding, LevelsOK
    <3>3. q \in Nat /\ q * signal.entry <= Value
      <4>1. Value \in Nat
        BY ValueIsWhole DEF SizeOK, Value
      <4> QED BY <2>2, <3>2, <4>1, SizeFits DEF SizeOK, Value
    <3>4. Planned'
      BY <1>0, <3>1, <3>3 DEF Planned, Value, PositionValue
    <3> QED BY <1>0, <2>2, <3>1, <3>2, <3>3, <3>4 DEF SizeOK, NoRow
  <2> QED BY <1>4, <2>1, <2>2 DEF Size, Proceed
<1>5. CASE CheckReference
  <2>1. CASE Refuse
    BY <1>0, <2>1, RefuseKeepsSize
  <2>2. ASSUME NEW p, row' = [status |-> "PENDING", quantity |-> attempt.quantity, leverage |-> profile.leverage],
               attempt' = [attempt EXCEPT !.stage = "leverage", !.reference = p, !.left = Ladder]
        PROVE  SizeOK'
    <3>1. /\ attempt'.balance = attempt.balance /\ attempt'.quantity = attempt.quantity
          /\ attempt'.stage = "leverage" /\ attempt'.left = Ladder
      BY <2>2 DEF InStep
    <3>2. row'.status = "PENDING"
      BY <2>2
    <3>3. Ladder \in Seq(Nat) /\ \A i \in 1..Len(Ladder) : Ladder[i] <= Ceiling
      BY LadderIsLow DEF SizeOK
    <3>4. Planned' /\ Ceiling' = Ceiling
      BY <1>0, <1>5, <3>1 DEF CheckReference, SizeOK, Planned, Value, PositionValue, Ceiling, TargetLeverage
    <3> QED BY <1>0, <3>1, <3>2, <3>3, <3>4 DEF SizeOK
  <2> QED BY <1>5, <2>1, <2>2 DEF CheckReference
<1>6. CASE LeverageSet \/ LeverageTooHigh \/ LeverageFails \/ LadderEnds
  <2>1. /\ TargetLeverage \in Nat /\ TargetLeverage <= Ceiling
        /\ attempt.stage = "leverage" /\ row' = row
    BY <1>6, CeilingIsWhole DEF SizeOK, LeverageSet, LeverageTooHigh, LeverageFails, LadderEnds
  <2>2. attempt.left # <<>> => Head(attempt.left) \in Nat /\ Head(attempt.left) <= Ceiling
    BY <2>1 DEF SizeOK
  <2>3. \/ attempt.left # <<>> /\ (Believe(Head(attempt.left)) \/ NextRung)
        \/ Believe(TargetLeverage)
    <3>1. CASE LeverageSet
      BY <3>1 DEF LeverageSet
    <3>2. CASE LeverageTooHigh
      BY <3>2 DEF LeverageTooHigh
    <3>3. CASE LeverageFails
      BY <3>3 DEF LeverageFails
    <3>4. CASE LadderEnds
      BY <3>4 DEF LadderEnds
    <3> QED BY <1>6, <3>1, <3>2, <3>3, <3>4
  <2> QED BY <1>0, <2>1, <2>2, <2>3, BelieveKeeps, NextRungKeeps
<1>7. CASE PlaceOrder
  <2>1. /\ attempt.stage = "order" /\ attempt' = [attempt EXCEPT !.stage = "idle"]
        /\ \/ row' = [row EXCEPT !.status = "FILLED", !.quantity = attempt.quantity]
           \/ row' = [row EXCEPT !.status = "FAILED"]
    BY <1>7 DEF PlaceOrder
  <2>2. attempt'.balance = attempt.balance /\ attempt'.quantity = attempt.quantity /\ attempt'.stage = "idle"
    BY <2>1 DEF InStep
  <2>3. row'.status = "FILLED" => row'.quantity = attempt.quantity
    BY <2>1 DEF InStep
  <2>4. row'.status = "FILLED" => Bounded(row.quantity)'
    BY <1>0, <2>1, <2>2, <2>3 DEF SizeOK, Bounded, Value, PositionValue, Ceiling, TargetLeverage
  <2> QED BY <1>0, <2>2, <2>3, <2>4 DEF SizeOK
<1> QED
  BY <1>1, <1>2, <1>3, <1>4, <1>5, <1>6, <1>7 DEF Session

LEMMA SizeInvariant == Spec => [](InStep /\ LevelsOK /\ SizeOK)
<1>1. SizeOK /\ UNCHANGED vars => SizeOK'
  BY DEF SizeOK, vars, Planned, Bounded, Value, PositionValue, Ceiling, TargetLeverage
<1>2. InStep /\ LevelsOK /\ SizeOK /\ [Next]_vars => SizeOK'
  BY <1>1, WorldKeepsSize, SessionKeepsSize DEF Next
<1> QED BY <1>2, SizeStart, InStepInvariant, LevelsInvariant, PTL DEF Spec

\* Whatever the wallet, the profile, the lots of the symbol and the leverage
\* that the exchange lets the code have, an order that fills risks two percent
\* of the position value at most, taken from the whole part of the leverage
\* limit to the leverage the ladder may end on.
THEOREM LossIsBounded == Spec => []StopOutBounded
<1>1. InStep /\ LevelsOK /\ SizeOK => StopOutBounded
  <2> SUFFICES ASSUME InStep, LevelsOK, SizeOK, row.status = "FILLED"
               PROVE  50 * row.quantity * Gap(signal.entry, signal.stop) * TargetLeverage
                        <= Value * Ceiling
    BY DEF StopOutBounded, Value
  <2> DEFINE q == row.quantity
             gap == Gap(signal.entry, signal.stop)
             entry == signal.entry
             L == TargetLeverage
  <2>1. entry \in Nat /\ gap \in Nat /\ 50 * gap <= entry
    <3>1. signal # NoSignal
      BY DEF InStep, NoRow
    <3>2. /\ signal.entry \in Nat /\ signal.stop \in Nat
          /\ 10000 * Gap(signal.entry, signal.stop) <= 200 * signal.entry
      BY <3>1 DEF LevelsOK, StopInBounds, MaxStop
    <3> QED BY <3>2 DEF Gap
  <2>2. q \in Nat /\ L \in Nat /\ q * entry * L <= Value * Ceiling
    BY CeilingIsWhole DEF SizeOK, Bounded
  <2>3. Value * Ceiling \in Nat
    <3>1. Value \in Nat /\ Ceiling \in Nat
      BY ValueIsWhole, CeilingIsWhole DEF SizeOK, Value
    <3> QED BY <3>1
  <2> HIDE DEF q, gap, entry, L
  <2>4. /\ (50 * gap) * (q * L) <= entry * (q * L)
        /\ (50 * gap) * (q * L) \in Nat /\ entry * (q * L) \in Nat
    <3>1. 50 * gap \in Nat /\ q * L \in Nat
      BY <2>1, <2>2
    <3> QED BY <2>1, <3>1, TimesMonotone
  <2>5. 50 * q * gap * L = (50 * gap) * (q * L) /\ q * entry * L = entry * (q * L)
    BY <2>1, <2>2
  <2>6. 50 * q * gap * L <= Value * Ceiling
    BY <2>2, <2>3, <2>4, <2>5
  <2> QED BY <2>6 DEF q, gap, L
<1> QED BY <1>1, SizeInvariant, PTL

----------------------------------------------------------------------------
(* Types. The confidence of a signal is a mean of those named. *)

\* What holds of a subset when it holds of all that it strictly contains, holds of all.
LEMMA SubsetInduction ==
    ASSUME NEW S, IsFiniteSet(S), NEW T,
           \A s \in SUBSET S : (\A t \in SUBSET s : t # s => t \in T) => s \in T
    PROVE  \A s \in SUBSET S : s \in T
<1> DEFINE Bad == {s \in SUBSET S : s \notin T}
<1> SUFFICES ASSUME Bad # {} PROVE FALSE
  OBVIOUS
<1>1. Bad \subseteq FiniteSubsetsOf(S)
  BY FS_Subset DEF FiniteSubsetsOf
<1>2. IsWellFoundedOn(StrictSubsetOrdering(S), FiniteSubsetsOf(S))
  BY FS_StrictSubsetOrderingWellFounded
<1>3. PICK x \in Bad : \A y \in Bad : ~(<<y, x>> \in StrictSubsetOrdering(S))
  <2> HIDE DEF Bad
  <2> QED BY <1>1, <1>2, WFMin
<1>4. \A t \in SUBSET x : t # x => t \in T
  BY <1>3 DEF StrictSubsetOrdering
<1> QED BY <1>3, <1>4

\* What holds of the empty set and with every element more, holds of all.
LEMMA ElementInduction ==
    ASSUME NEW S, IsFiniteSet(S), NEW T, {} \in T,
           \A s \in SUBSET S : \A x \in S \ s : s \in T => s \union {x} \in T
    PROVE  \A s \in SUBSET S : s \in T
<1>1. ASSUME NEW s \in SUBSET S, \A t \in SUBSET s : t # s => t \in T
      PROVE  s \in T
  <2>1. CASE s = {}
    BY <2>1
  <2>2. CASE s # {}
    <3>1. PICK x \in s : TRUE
      BY <2>2
    <3>2. s \ {x} \in SUBSET s /\ s \ {x} # s /\ s = (s \ {x}) \union {x}
      BY <3>1
    <3>3. s \ {x} \in T
      BY <1>1, <3>2
    <3>4. s \ {x} \in SUBSET S /\ x \in S \ (s \ {x})
      BY <3>1
    <3>5. (s \ {x}) \union {x} \in T
      BY <3>3, <3>4
    <3> QED BY <3>2, <3>5
  <2> QED BY <2>1, <2>2
<1> QED BY <1>1, SubsetInduction

\* The recursion of a sum over the subsets of S.
Adds(f, S, g) ==
    g = [s \in SUBSET S |-> IF s = {} THEN 0
           ELSE LET x == CHOOSE y \in s : TRUE IN f[x] + g[s \ {x}]]

LEMMA SumIsRecursive ==
    ASSUME NEW f, NEW S
    PROVE  SumFunctionOnSet(f, S) = (CHOOSE g : Adds(f, S, g))[S]
BY DEF Adds, SumFunctionOnSet, FoldFunctionOnSet, MapThenFoldSet

First(s) == CHOOSE y \in s : TRUE

LEMMA AddsStep ==
    ASSUME NEW f, NEW S, NEW g, Adds(f, S, g), NEW s \in SUBSET S
    PROVE  /\ s = {} => g[s] = 0
           /\ s # {} => /\ First(s) \in s
                        /\ g[s] = f[First(s)] + g[s \ {First(s)}]
BY DEF Adds, First

\* Two recursions agree where both are defined.
LEMMA AddsAgree ==
    ASSUME NEW f, NEW S, IsFiniteSet(S), NEW A, NEW B, S \subseteq A, S \subseteq B,
           NEW g, NEW h, Adds(f, A, g), Adds(f, B, h)
    PROVE  g[S] = h[S]
<1> DEFINE T == {s \in SUBSET S : g[s] = h[s]}
<1>1. ASSUME NEW s \in SUBSET S, \A t \in SUBSET s : t # s => t \in T
      PROVE  s \in T
  <2>1. s \in SUBSET A /\ s \in SUBSET B
    OBVIOUS
  <2>2. CASE s = {}
    BY <2>1, <2>2, AddsStep
  <2>3. CASE s # {}
    <3> DEFINE r == s \ {First(s)}
    <3>1. /\ First(s) \in s
          /\ g[s] = f[First(s)] + g[r] /\ h[s] = f[First(s)] + h[r]
      BY <2>1, <2>3, AddsStep
    <3>2. r \in SUBSET s /\ r # s
      BY <3>1
    <3>3. g[r] = h[r]
      BY <1>1, <3>2
    <3> QED BY <3>1, <3>3
  <2> QED BY <2>2, <2>3
<1>2. \A s \in SUBSET S : s \in T
  <2> HIDE DEF T
  <2> QED BY <1>1, SubsetInduction
<1> QED BY <1>2

LEMMA AddsExists ==
    ASSUME NEW f, NEW S, IsFiniteSet(S)
    PROVE  \E g : Adds(f, S, g)
<1> DEFINE T == {s \in SUBSET S : \E g : Adds(f, s, g)}
<1>1. ASSUME NEW s \in SUBSET S, \A t \in SUBSET s : t # s => t \in T
      PROVE  s \in T
  <2> DEFINE G(t) == CHOOSE g : Adds(f, t, g)
             H == [u \in SUBSET s |-> IF u = {} THEN 0
                     ELSE f[First(u)] + G(u \ {First(u)})[u \ {First(u)}]]
  <2>1. ASSUME NEW t \in SUBSET s, t # s PROVE Adds(f, t, G(t))
    BY <1>1, <2>1
  <2>2. ASSUME NEW t \in SUBSET s, t # s PROVE H[t] = G(t)[t]
    <3>1. CASE t = {}
      BY <2>1, <2>2, <3>1, AddsStep
    <3>2. CASE t # {}
      <4> DEFINE r == t \ {First(t)}
      <4>1. First(t) \in t /\ G(t)[t] = f[First(t)] + G(t)[r]
        <5> HIDE DEF G
        <5> QED BY <2>1, <2>2, <3>2, AddsStep
      <4>2. r \in SUBSET s /\ r # s /\ r \subseteq t /\ IsFiniteSet(r)
        BY <4>1, <2>2, FS_Subset
      <4>3. G(t)[r] = G(r)[r]
        <5>1. Adds(f, r, G(r)) /\ Adds(f, t, G(t))
          BY <2>1, <2>2, <4>2
        <5> HIDE DEF G, r
        <5> QED BY <4>2, <5>1, AddsAgree
      <4>4. H[t] = f[First(t)] + G(r)[r]
        <5> HIDE DEF G
        <5> QED BY <2>2, <3>2
      <4> QED BY <4>1, <4>3, <4>4
    <3> QED BY <3>1, <3>2
  <2>3. Adds(f, s, H)
    <3>1. ASSUME NEW u \in SUBSET s
          PROVE  H[u] = IF u = {} THEN 0 ELSE f[First(u)] + H[u \ {First(u)}]
      <4>1. CASE u = {}
        BY <4>1
      <4>2. CASE u # {}
        <5>1. First(u) \in u
          BY <4>2 DEF First
        <5>2. u \ {First(u)} \in SUBSET s /\ u \ {First(u)} # s
          BY <5>1
        <5>3. H[u] = f[First(u)] + G(u \ {First(u)})[u \ {First(u)}]
          <6> HIDE DEF G
          <6> QED BY <4>2
        <5> HIDE DEF H, G
        <5> QED BY <2>2, <4>2, <5>2, <5>3
      <4> QED BY <4>1, <4>2
    <3>2. H = [u \in SUBSET s |-> H[u]]
      OBVIOUS
    <3> HIDE DEF H
    <3>3. H = [u \in SUBSET s |-> IF u = {} THEN 0 ELSE f[First(u)] + H[u \ {First(u)}]]
      BY <3>1, <3>2
    <3> QED BY <3>3 DEF Adds, First
  <2> QED BY <2>3
<1>2. \A s \in SUBSET S : s \in T
  <2> HIDE DEF T
  <2> QED BY <1>1, SubsetInduction
<1> QED BY <1>2

\* A sum takes its first element off.
LEMMA SumFirst ==
    ASSUME NEW f, NEW S, IsFiniteSet(S)
    PROVE  /\ SumFunctionOnSet(f, {}) = 0
           /\ S # {} => /\ First(S) \in S
                        /\ SumFunctionOnSet(f, S)
                             = f[First(S)] + SumFunctionOnSet(f, S \ {First(S)})
<1> DEFINE G(t) == CHOOSE g : Adds(f, t, g)
<1>1. ASSUME NEW t, IsFiniteSet(t) PROVE Adds(f, t, G(t)) /\ SumFunctionOnSet(f, t) = G(t)[t]
  BY <1>1, AddsExists, SumIsRecursive
<1> HIDE DEF G
<1>2. SumFunctionOnSet(f, {}) = 0
  <2>1. IsFiniteSet({})
    BY FS_EmptySet
  <2>2. Adds(f, {}, G({})) /\ SumFunctionOnSet(f, {}) = G({})[{}]
    BY <1>1, <2>1
  <2>3. {} \in SUBSET {}
    OBVIOUS
  <2> QED BY <2>2, <2>3, AddsStep
<1>3. ASSUME S # {}
      PROVE  First(S) \in S /\ SumFunctionOnSet(f, S) = f[First(S)] + SumFunctionOnSet(f, S \ {First(S)})
  <2> DEFINE r == S \ {First(S)}
  <2>1. First(S) \in S /\ G(S)[S] = f[First(S)] + G(S)[r]
    BY <1>1, <1>3, AddsStep
  <2>2. IsFiniteSet(r) /\ r \subseteq S
    BY FS_Subset
  <2>3. G(S)[r] = G(r)[r]
    <3>1. Adds(f, S, G(S)) /\ Adds(f, r, G(r))
      BY <1>1, <2>2
    <3> HIDE DEF r
    <3> QED BY <2>2, <3>1, AddsAgree
  <2> QED BY <1>1, <2>1, <2>2, <2>3
<1> QED BY <1>2, <1>3

\* The sum over nothing.
LEMMA SumEmpty == ASSUME NEW f PROVE SumFunctionOnSet(f, {}) = 0
BY FS_EmptySet, SumFirst

\* A sum is a whole number, and takes any of its elements off.
LEMMA SumTakes ==
    ASSUME NEW f, NEW S, IsFiniteSet(S), \A x \in S : f[x] \in Int
    PROVE  /\ SumFunctionOnSet(f, S) \in Int
           /\ \A x \in S : SumFunctionOnSet(f, S) = f[x] + SumFunctionOnSet(f, S \ {x})
<1> DEFINE Sum(s) == SumFunctionOnSet(f, s)
           T == {s \in SUBSET S : Sum(s) \in Int /\ \A x \in s : Sum(s) = f[x] + Sum(s \ {x})}
<1>1. \A s \in SUBSET S : IsFiniteSet(s)
  BY FS_Subset
<1>2. \A s \in SUBSET S : /\ Sum({}) = 0
                          /\ s # {} => First(s) \in s /\ Sum(s) = f[First(s)] + Sum(s \ {First(s)})
  BY <1>1, SumFirst
<1> HIDE DEF Sum
<1>3. ASSUME NEW s \in SUBSET S, \A t \in SUBSET s : t # s => t \in T
      PROVE  s \in T
  <2>1. CASE s = {}
    <3>1. Sum(s) = 0
      BY <1>2, <2>1
    <3> QED BY <2>1, <3>1
  <2>2. CASE s # {}
    <3> DEFINE e == First(s)
    <3>1. e \in s /\ Sum(s) = f[e] + Sum(s \ {e})
      BY <1>2, <2>2
    <3> HIDE DEF e
    <3>2. ASSUME NEW x \in s
          PROVE  /\ s \ {x} \in T /\ Sum(s \ {x}) \in Int /\ f[x] \in Int
                 /\ \A y \in s \ {x} : Sum(s \ {x}) = f[y] + Sum((s \ {x}) \ {y})
      <4>1. s \ {x} \in SUBSET s /\ s \ {x} # s
        OBVIOUS
      <4>2. s \ {x} \in T
        BY <1>3, <4>1
      <4> QED BY <4>2
    <3>3. Sum(s) \in Int
      BY <3>1, <3>2
    <3>4. ASSUME NEW x \in s, x # e PROVE Sum(s) = f[x] + Sum(s \ {x})
      <4>1. Sum(s \ {e}) = f[x] + Sum((s \ {e}) \ {x})
        BY <3>1, <3>2, <3>4
      <4>2. Sum(s \ {x}) = f[e] + Sum((s \ {x}) \ {e})
        BY <3>1, <3>2, <3>4
      <4>3. (s \ {e}) \ {x} = (s \ {x}) \ {e}
        OBVIOUS
      <4>4. Sum((s \ {e}) \ {x}) \in Int
        <5>1. (s \ {e}) \ {x} \in SUBSET s /\ (s \ {e}) \ {x} # s
          BY <3>1
        <5>2. (s \ {e}) \ {x} \in T
          BY <1>3, <5>1
        <5> QED BY <5>2
      <4> QED BY <3>1, <3>2, <4>1, <4>2, <4>3, <4>4
    <3> QED BY <3>1, <3>3, <3>4
  <2> QED BY <2>1, <2>2
<1>4. \A s \in SUBSET S : s \in T
  <2> HIDE DEF T
  <2> QED BY <1>3, SubsetInduction
<1>5. S \in T
  BY <1>4
<1> QED BY <1>5 DEF Sum

LEMMA ConfidenceIsWhole ==
    ASSUME NEW answers \in [1..Cardinality(Models) -> Answers \union {Missing}],
           NEW side \in Consensus(answers), NEW move \in Int
    PROVE  Aggregated(answers, side, move).confidence \in Int
<1> DEFINE agree == Saying(answers, side)
           named == [i \in agree |-> answers[i].confidence]
           total == SumFunction(named)
           n == Cardinality(agree)
<1>1. IsFiniteSet(1..Cardinality(Models))
  BY DecisionConstants, FS_CardinalityType, FS_Interval
<1>2. /\ agree \subseteq Valid(answers) /\ Valid(answers) \subseteq 1..Cardinality(Models)
      /\ \A i \in agree : answers[i] \in Answers
  BY DEF Saying, Valid
<1>3. IsFiniteSet(agree) /\ IsFiniteSet(Valid(answers))
  <2> HIDE DEF agree
  <2> QED BY <1>1, <1>2, FS_Subset
<1>4. n \in Nat /\ Cardinality(Valid(answers)) \in Nat /\ 2 * n > Cardinality(Valid(answers))
  <2>1. 2 * n > Cardinality(Valid(answers))
    BY DEF Consensus
  <2> HIDE DEF agree
  <2> QED BY <1>3, <2>1, FS_CardinalityType
<1>5. total \in Int
  <2> HIDE DEF agree
  <2>1. \A i \in agree : named[i] \in Int
    BY <1>2, DecisionConstants
  <2>2. SumFunctionOnSet(named, agree) \in Int
    <3> HIDE DEF named
    <3> QED BY <1>3, <2>1, SumTakes
  <2> QED BY <2>2 DEF SumFunction
<1>6. ChasePenalty(side, move) \in Int
  BY DEF ChasePenalty
<1>7. Aggregated(answers, side, move).confidence = (2 * total + n) \div (2 * n) - ChasePenalty(side, move)
  BY DEF Aggregated
<1> HIDE DEF total, n
<1>8. 2 * n \in Nat \ {0} /\ 2 * total + n \in Int
  BY <1>4, <1>5
<1>9. (2 * total + n) \div (2 * n) \in Int
  BY <1>8, Floored
<1> QED BY <1>6, <1>7, <1>9

\* The signal is a record of numbers: the prices by LevelsOK, the confidence by the mean.
SignalOK ==
    signal \in [side : Sides \union {"HOLD"}, confidence : Int, entry : Nat, stop : Nat,
                target : Nat, live : BOOLEAN]

LEMMA SignalStep ==
    ASSUME InStep, SignalOK, LevelsOK, [Next]_vars
    PROVE  SignalOK'
<1>1. CASE Generate
  <2>1. LevelsOK' /\ InStep'
    <3>1. InStep'
      BY <1>1, WorldKeeps DEF World
    <3> QED BY <3>1, LevelsStep
  <2>2. PICK answers \in [1..Cardinality(Models) -> Answers \union {Missing}], view \in Views :
          \E s \in SignalsFrom(answers, view, setting["confidence"]) :
            signal' = [side |-> s.side, confidence |-> s.confidence, entry |-> s.entry,
                       stop |-> s.stop, target |-> s.target, live |-> TRUE]
    BY <1>1 DEF Generate
  <2>3. PICK s \in SignalsFrom(answers, view, setting["confidence"]) :
          signal' = [side |-> s.side, confidence |-> s.confidence, entry |-> s.entry,
                     stop |-> s.stop, target |-> s.target, live |-> TRUE]
    BY <2>2
  <2>4. PICK side \in Consensus(answers) :
          s.side = side /\ s.confidence = Aggregated(answers, side, view.move).confidence
    BY DEF SignalsFrom
  <2>5. s.confidence \in Int
    <3>1. view.move \in Int
      BY DecisionConstants
    <3> QED BY <2>4, <3>1, ConfidenceIsWhole
  <2>6. s.side \in Sides
    BY <2>4 DEF Consensus
  <2>7. s.entry \in Nat /\ s.stop \in Nat /\ s.target \in Nat
    <3>1. /\ signal'.side = s.side /\ signal'.entry = s.entry
          /\ signal'.stop = s.stop /\ signal'.target = s.target
      BY <2>3
    <3>2. signal' # NoSignal
      BY <2>6, <3>1 DEF NoSignal, Sides
    <3>3. signal'.entry \in Nat \ {0} /\ signal'.stop \in Nat \ {0} /\ signal'.target \in Nat \ {0}
      BY <2>1, <3>2 DEF LevelsOK
    <3> QED BY <3>1, <3>3
  <2> QED BY <2>3, <2>5, <2>6, <2>7 DEF SignalOK
<1>2. CASE Expire
  BY <1>2 DEF Expire, SignalOK
<1>3. CASE UNCHANGED signal
  BY <1>3 DEF SignalOK
<1> QED
  BY <1>1, <1>2, <1>3 DEF Next, World, Session, Attempt, ReadBalance, Gates, Size, CheckReference,
     LeverageSet, LeverageTooHigh, LeverageFails, LadderEnds, PlaceOrder, MovePrice,
     SetSetting, DeleteSetting, world, vars

\* The settings keep their keys, and the world its bounds.
WorldOK ==
    /\ exchange \in Exchanges
    /\ price \in Prices /\ writes \in 0..MaxWrites
    /\ DOMAIN setting = DOMAIN Defaults

LEMMA WorldStep == ASSUME WorldOK, [Next]_vars PROVE WorldOK'
<1>1. MaxWrites \in Nat
  BY DecisionConstants
<1>2. CASE MovePrice
  BY <1>2 DEF MovePrice, WorldOK, fixed
<1>3. CASE SetSetting
  BY <1>1, <1>3 DEF SetSetting, WorldOK, fixed
<1>4. CASE DeleteSetting
  BY <1>1, <1>4 DEF DeleteSetting, WorldOK, fixed
<1>5. CASE UNCHANGED <<exchange, price, setting, writes>>
  BY <1>5 DEF WorldOK
<1> QED
  BY <1>2, <1>3, <1>4, <1>5 DEF Next, World, Session, Attempt, ReadBalance, Gates, Size, CheckReference,
     LeverageSet, LeverageTooHigh, LeverageFails, LadderEnds, PlaceOrder, Generate, Expire,
     fixed, world, vars

\* What an attempt has in its hands, and what it leaves at the exchange and in the row.
OrderOK ==
    /\ attempt.reference \in Nat
    /\ leverage \in Nat /\ paused \in BOOLEAN
    /\ row.quantity \in Nat

LEMMA OrderStep ==
    ASSUME InStep, SizeOK, SignalOK, WorldOK, OrderOK, [Next]_vars
    PROVE  OrderOK'
<1>0. attempt.quantity \in Nat /\ attempt.balance \in Nat
  BY DEF SizeOK
<1>1. CASE Refuse
  BY <1>1 DEF Refuse, Idle, Failed, OrderOK
<1>2. ASSUME NEW next, Proceed(next), next.reference \in Nat
      PROVE  OrderOK'
  BY <1>2 DEF Proceed, OrderOK
<1>3. CASE Attempt
  <2>1. PICK balance \in Balances :
          IF DrawdownHit(balance) THEN paused' = TRUE /\ UNCHANGED <<attempt, leverage, row>>
          ELSE Proceed([Idle EXCEPT !.stage = "balance", !.buys = setting["buys"],
                                    !.least = setting["buy_confidence"]])
    BY <1>3 DEF Attempt
  <2>2. CASE paused' = TRUE /\ UNCHANGED <<attempt, leverage, row>>
    BY <2>2 DEF OrderOK
  <2>3. CASE Proceed([Idle EXCEPT !.stage = "balance", !.buys = setting["buys"],
                                  !.least = setting["buy_confidence"]])
    BY <2>3, <1>2 DEF Idle
  <2> QED BY <2>1, <2>2, <2>3
<1>4. CASE ReadBalance
  <2>1. PICK b : Refuse \/ Proceed([attempt EXCEPT !.stage = "gates", !.balance = b])
    BY <1>4 DEF ReadBalance
  <2>2. [attempt EXCEPT !.stage = "gates", !.balance = b].reference = attempt.reference
    BY DEF InStep
  <2> QED BY <2>1, <2>2, <1>1, <1>2 DEF OrderOK
<1>5. CASE Gates
  <2>1. Refuse \/ Proceed([attempt EXCEPT !.stage = "size"])
    BY <1>5 DEF Gates
  <2>2. [attempt EXCEPT !.stage = "size"].reference = attempt.reference
    BY DEF InStep
  <2> QED BY <2>1, <2>2, <1>1, <1>2 DEF OrderOK
<1>6. CASE Size
  <2>1. PICK q : Refuse \/ Proceed([attempt EXCEPT !.stage = "reference", !.quantity = q])
    BY <1>6 DEF Size
  <2>2. [attempt EXCEPT !.stage = "reference", !.quantity = q].reference = attempt.reference
    BY DEF InStep
  <2> QED BY <2>1, <2>2, <1>1, <1>2 DEF OrderOK
<1>7. CASE CheckReference
  <2>1. PICK reference \in {price, signal.entry} :
          \/ Refuse
          \/ /\ attempt' = [attempt EXCEPT !.stage = "leverage", !.reference = reference, !.left = Ladder]
             /\ row' = [status |-> "PENDING", quantity |-> attempt.quantity, leverage |-> profile.leverage]
             /\ UNCHANGED <<leverage, paused>>
    BY <1>7 DEF CheckReference
  <2>2. reference \in Nat
    <3>1. price \in Nat
      BY DecisionConstants DEF WorldOK
    <3> QED BY <3>1 DEF SignalOK
  <2>3. ASSUME attempt' = [attempt EXCEPT !.stage = "leverage", !.reference = reference, !.left = Ladder],
               row' = [status |-> "PENDING", quantity |-> attempt.quantity, leverage |-> profile.leverage],
               UNCHANGED <<leverage, paused>>
        PROVE  OrderOK'
    <3>1. attempt'.reference = reference
      BY <2>3 DEF InStep
    <3>2. row'.quantity = attempt.quantity
      BY <2>3
    <3> QED BY <1>0, <2>2, <2>3, <3>1, <3>2 DEF OrderOK
  <2> QED BY <2>1, <2>3, <1>1
<1>8. CASE LeverageSet \/ LeverageTooHigh \/ LeverageFails \/ LadderEnds
  <2>1. /\ attempt.stage = "leverage" /\ UNCHANGED <<paused, row>>
        /\ \/ leverage' = leverage
           \/ attempt.left # <<>> /\ leverage' = Head(attempt.left)
        /\ NextRung \/ \E actual : Believe(actual)
    <3>1. CASE LeverageSet
      BY <3>1 DEF LeverageSet
    <3>2. CASE LeverageTooHigh
      BY <3>2 DEF LeverageTooHigh
    <3>3. CASE LeverageFails
      BY <3>3 DEF LeverageFails
    <3>4. CASE LadderEnds
      BY <3>4 DEF LadderEnds
    <3> QED BY <1>8, <3>1, <3>2, <3>3, <3>4
  <2>2. attempt'.reference = attempt.reference
    BY <2>1 DEF NextRung, Believe, InStep
  <2>3. leverage' \in Nat
    <3>1. attempt.left \in Seq(Nat)
      BY <2>1 DEF SizeOK
    <3>2. attempt.left # <<>> => Head(attempt.left) \in Nat
      BY <3>1
    <3> QED BY <2>1, <3>2 DEF OrderOK
  <2> QED BY <2>1, <2>2, <2>3 DEF OrderOK
<1>9. CASE PlaceOrder
  <2>1. /\ attempt' = [attempt EXCEPT !.stage = "idle"] /\ UNCHANGED <<leverage, paused>>
        /\ \/ row' = [row EXCEPT !.status = "FILLED", !.quantity = attempt.quantity]
           \/ row' = [row EXCEPT !.status = "FAILED"]
    BY <1>9 DEF PlaceOrder
  <2>2. attempt'.reference = attempt.reference
    BY <2>1 DEF InStep
  <2>3. row'.quantity \in {row.quantity, attempt.quantity}
    BY <2>1 DEF InStep
  <2> QED BY <1>0, <2>1, <2>2, <2>3 DEF OrderOK
<1>10. CASE UNCHANGED <<attempt, leverage, paused, row>>
  BY <1>10 DEF OrderOK
<1> QED
  BY <1>3, <1>4, <1>5, <1>6, <1>7, <1>8, <1>9, <1>10
  DEF Next, World, Session, Generate, MovePrice, Expire, SetSetting, DeleteSetting, vars

\* Every field keeps its type, whatever the models answered: prices and quantities are whole
\* and not negative, the keys of the settings stay those of CONFIG_DEFAULTS.
THEOREM TypeCorrect == Spec => []TypeOK
<1>1. Init => SignalOK /\ WorldOK /\ OrderOK
  <2> SUFFICES ASSUME Init PROVE SignalOK /\ WorldOK /\ OrderOK
    OBVIOUS
  <2>1. SignalOK
    BY DEF Init, SignalOK, NoSignal
  <2>2. WorldOK
    BY DecisionConstants DEF Init, WorldOK
  <2>3. OrderOK
    BY DEF Init, OrderOK, Idle, NoRow
  <2> QED BY <2>1, <2>2, <2>3
<1>2. InStep /\ LevelsOK /\ SizeOK /\ SignalOK /\ WorldOK /\ OrderOK /\ [Next]_vars
        => (SignalOK /\ WorldOK /\ OrderOK)'
  BY SignalStep, WorldStep, OrderStep
<1>3. InStep /\ SizeOK /\ SignalOK /\ WorldOK /\ OrderOK => TypeOK
  BY DEF InStep, SizeOK, SignalOK, WorldOK, OrderOK, TypeOK, Stages, Deciding, Ordering
<1> QED BY <1>1, <1>2, <1>3, SizeInvariant, PTL DEF Spec

=============================================================================
