------------------------------ MODULE Downline ------------------------------
(***************************************************************************)
(* The referral tree of the ambassador programme and what is computed from *)
(* it: counts of paying referrals, qualification for a rank, commissions   *)
(* (services/ambassador.py).                                               *)
(*                                                                         *)
(* Amounts are in cents and plan prices in dollars, so that p percent of a *)
(* price is price * p.  A user's subscriptions are summed up as            *)
(*     none    no live subscription                                        *)
(*     one     one live subscription                                       *)
(*     loyal   one, for twelve months or more                              *)
(*     two     two live ones: a new one bought while EXPIRING_SOON         *)
(***************************************************************************)
EXTENDS Integers, FiniteSets, FiniteSetsExt, Functions

CONSTANTS
    Ambassadors,
    Nobody,         \* the upline of those nobody referred
    Upline,         \* ambassadors.referred_by, fixed at registration
    Criteria,       \* RANK_CRITERIA: rank |-> thresholds; an instance scales them down
    OverrideBeyond, \* last level without the generational override (10 in the code)
    PlanPrice       \* ambassador |-> price of the plan he subscribes to

Ranks == 1..10      \* ASSOCIATE .. GRAND_CROWN
Levels == 1..20     \* the code follows the override to level 50
Subscribed == {"none", "one", "loyal", "two"}

ASSUME DownlineConstants ==
    /\ IsFiniteSet(Ambassadors) /\ Nobody \notin Ambassadors
    /\ Upline \in [Ambassadors -> Ambassadors \union {Nobody}]
    /\ Criteria \in [Ranks -> [par : Nat, tav : Nat, legs : Nat, legRank : Ranks]]
    /\ OverrideBeyond \in Nat
    /\ PlanPrice \in [Ambassadors -> Nat]

\* RANK_MAX_DEPTH, LEVEL_RATES (percent), GENERATIONAL_RANKS.
RankMaxDepth(r) == r
LevelRate(level) ==
    CASE level = 1 -> 25
      [] level = 2 -> 8
      [] level = 3 -> 5
      [] level = 4 -> 4
      [] level \in {5, 6} -> 3
      [] level \in 7..10 -> 2
      [] OTHER -> 0
GenerationalRanks == {9, 10}

-----------------------------------------------------------------------------

\* The newest live subscription counts, whatever it costs.
PriceFor(sub, a) == IF sub[a] = "none" THEN 0 ELSE PlanPrice[a]
LiveRows(sub, a) == CASE sub[a] = "none" -> 0 [] sub[a] = "two" -> 2 [] OTHER -> 1
Prices(sub) == [a \in Ambassadors |-> PriceFor(sub, a)]
Rows(sub) == [a \in Ambassadors |-> LiveRows(sub, a)]

Referrals(a) == {b \in Ambassadors : Upline[b] = a}

\* Breadth first in the code: a level is everybody referred by the level above.
UplineAt[d \in Levels, b \in Ambassadors] ==
    IF d = 1 THEN Upline[b]
             ELSE LET up == UplineAt[d - 1, b] IN IF up \in Ambassadors THEN Upline[up] ELSE Nobody

DownlineByLevel ==
    [a \in Ambassadors |-> [d \in Levels |-> {b \in Ambassadors : UplineAt[d, b] = a}]]

Paying(sub, a, d) == {b \in DownlineByLevel[a][d] : PriceFor(sub, b) > 0}

\* The join has one row per live subscription, not per person.
ParCount(sub, a) == SumFunctionOnSet(Rows(sub), Referrals(a))

TavCount(sub, a) == Cardinality(UNION {Paying(sub, a, d) : d \in Levels})

\* Depth first down one line, its head included.
DownlineHasRank(rank, a, needed) ==
    \/ rank[a] >= needed
    \/ \E d \in Levels : \E b \in DownlineByLevel[a][d] : rank[b] >= needed

QualifyingLegs(rank, a, needed) ==
    Cardinality({b \in Referrals(a) : DownlineHasRank(rank, b, needed)})

Qualifies(sub, rank, a, r) ==
    /\ Criteria[r].par > 0 => ParCount(sub, a) >= Criteria[r].par
    /\ Criteria[r].tav > 0 => TavCount(sub, a) >= Criteria[r].tav
    /\ Criteria[r].legs > 0 => QualifyingLegs(rank, a, Criteria[r].legRank) >= Criteria[r].legs

\* The highest rank whose own criteria are met, whatever those below it ask for.
BestRank(sub, rank, a) == Max({1} \union {r \in Ranks : Qualifies(sub, rank, a, r)})

-----------------------------------------------------------------------------

Sales(sub, a, d) == SumFunctionOnSet(Prices(sub), Paying(sub, a, d))

\* Each level the rank earns on at its rate; from the Crown ranks on one percent
\* of everything further down.
CommissionFor(sub, a, r) ==
    LET sales == [d \in Levels |-> Sales(sub, a, d)]
        beyond == {d \in Levels : r \in GenerationalRanks /\ d > OverrideBeyond}
    IN SumFunctionOnSet([d \in Levels |-> sales[d] * LevelRate(d)], 1..RankMaxDepth(r))
         + SumFunctionOnSet(sales, beyond)

\* Ten percent of the plan for each direct referral subscribed for a year.
LoyaltyFor(sub, a) ==
    10 * SumFunctionOnSet(Prices(sub), {b \in Referrals(a) : sub[b] = "loyal"})

\* Two percent of what all live subscriptions cost, each row counted.
PoolFor(sub) == 2 * SumFunction([a \in Ambassadors |-> PlanPrice[a] * LiveRows(sub, a)])
=============================================================================
