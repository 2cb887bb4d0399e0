----------------------------- MODULE Ambassador -----------------------------
(***************************************************************************)
(* The ambassador programme: the monthly cycle that ranks everybody and    *)
(* writes commissions and bonuses (services/ambassador.py), and what an    *)
(* admin does to them by hand: promotions, overrides, payouts, travel      *)
(* (routers/admin/ambassadors.py).                                         *)
(*                                                                         *)
(* A request is one transaction, READ COMMITTED, and requests do not       *)
(* overlap here: the cycle works on the tables step by step, while         *)
(* customers come and go, and puts them back if it fails.  Each commission *)
(* or bonus is an item of the ledger; payouts name items.                  *)
(* Display fields (par_count, level_breakdown, notes, the activity log)    *)
(* are left out.  Thirty days are a month.                                 *)
(***************************************************************************)
EXTENDS Downline, Sequences

CONSTANTS
    MayHold,        \* user |-> the subscriptions he may come to have
    Joined,         \* ambassador |-> month in which he registered
    FastStartTarget,
    Milestones,     \* PERFORMANCE_MILESTONES: [period, metric, threshold, amount]
    HandBonuses,    \* bonuses an admin gives: [kind, period, amount]
    HandRanks,      \* ranks an admin promotes to
    HandAmount,     \* the amount an admin corrects an item to
    MaxMonth,       \* bound: months
    MaxRequests,    \* bound: admin requests
    MaxPayouts,     \* bound: payouts at a time
    MaxCopies       \* bound: rows with the same ambassador, type and period

BonusTypes == {"RANK_ADVANCEMENT", "PERFORMANCE_MILESTONE", "FAST_START",
               "LOYALTY_RETENTION", "LEADERSHIP_POOL", "GENERATIONAL_OVERRIDE"}

ASSUME AmbassadorConstants ==
    /\ {MaxMonth, MaxCopies} \subseteq Nat \ {0} /\ {MaxRequests, MaxPayouts} \subseteq Nat
    /\ MayHold \in [Ambassadors -> SUBSET Subscribed]
    /\ Joined \in [Ambassadors -> 1..MaxMonth]
    /\ FastStartTarget \in Nat
    /\ IsFiniteSet(Milestones)
    /\ Milestones \subseteq [period : Nat, metric : {"par", "total_earned"},
                             threshold : Nat, amount : Nat]
    /\ HandBonuses \subseteq [kind : BonusTypes, period : Nat, amount : Int]
    /\ HandRanks \subseteq Ranks
    /\ HandAmount \in Int

Months == 1..MaxMonth
TravelStatuses == {"QUALIFYING", "QUALIFIED", "AWARDED", "EXPIRED"}
PayoutStatuses == {"PENDING", "PROCESSING", "PAID", "FAILED"}

\* In dollars in the code, in cents here.
AdvancementBonus(r) ==
    <<0, 25000, 75000, 250000, 500000, 1500000, 3000000, 7500000, 15000000, 50000000>>[r]
TravelRanks == 4..10
DiamondRanks == 6..10
FastStartBonus == 50000
FastStartPeriods == 3

VARIABLES
    now,            \* the month
    sub,            \* user |-> his live subscriptions
    rank, claimed, earned,   \* ambassadors: rank, fast_start_claimed, rewards_earned
    ledger,         \* commissions and bonuses: item |-> amount and status
    travel,         \* <<ambassador, rank>> |-> status of the incentive
    pool,           \* leadership_revenue_pools: month |-> record
    payout,         \* payout |-> record
    run,            \* the request that is working through ambassadors
    requests,       \* number of admin requests so far
    tidy, disputed, pooled   \* history, for the properties only

people == <<rank, claimed, earned, travel>>
history == <<tidy, disputed, pooled>>
money == <<ledger, pool, payout>>
vars == <<now, sub, people, money, run, requests, history>>

\* period: a month, a rank, a window or a milestone.
ItemIds == [amb : Ambassadors, kind : {"COMMISSION"} \union BonusTypes,
            period : Nat, copy : 1..MaxCopies]
Item == [amount : Int, status : {"PENDING", "PAID"}]

\* What a request does for each ambassador, in this order; the cycle ends with the
\* pool.  saved is what a rollback brings back.
Cycle == <<"rank", "commission", "loyalty", "faststart", "milestones">>
Tables == [rank |-> rank, claimed |-> claimed, earned |-> earned, travel |-> travel,
           ledger |-> ledger, pool |-> pool]
Idle == [todo |-> {}, who |-> Nobody, left |-> << >>, steps |-> << >>, month |-> 1,
         pool |-> FALSE, busy |-> FALSE, saved |-> << >>]

TypeOK ==
    /\ now \in Months
    /\ sub \in [Ambassadors -> Subscribed]
    /\ rank \in [Ambassadors -> Ranks]
    /\ claimed \in [Ambassadors -> 0..FastStartPeriods]
    /\ earned \in [Ambassadors -> Int]
    /\ \A i \in DOMAIN ledger : i \in ItemIds /\ ledger[i] \in Item
    /\ travel \in [Ambassadors \X Ranks -> TravelStatuses \union {"none"}]
    /\ DOMAIN pool \subseteq Months
    /\ \A m \in DOMAIN pool : pool[m] \in [total : Nat, eligible : Nat, share : Nat]
    /\ DOMAIN payout \subseteq 1..MaxPayouts
    /\ \A p \in DOMAIN payout : payout[p] \in [amb : Ambassadors, items : SUBSET DOMAIN ledger,
                                                total : Int, status : PayoutStatuses]
    /\ requests \in 0..MaxRequests
    /\ run.todo \subseteq Ambassadors /\ run.who \in Ambassadors \union {Nobody}
    /\ run.month \in Months /\ run.busy \in BOOLEAN /\ run.pool \in BOOLEAN

Init ==
    /\ now = 1
    /\ sub \in [Ambassadors -> Subscribed] /\ \A a \in Ambassadors : sub[a] \in MayHold[a]
    /\ rank = [a \in Ambassadors |-> 1]
    /\ claimed = [a \in Ambassadors |-> 0]
    /\ earned = [a \in Ambassadors |-> 0]
    /\ ledger = << >>
    /\ travel = [x \in Ambassadors \X Ranks |-> "none"]
    /\ pool = << >>
    /\ payout = << >>
    /\ run = Idle
    /\ requests = 0
    /\ tidy = TRUE /\ disputed = {} /\ pooled = [m \in Months |-> 0]

-----------------------------------------------------------------------------
(***************************************************************************)
(* The service, one function at a time.                                    *)
(***************************************************************************)

Request == ~run.busy /\ requests < MaxRequests /\ requests' = requests + 1

Start(steps, A, m, withPool) ==
    /\ Request
    /\ run' = [todo |-> A, who |-> Nobody, left |-> << >>, steps |-> steps, month |-> m,
               pool |-> withPool, busy |-> TRUE, saved |-> Tables]
    /\ UNCHANGED <<now, sub, people, money>>

RunMonthlyCycle(m) ==
    /\ Start(Cycle, Ambassadors, m, TRUE)
    /\ tidy' = (tidy /\ \A i \in DOMAIN ledger : ~(i.kind = "COMMISSION" /\ i.period = m))
    /\ pooled' = [pooled EXCEPT ![m] = IF @ < 2 THEN @ + 1 ELSE @]
    /\ UNCHANGED disputed

EvaluateRanks(A) == Start(<<"rank">>, A, now, FALSE) /\ UNCHANGED history

\* rewards_earned is left as it is.
RecalculateCommissions(A, m) ==
    /\ Start(<<"commission">>, A, m, FALSE)
    /\ tidy' = FALSE
    /\ UNCHANGED <<disputed, pooled>>

RecalculatePool(m) ==
    /\ Start(<< >>, {}, m, TRUE)
    /\ pooled' = [pooled EXCEPT ![m] = IF @ < 2 THEN @ + 1 ELSE @]
    /\ UNCHANGED <<tidy, disputed>>

\* SELECT without ORDER BY: the ambassadors come in any order.
Turn(a) ==
    /\ run.who = Nobody /\ a \in run.todo
    /\ run' = [run EXCEPT !.who = a, !.todo = @ \ {a}, !.left = run.steps]
    /\ UNCHANGED <<now, sub, people, money, requests, history>>

\* The step at hand is done, and with the last one the ambassador.
Doing(step, a) == run.left # << >> /\ Head(run.left) = step /\ run.who = a
Done ==
    run' = [run EXCEPT !.left = Tail(@), !.who = IF Len(run.left) = 1 THEN Nobody ELSE @]

Amounts == [i \in DOMAIN ledger |-> ledger[i].amount]
TotalOf(S) == SumFunctionOnSet(Amounts, S)

RowsOf(a, kind, period) ==
    {i \in DOMAIN ledger : i.amb = a /\ i.kind = kind /\ i.period = period}

Row(a, kind, period) ==
    [amb |-> a, kind |-> kind, period |-> period,
     copy |-> Cardinality(RowsOf(a, kind, period)) + 1]

Extended(new) ==
    [i \in DOMAIN ledger \union DOMAIN new |-> IF i \in DOMAIN new THEN new[i] ELSE ledger[i]]

Fresh(amount) == [amount |-> amount, status |-> "PENDING"]

\* scalar_one_or_none raises on a second row.
Readable(a, kind, period) == Cardinality(RowsOf(a, kind, period)) <= 1

\* Variant with a slip: no look at what was awarded before.
DueAlways(a, kind, period) == Cardinality(RowsOf(a, kind, period)) < MaxCopies

\* A bonus is awarded once per ambassador, type and period.
Due(a, kind, period) == RowsOf(a, kind, period) = {}

Bonus(a, kind, period, amount) ==
    IF amount > 0 /\ Due(a, kind, period)
      THEN [i \in {Row(a, kind, period)} |-> Fresh(amount)]
      ELSE << >>

Worth(new) == SumFunction([i \in DOMAIN new |-> new[i].amount])

\* Up or down; the bonus is for the rank reached, not for those passed on the way.
\* The session does not flush by itself: the ranks of the lines are those stored
\* before this request, but in the cycle, which flushes with every commission.
EvaluateRank(a) ==
    /\ Doing("rank", a)
    /\ LET best == BestRank(sub, IF run.steps = Cycle THEN rank ELSE run.saved.rank, a)
           up == best > rank[a]
       IN /\ up => Readable(a, "RANK_ADVANCEMENT", best)
          /\ rank' = [rank EXCEPT ![a] = best]
          /\ ledger' = IF up THEN Extended(Bonus(a, "RANK_ADVANCEMENT", best, AdvancementBonus(best)))
                             ELSE ledger
          /\ travel' = IF up /\ best \in TravelRanks /\ travel[<<a, best>>] = "none"
                         THEN [travel EXCEPT ![<<a, best>>] = "QUALIFYING"]
                         ELSE travel
    /\ Done
    /\ UNCHANGED <<now, sub, claimed, earned, pool, payout, requests, history>>

CommissionOf(a, m) == [amb |-> a, kind |-> "COMMISSION", period |-> m, copy |-> 1]

\* Variant with a slip: what has been paid is calculated anew.
CalculatedAnyway(a, m) ==
    Extended([i \in {CommissionOf(a, m)} |->
        [amount |-> CommissionFor(sub, a, rank[a]),
         status |-> IF i \in DOMAIN ledger THEN ledger[i].status ELSE "PENDING"]])

\* Inserted, or overwritten while PENDING.
Calculated(a, m) ==
    LET i == CommissionOf(a, m)
    IN IF i \in DOMAIN ledger /\ ledger[i].status = "PAID" THEN ledger
       ELSE Extended([j \in {i} |-> Fresh(CommissionFor(sub, a, rank[a]))])

\* The cycle adds the commission to rewards_earned on every run, whether or not
\* the record was there before.
CalculateCommission(a) ==
    /\ Doing("commission", a)
    /\ ledger' = Calculated(a, run.month)
    /\ earned' = IF run.steps = Cycle
                   THEN [earned EXCEPT ![a] = @ + ledger'[CommissionOf(a, run.month)].amount]
                   ELSE earned
    /\ Done
    /\ UNCHANGED <<now, sub, rank, claimed, travel, pool, payout, requests, history>>

\* Variant with a slip: the bonus is not added to rewards_earned.
CreditNothing(a, new) ==
    /\ ledger' = Extended(new)
    /\ UNCHANGED earned

Credit(a, new) ==
    /\ ledger' = Extended(new)
    /\ earned' = [earned EXCEPT ![a] = @ + Worth(new)]

CalculateLoyalty(a) ==
    /\ Doing("loyalty", a)
    /\ Readable(a, "LOYALTY_RETENTION", run.month)
    /\ Credit(a, Bonus(a, "LOYALTY_RETENTION", run.month, LoyaltyFor(sub, a)))
    /\ Done
    /\ UNCHANGED <<now, sub, rank, claimed, travel, pool, payout, requests, history>>

\* Windows of thirty days from the registration on, judged in order: won as soon
\* as enough of those who joined in it subscribe, lost when it is over.
CheckFastStart(a) ==
    /\ Doing("faststart", a)
    /\ LET window == Joined[a] + claimed[a]
           joined == {b \in Referrals(a) : Joined[b] = window}
           won == SumFunctionOnSet(Rows(sub), joined) >= FastStartTarget
           period == claimed[a] + 1
       IN IF claimed[a] < FastStartPeriods /\ (won \/ now > window)
            THEN /\ claimed' = [claimed EXCEPT ![a] = period]
                 /\ won => Readable(a, "FAST_START", period)
                 /\ Credit(a, IF won THEN Bonus(a, "FAST_START", period, FastStartBonus) ELSE << >>)
            ELSE UNCHANGED <<claimed, ledger, earned>>
    /\ Done
    /\ UNCHANGED <<now, sub, rank, travel, pool, payout, requests, history>>

\* Thresholds of earnings are in dollars.
Reached(a, x) ==
    IF x.metric = "par" THEN ParCount(sub, a) >= x.threshold ELSE earned[a] >= x.threshold * 100

CheckMilestones(a) ==
    /\ Doing("milestones", a)
    /\ LET reached == {x \in Milestones : Reached(a, x)}
           due == {x \in reached : Due(a, "PERFORMANCE_MILESTONE", x.period)}
           new == [i \in {Row(a, "PERFORMANCE_MILESTONE", x.period) : x \in due} |->
                     Fresh((CHOOSE x \in due : x.period = i.period).amount)]
       IN /\ \A x \in reached : Readable(a, "PERFORMANCE_MILESTONE", x.period)
          /\ Credit(a, new)
    /\ Done
    /\ UNCHANGED <<now, sub, rank, claimed, travel, pool, payout, requests, history>>

Rounded(x, n) == (2 * x + n) \div (2 * n)

Sharers == {a \in Ambassadors : rank[a] \in DiamondRanks}

ShareOf(total, n) == IF n > 0 THEN Rounded(total, n) ELSE 0

\* The record is overwritten; the shares go to those who have none for the month.
CalculatePool ==
    /\ run.busy /\ run.pool /\ run.todo = {} /\ run.who = Nobody
    /\ LET m == run.month
           n == Cardinality(Sharers)
           share == ShareOf(PoolFor(sub), n)
           due == {a \in Sharers : Due(a, "LEADERSHIP_POOL", m)}
       IN /\ share > 0 => \A a \in Sharers : Readable(a, "LEADERSHIP_POOL", m)
          /\ pool' = [k \in DOMAIN pool \union {m} |->
                        IF k = m THEN [total |-> PoolFor(sub), eligible |-> n, share |-> share]
                                 ELSE pool[k]]
          /\ ledger' = IF share > 0
                         THEN Extended([i \in {Row(a, "LEADERSHIP_POOL", m) : a \in due} |-> Fresh(share)])
                         ELSE ledger
    /\ run' = [run EXCEPT !.pool = FALSE]
    /\ UNCHANGED <<now, sub, people, payout, requests, history>>

Commit ==
    /\ run.busy /\ run.todo = {} /\ run.who = Nobody /\ ~run.pool
    /\ run' = Idle
    /\ UNCHANGED <<now, sub, people, money, requests, history>>

\* An exception, a second row where one was expected among them, or a lost
\* connection.
RollBack ==
    /\ run.busy
    /\ rank' = run.saved.rank /\ claimed' = run.saved.claimed /\ earned' = run.saved.earned
    /\ travel' = run.saved.travel /\ ledger' = run.saved.ledger /\ pool' = run.saved.pool
    /\ run' = Idle
    /\ UNCHANGED <<now, sub, payout, requests, history>>

-----------------------------------------------------------------------------
(***************************************************************************)
(* Requests that edit by hand.                                             *)
(***************************************************************************)

\* No look at bonuses awarded before, or at the rank held.
Promote(a, r) ==
    /\ Request
    /\ rank' = [rank EXCEPT ![a] = r]
    /\ Cardinality(RowsOf(a, "RANK_ADVANCEMENT", r)) < MaxCopies
    /\ ledger' = IF AdvancementBonus(r) > 0
                   THEN Extended([i \in {Row(a, "RANK_ADVANCEMENT", r)} |-> Fresh(AdvancementBonus(r))])
                   ELSE ledger
    /\ UNCHANGED <<now, sub, claimed, earned, travel, pool, payout, run, history>>

CreateBonus(a, b) ==
    /\ Request
    /\ Cardinality(RowsOf(a, b.kind, b.period)) < MaxCopies
    /\ ledger' = Extended([i \in {Row(a, b.kind, b.period)} |-> Fresh(b.amount)])
    /\ tidy' = FALSE
    /\ UNCHANGED <<now, sub, people, pool, payout, run, disputed, pooled>>

\* The overrides of a commission and of a bonus do the same.
UpdateItem(i, new) ==
    /\ Request
    /\ ledger' = [ledger EXCEPT ![i] = new]
    /\ tidy' = FALSE
    /\ disputed' = disputed \union {i}
    /\ UNCHANGED <<now, sub, people, pool, payout, run, pooled>>

UpdateCommission(i, new) == i.kind = "COMMISSION" /\ UpdateItem(i, new)
UpdateBonus(i, new) == i.kind \in BonusTypes /\ UpdateItem(i, new)

\* Variant with a slip: the status is one the column does not know.
MarkedApproved(S, status) ==
    [i \in DOMAIN ledger |-> IF i \in S THEN [ledger[i] EXCEPT !.status = "APPROVED"] ELSE ledger[i]]

Marked(S, status) ==
    [i \in DOMAIN ledger |-> IF i \in S THEN [ledger[i] EXCEPT !.status = status] ELSE ledger[i]]

BulkApprove(S) ==
    /\ Request
    /\ ledger' = Marked({i \in S : ledger[i].status = "PENDING"}, "PAID")
    /\ UNCHANGED <<now, sub, people, pool, payout, run, history>>

\* Items in any status, also those another payout has, and an item may be named
\* twice: disputed then.
CreatePayout(p, a, S, twice) ==
    /\ Request
    /\ p \notin DOMAIN payout
    /\ \A i \in S : i.amb = a
    /\ LET record == [amb |-> a, items |-> S, total |-> TotalOf(S) + TotalOf(twice),
                      status |-> "PENDING"]
       IN payout' = [q \in DOMAIN payout \union {p} |-> IF q = p THEN record ELSE payout[q]]
    /\ ledger' = Marked(S, "PAID")
    /\ disputed' = disputed \union twice \union {i \in S : ledger[i].status = "PAID"}
    /\ UNCHANGED <<now, sub, people, pool, run, tidy, pooled>>

UpdatePayout(p, status) ==
    /\ Request
    /\ payout' = [payout EXCEPT ![p].status = status]
    /\ ledger' = IF status = "PAID" THEN Marked(payout[p].items, "PAID") ELSE ledger
    /\ UNCHANGED <<now, sub, people, pool, run, history>>

\* The items are left as they are.
BulkUpdatePayouts(P, status) ==
    /\ Request
    /\ payout' = [p \in DOMAIN payout |-> IF p \in P THEN [payout[p] EXCEPT !.status = status]
                                                     ELSE payout[p]]
    /\ UNCHANGED <<now, sub, people, ledger, pool, run, history>>

CancelPayout(p) ==
    /\ Request
    /\ payout[p].status # "PAID"
    /\ payout' = [q \in DOMAIN payout \ {p} |-> payout[q]]
    /\ ledger' = Marked(payout[p].items, "PENDING")
    /\ UNCHANGED <<now, sub, people, pool, run, history>>

AwardTravel(a) ==
    /\ Request
    /\ rank[a] \in TravelRanks
    /\ travel' = [travel EXCEPT ![<<a, rank[a]>>] = "AWARDED"]
    /\ UNCHANGED <<now, sub, rank, claimed, earned, ledger, pool, payout, run, history>>

UpdateTravel(a, r, status) ==
    /\ Request
    /\ travel[<<a, r>>] # "none"
    /\ travel' = [travel EXCEPT ![<<a, r>>] = status]
    /\ UNCHANGED <<now, sub, rank, claimed, earned, ledger, pool, payout, run, history>>

-----------------------------------------------------------------------------
\* Customers subscribe, renew and leave, also while a request runs, between two
\* ambassadors; the month does not change meanwhile.
Churn(a, s) ==
    /\ run.who = Nobody
    /\ sub[a] # s
    /\ sub' = [sub EXCEPT ![a] = s]
    /\ UNCHANGED <<now, people, money, run, requests, history>>

Elapse ==
    /\ ~run.busy /\ now < MaxMonth
    /\ now' = now + 1
    /\ UNCHANGED <<sub, people, money, run, requests, history>>

Ranking ==
    \/ \E m \in 1..now : RunMonthlyCycle(m) \/ RecalculatePool(m)
    \/ \E A \in {Ambassadors} \union {{a} : a \in Ambassadors} :
          EvaluateRanks(A) \/ \E m \in 1..now : RecalculateCommissions(A, m)

Working ==
    \/ \E a \in Ambassadors :
          \/ Turn(a)
          \/ EvaluateRank(a) \/ CalculateCommission(a) \/ CalculateLoyalty(a)
          \/ CheckFastStart(a) \/ CheckMilestones(a)
    \/ CalculatePool \/ Commit \/ RollBack

ByHand ==
    \/ \E a \in Ambassadors : \/ \E r \in HandRanks : Promote(a, r)
                              \/ \E b \in HandBonuses : CreateBonus(a, b)

Editing ==
    \E i \in DOMAIN ledger :
       \E new \in {[ledger[i] EXCEPT !.status = s] : s \in {"PENDING", "PAID"}}
                    \union {[ledger[i] EXCEPT !.amount = HandAmount]} :
          UpdateCommission(i, new) \/ UpdateBonus(i, new)

PayingOut ==
    \/ \E i \in DOMAIN ledger : i.kind = "COMMISSION" /\ BulkApprove({i})
    \/ \E p \in 1..MaxPayouts, a \in Ambassadors :
          \E i, j \in DOMAIN ledger : \E twice \in SUBSET {i} : CreatePayout(p, a, {i, j}, twice)
    \/ \E p \in DOMAIN payout, status \in PayoutStatuses : UpdatePayout(p, status)
    \/ \E status \in PayoutStatuses : BulkUpdatePayouts(DOMAIN payout, status)
    \/ \E p \in DOMAIN payout : CancelPayout(p)

Travelling ==
    \/ \E a \in Ambassadors : AwardTravel(a)
    \/ \E a \in Ambassadors, r \in Ranks, status \in TravelStatuses : UpdateTravel(a, r, status)

Next ==
    \/ Ranking \/ Working \/ ByHand \/ Editing \/ PayingOut \/ Travelling
    \/ \E a \in Ambassadors : \E s \in MayHold[a] : Churn(a, s)
    \/ Elapse

Spec == Init /\ [][Next]_vars

-----------------------------------------------------------------------------
(***************************************************************************)
(* Properties.                                                             *)
(***************************************************************************)

ItemsOf(a) == {i \in DOMAIN ledger : i.amb = a}

\* get_earnings_summary: what the ambassador is shown as paid and as pending.
EarningsSummary(a) ==
    [paid |-> TotalOf({i \in ItemsOf(a) : ledger[i].status = "PAID"}),
     pending |-> TotalOf({i \in ItemsOf(a) : ledger[i].status = "PENDING"})]

\* However often ranks go up and down and cycles are repeated, the service never
\* adds a second row of one ambassador, type and period ("if not already awarded
\* for this rank", "not yet been claimed"); only an admin does, and the next
\* cycle that looks for the row then fails.
AutomaticOnce ==
    [][ByHand \/ RollBack \/ \A i \in DOMAIN ledger' \ DOMAIN ledger : i.copy = 1]_vars

\* A payout stands for its items: until an admin edits one or pays it twice, they
\* are PAID and sum up to its total, whatever is recalculated.
PayoutsStand ==
    \A p \in DOMAIN payout :
       payout[p].items \intersect disputed = {} =>
          /\ payout[p].total = TotalOf(payout[p].items)
          /\ \A i \in payout[p].items : ledger[i].status = "PAID"

\* With one cycle per month and nothing done by hand, rewards_earned and the rows
\* tell the same story: the earnings an ambassador is shown are rewards_earned
\* plus the rank and pool bonuses, which it leaves out.
EarnedMatchesRows ==
    tidy /\ ~run.busy => \A a \in Ambassadors :
       EarningsSummary(a).paid + EarningsSummary(a).pending =
          earned[a] + TotalOf({i \in ItemsOf(a) : i.kind \in {"RANK_ADVANCEMENT", "LEADERSHIP_POOL"}})

\* The shares of a pool calculated once, as the code asks for, are the pool, up to
\* half a cent each.
PoolIsShared ==
    \A m \in DOMAIN pool :
       LET shares == {i \in DOMAIN ledger : i.kind = "LEADERSHIP_POOL" /\ i.period = m}
       IN pooled[m] = 1 /\ tidy /\ ~run.busy /\ pool[m].eligible > 0 =>
             /\ 2 * TotalOf(shares) <= 2 * pool[m].total + pool[m].eligible
             /\ 2 * TotalOf(shares) + pool[m].eligible >= 2 * pool[m].total

\* The sums of the programme and its rows agree.
MoneyAddsUp == EarnedMatchesRows /\ PoolIsShared
=============================================================================
