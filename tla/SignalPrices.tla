---------------------------- MODULE SignalPrices ----------------------------
(***************************************************************************)
(* How the answers of the models become the prices of a signal             *)
(* (services/ai_engine.py): majority, medians, and the levels moved onto   *)
(* the live price.  A price is a whole number of units, a grain of which   *)
(* is the eighth decimal that is stored; 0 stands for a price that is      *)
(* missing, not a number or not positive (_to_float).  Confidence is in    *)
(* thousandths, the ratio of reward to risk in hundredths, the average     *)
(* true range in hundredths of a percent.                                  *)
(***************************************************************************)
EXTENDS Integers, Sequences, FiniteSets, Functions

CONSTANTS
    Grain,      \* units in the eighth decimal
    Missing     \* a model that failed

ASSUME GrainIsPositive == Grain \in Nat \ {0}

Sides == {"BUY", "SELL"}
MinStop == 50       \* MIN_SL_DISTANCE_PCT, in hundredths of a percent
MaxStop == 200      \* MAX_SL_DISTANCE_PCT
MinRatio == 250     \* MIN_RISK_REWARD_RATIO, in hundredths

Gap(a, b) == IF a < b THEN b - a ELSE a - b

\* towards the profit of a trade on that side
Ahead(side, a, b) == IF side = "BUY" THEN a < b ELSE b < a
Further(side, price, by) == IF side = "BUY" THEN price + by ELSE price - by

----------------------------------------------------------------------------
(* The answers. *)

\* round(price, 8)
Stored(price) == ((2 * price + Grain) \div (2 * Grain)) * Grain

KthPrice(prices, k) ==
    CHOOSE p \in {prices[i] : i \in DOMAIN prices} :
        /\ Cardinality({i \in DOMAIN prices : prices[i] < p}) < k
        /\ Cardinality({i \in DOMAIN prices : prices[i] <= p}) >= k

\* of the answers that agree, those that name a price
MedianPrice(answers, agree, field) ==
    LET known == [i \in {j \in agree : answers[j][field] > 0} |-> answers[i][field]]
        n == Cardinality(DOMAIN known)
    IN  IF n = 0 THEN 0
        ELSE (KthPrice(known, (n + 1) \div 2) + KthPrice(known, (n + 2) \div 2)) \div 2

\* a model that failed has no say
Valid(answers) == {i \in DOMAIN answers : answers[i] # Missing}
Saying(answers, side) == {i \in Valid(answers) : answers[i].says = side}

Consensus(answers) ==
    {side \in Sides : 2 * Cardinality(Saying(answers, side)) > Cardinality(Valid(answers))}

\* the move of the day, in percent, takes confidence off a signal that follows it
ChasePenalty(side, move) ==
    LET chased == IF side = "BUY" THEN move ELSE -move
    IN  IF chased <= 5 THEN 0 ELSE IF chased < 15 THEN 10 * chased ELSE 150

Aggregated(answers, side, move) ==
    LET agree == Saying(answers, side)
        n == Cardinality(agree)
        total == SumFunction([i \in agree |-> answers[i].confidence])
        level(field) == Stored(MedianPrice(answers, agree, field))
    IN  [confidence |-> (2 * total + n) \div (2 * n) - ChasePenalty(side, move),
         entry |-> level("entry"), stop |-> level("stop"), target |-> level("target")]

----------------------------------------------------------------------------
(* The levels. *)

StopNotTooWide(entry, stop) == 10000 * Gap(entry, stop) <= MaxStop * entry

StopInBounds(entry, stop) ==
    /\ MinStop * entry <= 10000 * Gap(entry, stop)
    /\ 10000 * Gap(entry, stop) <= MaxStop * entry

Stacked(side, entry, stop, target) ==
    /\ entry > 0 /\ stop > 0 /\ target > 0
    /\ Ahead(side, stop, entry) /\ Ahead(side, entry, target)

\* round(reward / risk, 2); no risk has no ratio
Ratio(entry, stop, target) ==
    IF Gap(entry, stop) = 0 THEN 0
    ELSE (200 * Gap(target, entry) + Gap(entry, stop)) \div (2 * Gap(entry, stop))

EntryNear(suggested, reference) ==
    IF suggested > 0 /\ 10000 * Gap(suggested, reference) <= 75 * reference
    THEN suggested ELSE reference

Padding(entry, atr) ==
    LET known == IF atr > 0 THEN atr ELSE 100
        pct == IF known < MinStop THEN MinStop ELSE IF known > MaxStop THEN MaxStop ELSE known
    IN  (entry * pct) \div 10000

\* the stop of the models if it is on the losing side, else one behind the 15m level;
\* either gives way to one at the padding when it is too near or too far
StopFor(side, entry, suggested, level, pad) ==
    LET behind == IF level > 0 /\ Ahead(side, level, entry) THEN level ELSE entry
        stop == IF suggested > 0 /\ Ahead(side, suggested, entry)
                THEN suggested ELSE Further(side, behind, -pad)
    IN  IF StopInBounds(entry, stop) THEN stop ELSE Further(side, entry, -pad)

\* at least two and a half times the risk away, at the next 1h level if that is further
TargetFor(side, entry, stop, suggested, level) ==
    LET least == Further(side, entry, (MinRatio * Gap(entry, stop) + 99) \div 100)
    IN  IF suggested > 0 /\ ~Ahead(side, suggested, least) THEN suggested
        ELSE IF level > 0 /\ Ahead(side, least, level) THEN level ELSE least

\* the set of the levels the suggestion is normalised to: one, or none if it is skipped
Normalised(side, view, drafted) ==
    LET entry == EntryNear(drafted.entry, view.reference)
        stop == StopFor(side, entry, drafted.stop,
                        IF side = "BUY" THEN view.support15 ELSE view.resistance15,
                        Padding(entry, view.atr))
        target == TargetFor(side, entry, stop, drafted.target,
                            IF side = "BUY" THEN view.resistance ELSE view.support)
    IN  IF /\ view.reference > 0
           /\ Stacked(side, entry, stop, target)
           /\ StopInBounds(entry, stop)
           /\ Ratio(entry, stop, target) >= MinRatio
        THEN {[entry |-> entry, stop |-> stop, target |-> target]} ELSE {}

\* overextended moves and crowded funding, in thousandths of a percent
Filtered(side, view) ==
    \/ side = "BUY"  /\ view.move > 10  /\ view.rsi > 65
    \/ side = "SELL" /\ view.move < -10 /\ view.rsi < 35
    \/ side = "BUY"  /\ view.funding > 50
    \/ side = "SELL" /\ view.funding < -50

\* the set of the signals one round of answers ends in: one or none
SignalsFrom(answers, view, threshold) ==
    LET drafts == {<<side, Aggregated(answers, side, view.move)>> : side \in Consensus(answers)}
        made == UNION {{[side |-> d[1], confidence |-> d[2].confidence, entry |-> Stored(l.entry),
                         stop |-> Stored(l.stop), target |-> Stored(l.target)] :
                            l \in Normalised(d[1], view, d[2])} : d \in drafts}
    IN  {s \in made :
            /\ ~Filtered(s.side, view)
            /\ s.confidence >= threshold
            /\ s.entry > 0 /\ s.stop > 0 /\ s.target > 0
            /\ StopInBounds(s.entry, s.stop)}
=============================================================================
