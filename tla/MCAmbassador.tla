---------------------------- MODULE MCAmbassador ----------------------------
(***************************************************************************)
(* An ambassador with two live subscriptions and one he referred, who may  *)
(* have subscribed for a year.  The thresholds are scaled down so that the *)
(* first one reaches a rank that shares in the pool; the Crown rank is     *)
(* only given by hand.                                                     *)
(***************************************************************************)
EXTENDS Ambassador, TLC

CONSTANTS a, b, nobody

MCUpline == (a :> nobody) @@ (b :> a)
MCMayHold == (a :> {"two"}) @@ (b :> {"none", "loyal"})
MCJoined == (a :> 1) @@ (b :> 1)
MCPlanPrice == (a :> 100) @@ (b :> 101)

Never == [par |-> 9, tav |-> 9, legs |-> 0, legRank |-> 1]
MCCriteria ==
    [r \in 1..10 |->
       CASE r = 1 -> [par |-> 0, tav |-> 0, legs |-> 0, legRank |-> 1]
         [] r = 2 -> [par |-> 1, tav |-> 1, legs |-> 0, legRank |-> 1]
         [] r = 6 -> [par |-> 1, tav |-> 1, legs |-> 1, legRank |-> 1]
         [] OTHER -> Never]

MCMilestones == {[period |-> 1, metric |-> "par", threshold |-> 1, amount |-> 10000],
                 [period |-> 2, metric |-> "total_earned", threshold |-> 20, amount |-> 25000]}
MCHandBonuses == {[kind |-> "PERFORMANCE_MILESTONE", period |-> 1, amount |-> 500]}
=============================================================================
