SPECIFICATION Spec
CONSTANTS
    a = a
    b = b
    nobody = nobody
    Ambassadors = {a, b}
    Nobody = nobody
    Upline <- MCUpline
    Criteria <- MCCriteria
    OverrideBeyond = 1
    PlanPrice <- MCPlanPrice
    MayHold <- MCMayHold
    Joined <- MCJoined
    FastStartTarget = 1
    Milestones <- MCMilestones
    HandBonuses <- MCHandBonuses
    HandRanks = {9}
    HandAmount = 700
    MaxMonth = 2
    MaxRequests = 3
    MaxPayouts = 1
    MaxCopies = 2

INVARIANTS
    TypeOK
    PayoutsStand
    MoneyAddsUp

PROPERTIES
    AutomaticOnce
