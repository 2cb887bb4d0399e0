SPECIFICATION Spec

CONSTANTS
    e1 = e1
    e2 = e2
    e3 = e3
    c1 = c1
    c2 = c2
    btc = btc
    q1 = q1
    q2 = q2
    Rows = {e1, e2}
    Accounts = {c1, c2}
    Symbols = {btc}
    AccountOf <- Apart
    VenueOf <- HLBybit
    SymbolOf <- OneSymbol
    Monitors = {m1}
    Requests = {}
    TargetOf <- Never
    Broken = {}
    Faults = {"apiError"}

INVARIANTS
    ClosedWasGone

CHECK_DEADLOCK FALSE
