SPECIFICATION Spec

CONSTANTS
    e1 = e1
    e2 = e2
    e3 = e3
    c1 = c1
    c2 = c2
    btc = btc
    q1 = q1
    q2 = q2
    Rows = {e1, e2, e3}
    Accounts = {c1, c2}
    Symbols = {btc}
    AccountOf <- Shared
    VenueOf <- HLBybit
    SymbolOf <- OneSymbol3
    Monitors = {m1, m2}
    Requests = {q1}
    TargetOf <- Once
    Broken = {}
    Faults = {"apiError", "noFill", "crash", "overlap", "switch"}

SYMMETRY Interchangeable

INVARIANTS
    ClosedIsGone

CHECK_DEADLOCK FALSE
