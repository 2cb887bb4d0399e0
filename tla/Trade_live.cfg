SPECIFICATION FairSpec

CONSTANTS
    s1 = s1
    s2 = s2
    t1 = t1
    t2 = t2
    u1 = u1
    btc = btc
    Attempts = {a1, a2}
    Signals = {s1, s2}
    Strategies = {t1}
    Users = {u1}
    Symbols = {btc}
    SymbolOf <- OneSymbol
    VenueOf <- BybitAndHL
    OwnerOf <- OneStrategy
    MaxPositions = 1
    Concurrency = 2
    Routes = {"task", "trigger"}
    Faults = {"noFill", "tpslFails", "closeFails"}

PROPERTIES
    SessionsEnd

CHECK_DEADLOCK FALSE
