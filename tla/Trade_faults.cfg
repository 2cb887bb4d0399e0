SPECIFICATION Spec

CONSTANTS
    s1 = s1
    s2 = s2
    t1 = t1
    t2 = t2
    u1 = u1
    btc = btc
    Attempts = {a1, a2}
    Signals = {s1, s2}
    Strategies = {t1, t2}
    Users = {u1}
    Symbols = {btc}
    SymbolOf <- OneSymbol
    VenueOf <- HLAndBinance
    OwnerOf <- OneOwner
    MaxPositions = 1
    Concurrency = 2
    Routes = {"task"}
    Faults = {"crash", "lostAck", "noFill", "tpslFails", "closeFails", "blindFetch", "switch", "delete", "purge"}

SYMMETRY Interchangeable

INVARIANTS
    OrderedOnce
    OpenLotsAreBooked
    OneRowPerKey
    ProtectedOrAlarmed

PROPERTIES
    ImplementsLedger

CHECK_DEADLOCK FALSE
