SPECIFICATION Spec
CONSTANTS
    w1 = w1
    w2 = w2
    bybit = bybit
    binance = binance
    Exchanges = {bybit, binance}
    Symbols = {"btc"}
    Strategies = {"s1"}
    Workers = {w1, w2}
    Cancellable = {bybit}
    Lifetime = 1
    Retention = 1
    Faults = {"error", "lost", "killed"}
    MaxNow = 2
    MaxStarts = 2
    MaxRequests = 1

SYMMETRY Interchangeable

INVARIANT OneSignalAtATime
