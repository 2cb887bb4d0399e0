SPECIFICATION Spec
CONSTANTS
    Grain = 4
    Missing = missing
    Models = {"m1", "m2", "m3"}
    Answers <- MCAnswers
    Views <- MCViews
    Prices <- MCPrices
    Balances <- MCBalances
    Profiles <- MCProfiles
    OneFold = 10
    Lots <- MCLots
    Parts = 10
    Dollar = 200
    Exchanges = {"hyperliquid", "bybit", "binance"}
    Defaults <- MCDefaults
    Writable <- MCWritable
    Histories <- MCHistories
    Threshold = 700
    Exhausted = TRUE
    MaxWrites = 2

INVARIANTS
    TypeOK
