---------------------------- MODULE MCPerformance ----------------------------
(***************************************************************************)
(* Three trades of two members on the three exchanges, over two days; one  *)
(* of Hyperliquid and one of Bybit share a symbol.  Trades and balances    *)
(* have nothing to do with each other, so a behaviour has one or the       *)
(* other; reports for one exchange or a custom range see two trades.       *)
(***************************************************************************)
EXTENDS Performance

Deal(owner, strategy, venue, side, symbol, signal, value) ==
    [owner |-> owner, strategy |-> strategy, venue |-> venue, side |-> side,
     symbol |-> symbol, signal |-> signal, value |-> value, leverage |-> 2]

MCDeals == <<Deal("ann", "calm", "hyperliquid", "buy", "BTC", "s1", 4),
             Deal("bob", "bold", "bybit", "sell", "BTC", "s2", 3),
             Deal("ann", "wild", "binance", "buy", "ETH", "s3", 5)>>
MCKindOf == [calm |-> "conservative", bold |-> "aggressive", wild |-> "aggressive"]
MCIssued == [s1 |-> [venue |-> "hyperliquid", at |-> 0], s2 |-> [venue |-> "bybit", at |-> 0],
             s3 |-> [venue |-> "binance", at |-> 1]]

MCResults == {-2, 1}

Nobody == [m \in Members |-> {}]
Ask(kinds, periods, venues) ==
    [kind : kinds, period : periods, venue : venues]

MCScenes ==
    {[trades |-> 1..3, twice |-> {1}, last |-> 2, requests |-> {}, connected |-> Nobody, captures |-> 0],
     [trades |-> 1..3, twice |-> {1}, last |-> 0, connected |-> Nobody, captures |-> 0,
      requests |-> Ask({"performance", "trading"}, {"days"}, {"any"})],
     [trades |-> {1, 2}, twice |-> {2}, last |-> 1, connected |-> Nobody, captures |-> 0,
      requests |-> Ask({"performance"}, {"custom"}, {"any", "hyperliquid"})
                   \union Ask({"executions"}, {"today"}, {"any"})],
     [trades |-> {}, twice |-> {}, last |-> 0, requests |-> {}, captures |-> 1,
      connected |-> [ann |-> {"hyperliquid"}, bob |-> {"bybit", "binance"}]],
     [trades |-> {}, twice |-> {}, last |-> 2, requests |-> {}, captures |-> 2,
      connected |-> [ann |-> {"bybit"}, bob |-> {}]]}
=============================================================================
