-------------------------- MODULE MCTradeDecision --------------------------
(***************************************************************************)
(* A coin at a hundred dollars, in tenths; prices in units of five cents,  *)
(* a grain of four of them so that rounding shows; leverages in tenths.    *)
(***************************************************************************)
EXTENDS TradeDecision

says(side, confidence, entry, stop, target) ==
    [says |-> side, confidence |-> confidence, entry |-> entry, stop |-> stop, target |-> target]

MCAnswers == {says("BUY", 900, 2008, 1989, 2022), says("BUY", 800, 2100, 0, 2060),
              says("SELL", 840, 0, 2004, 1890), says("HOLD", 500, 0, 0, 0)}

quiet == [reference |-> 2000, atr |-> 0, support15 |-> 0, resistance15 |-> 0, support |-> 0,
          resistance |-> 0, move |-> 0, rsi |-> 50, funding |-> 0]
MCViews == {quiet,
            [quiet EXCEPT !.atr = 500, !.support15 = 1996, !.resistance15 = 2004,
                          !.support = 1960, !.resistance = 2300, !.move = 8],
            [quiet EXCEPT !.move = -12, !.rsi = 30, !.funding = 60],
            [quiet EXCEPT !.reference = 0]}

MCPrices == {1952, 2000, 2032}
MCBalances == {0, 20000, 200000}
MCProfiles == {[allocation |-> 100, risk |-> 5, leverage |-> 25, cap |-> 1],
               [allocation |-> 50, risk |-> 10, leverage |-> 100, cap |-> 10],
               [allocation |-> 2000, risk |-> 10, leverage |-> 10, cap |-> 10]}
MCLots == {[step |-> 1, max |-> 0, leverage |-> 20], [step |-> 10, max |-> 25, leverage |-> 5]}
MCDefaults == [confidence |-> 700, buys |-> 0, buy_confidence |-> 790, trend |-> "neutral",
               filter |-> 1, override |-> 0, penalty |-> 100, counter_min |-> 950, blocked |-> 0,
               guard |-> 1, min_trades |-> 2, lookback |-> 30, win_rate |-> 45, profit_factor |-> 110]
MCWritable == {<<"buys", 1>>, <<"trend", "bullish">>, <<"blocked", 1>>, <<"confidence", 850>>}

trade(status, pnl, reason) == [status |-> status, side |-> "SELL", same |-> TRUE, pnl |-> pnl, reason |-> reason]
MCHistories == {<<>>, <<trade("CLOSED", -5000, "stop_loss"), trade("CLOSED", 2000, "take_profit")>>,
                <<trade("FILLED", 0, "none")>>}
=============================================================================
