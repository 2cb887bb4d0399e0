--------------------------- MODULE TradeDecision ---------------------------
(***************************************************************************)
(* One signal from the models' answers to the order of one strategy: what  *)
(* the engine makes of the answers (services/ai_engine.py), the gates and  *)
(* the sizing of ATEService.execute_signal (services/ate.py) with the      *)
(* settings an admin changes meanwhile (services/dynamic_config.py), and   *)
(* the leverage that is negotiated before the order.                       *)
(*                                                                         *)
(* Each step ends where the code awaits an exchange.  A quantity is a      *)
(* whole number of parts of a coin, and money is a price times parts.      *)
(* What becomes of the row before and after (claims by others, protection, *)
(* closing) is in TradeExecution.                                          *)
(***************************************************************************)
EXTENDS SignalPrices

CONSTANTS
    Models, Answers,    \* the models asked, what one may answer
    Views,              \* market data and candle summaries
    Prices,             \* what the exchange may quote later
    Balances,           \* what it may report as available; 0 for an error
    Profiles,           \* [allocation, risk, leverage, cap] of strategies; all but leverage in percent
    OneFold,            \* a leverage of one: a limit is a float, 2.5 in tenths is 25
    Lots,               \* [step, max, leverage]: rules for the symbol; max = 0 for none
    Parts,              \* parts of a coin
    Dollar,             \* money in a dollar
    Exchanges,          \* of "hyperliquid", "bybit", "binance"
    Defaults, Writable, \* settings: CONFIG_DEFAULTS, the <<key, value>> an admin may write
    Histories,          \* earlier executions of the strategy, newest first
    Threshold,          \* ate_confidence_threshold of the environment
    Exhausted,          \* may a call to set the leverage fail for another reason?
    MaxWrites           \* bound on the settings written

Quotes == {"reference", "atr", "support15", "resistance15", "support", "resistance"}

ASSUME DecisionConstants ==
    /\ IsFiniteSet(Models) /\ Missing \notin Answers
    /\ \A a \in Answers : /\ a.entry \in Nat /\ a.stop \in Nat /\ a.target \in Nat
                         /\ a.confidence \in Int
    /\ \A v \in Views : v.move \in Int /\ \A q \in Quotes : v[q] \in Nat
    /\ Prices \subseteq Nat \ {0} /\ Balances \subseteq Nat
    /\ Parts \in Nat \ {0} /\ Dollar \in Nat \ {0} /\ MaxWrites \in Nat
    /\ OneFold \in Nat \ {0}
    /\ Profiles \subseteq [allocation : Nat \ {0}, risk : {2, 5, 10},
                    leverage : {l \in Nat : l >= OneFold}, cap : Nat \ {0}]
    /\ Lots \subseteq [step : Nat \ {0}, max : Nat, leverage : Nat \ {0}]
    /\ Exchanges \subseteq {"hyperliquid", "bybit", "binance"}
    /\ Exhausted \in BOOLEAN

VARIABLES
    exchange, profile, lot, history,    \* fixed: where, for whom, after what
    signal,     \* its row, or NoSignal
    price,      \* the exchange's price now
    setting,    \* admin_config: key |-> value
    writes,     \* settings written so far
    attempt,    \* what execute_signal has in its hands
    leverage,   \* of the symbol at the exchange
    paused,     \* the strategy, by the drawdown check
    row         \* the execution, or NoRow

vars == <<exchange, profile, lot, history, signal, price, setting, writes, attempt, leverage, paused, row>>
fixed == <<exchange, profile, lot, history>>
world == <<signal, price, setting, writes>>

Stages == {"idle", "balance", "gates", "size", "reference", "leverage", "order"}
NoSignal == [side |-> "HOLD", confidence |-> 0, entry |-> 0, stop |-> 0, target |-> 0, live |-> FALSE]
NoRow == [status |-> "none", quantity |-> 0, leverage |-> 0]
Failed == [status |-> "FAILED", quantity |-> 0, leverage |-> profile.leverage]
Idle == [stage |-> "idle", buys |-> 0, least |-> 0, balance |-> 0, quantity |-> 0,
         reference |-> 0, left |-> <<>>]

Init ==
    /\ exchange \in Exchanges /\ profile \in Profiles /\ lot \in Lots /\ history \in Histories
    /\ signal = NoSignal
    /\ price \in Prices
    /\ setting = Defaults /\ writes = 0
    /\ attempt = Idle
    /\ leverage = 1 /\ paused = FALSE
    /\ row = NoRow

----------------------------------------------------------------------------
(* The engine, and the world around an attempt. *)

\* one round of answers on the symbol; what the filters refuse leaves no signal
Generate ==
    /\ signal = NoSignal
    /\ \E answers \in [1..Cardinality(Models) -> Answers \union {Missing}], view \in Views :
        \E s \in SignalsFrom(answers, view, setting["confidence"]) :
            signal' = [side |-> s.side, confidence |-> s.confidence, entry |-> s.entry,
                       stop |-> s.stop, target |-> s.target, live |-> TRUE]
    /\ UNCHANGED <<fixed, price, setting, writes, attempt, leverage, paused, row>>

MovePrice ==
    /\ \E p \in Prices : price' = p
    /\ UNCHANGED <<fixed, signal, setting, writes, attempt, leverage, paused, row>>

\* expires_at passes, or the expiry task marks the row
Expire ==
    /\ signal.live
    /\ signal' = [signal EXCEPT !.live = FALSE]
    /\ UNCHANGED <<fixed, price, setting, writes, attempt, leverage, paused, row>>

SetSetting ==
    /\ writes < MaxWrites
    /\ \E w \in Writable : setting' = [setting EXCEPT ![w[1]] = w[2]]
    /\ writes' = writes + 1
    /\ UNCHANGED <<fixed, signal, price, attempt, leverage, paused, row>>

\* without a row of its own a setting has its default again
DeleteSetting ==
    /\ writes < MaxWrites
    /\ \E k \in DOMAIN setting : setting' = [setting EXCEPT ![k] = Defaults[k]]
    /\ writes' = writes + 1
    /\ UNCHANGED <<fixed, signal, price, attempt, leverage, paused, row>>

----------------------------------------------------------------------------
(* The gates. *)

Refuse == row' = Failed /\ attempt' = Idle /\ UNCHANGED <<leverage, paused>>
Proceed(next) == attempt' = next /\ UNCHANGED <<leverage, paused, row>>

\* pnl of the day over FILLED executions, against the first balance that can be read
DrawdownHit(balance) ==
    LET filled == SelectSeq(history, LAMBDA e : e.status = "FILLED")
        pnl == SumFunction([i \in DOMAIN filled |-> filled[i].pnl])
        capital == (balance * profile.allocation) \div 100
    IN  /\ capital > 0
        /\ 100 * (IF pnl < 0 THEN -pnl ELSE 0) >= profile.cap * capital

\* any execution of the signal by the strategy ends the matter
Taken == row # NoRow

Attempt ==
    /\ signal # NoSignal
    /\ attempt.stage = "idle"
    /\ ~paused
    /\ ~Taken
    /\ \E balance \in Balances :
        IF DrawdownHit(balance) THEN paused' = TRUE /\ UNCHANGED <<attempt, leverage, row>>
        ELSE Proceed([Idle EXCEPT !.stage = "balance", !.buys = setting["buys"],
                                  !.least = setting["buy_confidence"]])
    /\ UNCHANGED <<fixed, world>>

\* a wallet, or keys, that are missing; less than a dollar
ReadBalance ==
    /\ attempt.stage = "balance"
    /\ \E b \in Balances :
        IF b < Dollar THEN Refuse
        ELSE Proceed([attempt EXCEPT !.stage = "gates", !.balance = b])
    /\ UNCHANGED <<fixed, world>>

CounterTrend ==
    /\ setting["filter"] = 1
    /\ \/ setting["trend"] = "bearish" /\ signal.side = "BUY"
       \/ setting["trend"] = "bullish" /\ signal.side = "SELL"
    /\ ~(/\ setting["override"] = 1
         /\ signal.confidence - setting["penalty"] >= setting["counter_min"])

\* closed trades at Binance in the direction of the signal; of its symbol if there are enough
Recent(ofSymbol) ==
    LET closed == SelectSeq(history, LAMBDA e : /\ e.status = "CLOSED"
                                                /\ e.side = signal.side
                                                /\ ofSymbol => e.same)
    IN  SubSeq(closed, 1, IF Len(closed) < setting["lookback"] THEN Len(closed) ELSE setting["lookback"])

PoorExpectancy(trades) ==
    LET at(P(_)) == {i \in DOMAIN trades : P(trades[i])}
        won == at(LAMBDA e : e.pnl > 0)
        lost == at(LAMBDA e : e.pnl < 0)
        profit == SumFunction([i \in won |-> trades[i].pnl])
        loss == -SumFunction([i \in lost |-> trades[i].pnl])
    IN  /\ profit < loss
        /\ \/ Cardinality(at(LAMBDA e : e.reason = "stop_loss"))
                > Cardinality(at(LAMBDA e : e.reason = "take_profit"))
           \/ 100 * Cardinality(won) < setting["win_rate"] * Len(trades)
           \/ 100 * profit < setting["profit_factor"] * loss

GuardBlocks ==
    LET trades == IF Len(Recent(TRUE)) >= setting["min_trades"] THEN Recent(TRUE) ELSE Recent(FALSE)
    IN  /\ exchange = "binance"
        /\ setting["guard"] = 1
        /\ Len(trades) >= setting["min_trades"]
        /\ PoorExpectancy(trades)

Refused ==
    \/ signal.confidence < Threshold
    \/ ~signal.live
    \/ signal.side = "BUY" /\ attempt.buys = 0
    \/ signal.side = "BUY" /\ signal.confidence < attempt.least
    \/ CounterTrend
    \/ GuardBlocks

Gates ==
    /\ attempt.stage = "gates"
    /\ IF Refused THEN Refuse ELSE Proceed([attempt EXCEPT !.stage = "size"])
    /\ UNCHANGED <<fixed, world>>

----------------------------------------------------------------------------
(* The size. *)

InLots(quantity) == (quantity \div lot.step) * lot.step
Capped(quantity) == IF lot.max > 0 /\ quantity > lot.max THEN InLots(lot.max) ELSE quantity

\* what the strategy would put behind a trade: capital, risk multiplier, leverage with its fraction
PositionValue(balance) ==
    (((((balance * profile.allocation) \div 100) * profile.risk) \div 100) * profile.leverage) \div OneFold

\* int(leverage_limit): the exchange is asked for whole leverages
TargetLeverage == profile.leverage \div OneFold

\* below ten dollars the size is worked out again for ten and a half,
\* and left a fraction where the exchange takes whole coins only
PositionSize(value) ==
    LET quantity == InLots(value \div signal.entry)
        least == (21 * Dollar) \div (2 * signal.entry)
        again == IF least < value \div signal.entry THEN least ELSE value \div signal.entry
    IN  IF quantity * signal.entry >= 10 * Dollar THEN quantity
        ELSE IF lot.step < Parts THEN InLots(again) ELSE again

Margin(quantity) == (quantity * signal.entry) \div TargetLeverage

Size ==
    /\ attempt.stage = "size"
    /\ LET quantity == Capped(PositionSize(PositionValue(attempt.balance)))
       IN  IF quantity = 0 \/ Margin(quantity) > attempt.balance THEN Refuse
           ELSE Proceed([attempt EXCEPT !.stage = "reference", !.quantity = quantity])
    /\ UNCHANGED <<fixed, world>>

----------------------------------------------------------------------------
(* The order. *)

UntriggeredTarget(reference) == Ahead(signal.side, reference, signal.target)

\* the stop and the target have the price between them
Untriggered(reference) ==
    /\ Ahead(signal.side, signal.stop, reference)
    /\ Ahead(signal.side, reference, signal.target)

Blocked == signal.side = "BUY" /\ setting["blocked"] = 1

\* the ladder of leverages; Hyperliquid is asked once and its answer ignored
Ladder == IF exchange = "hyperliquid" THEN <<TargetLeverage>>
          ELSE <<TargetLeverage, 10, 5, 3, 1>>

\* a ticker that cannot be read leaves the signal's own entry as the reference
CheckReference ==
    /\ attempt.stage = "reference"
    /\ \E reference \in {price, signal.entry} :
        IF ~Untriggered(reference) \/ Blocked THEN Refuse
        ELSE /\ attempt' = [attempt EXCEPT !.stage = "leverage", !.reference = reference, !.left = Ladder]
             /\ row' = [status |-> "PENDING", quantity |-> attempt.quantity, leverage |-> profile.leverage]
             /\ UNCHANGED <<leverage, paused>>
    /\ UNCHANGED <<fixed, world>>

RescaledInverted(actual) ==
    IF actual = TargetLeverage THEN attempt.quantity
    ELSE Capped(InLots((attempt.quantity * TargetLeverage) \div actual))

\* the quantity goes with the leverage the code believes in
Rescaled(actual) ==
    IF actual = TargetLeverage THEN attempt.quantity
    ELSE Capped(InLots((attempt.quantity * actual) \div TargetLeverage))

Believe(actual) ==
    attempt' = [attempt EXCEPT !.stage = "order", !.quantity = Rescaled(actual), !.left = <<>>]

NextRung == attempt' = [attempt EXCEPT !.left = Tail(@)]

LeverageSet ==
    /\ attempt.stage = "leverage" /\ attempt.left # <<>>
    /\ Head(attempt.left) <= lot.leverage
    /\ leverage' = Head(attempt.left)
    /\ Believe(Head(attempt.left))
    /\ UNCHANGED <<fixed, world, paused, row>>

\* more than the symbol takes: Bybit's text sends the code down the ladder,
\* Binance's -4028 passes for "no need to change"
LeverageTooHigh ==
    /\ attempt.stage = "leverage" /\ attempt.left # <<>>
    /\ Head(attempt.left) > lot.leverage
    /\ CASE exchange = "bybit" -> NextRung
         [] exchange = "binance" -> Believe(Head(attempt.left))
         [] OTHER -> Believe(TargetLeverage)
    /\ UNCHANGED <<fixed, world, leverage, paused, row>>

\* any other error: Bybit's loop stops there and Binance's when it was 1 that failed, but a
\* text with "exceed" in it ("max" at Binance) sends either to the next rung, from 1 up to 10
LeverageFails ==
    /\ Exhausted
    /\ attempt.stage = "leverage" /\ attempt.left # <<>>
    /\ \/ /\ exchange # "binance" \/ Head(attempt.left) = 1
          /\ Believe(TargetLeverage)
       \/ exchange # "hyperliquid" /\ NextRung
    /\ UNCHANGED <<fixed, world, leverage, paused, row>>

LadderEnds ==
    /\ attempt.stage = "leverage" /\ attempt.left = <<>>
    /\ Believe(TargetLeverage)
    /\ UNCHANGED <<fixed, world, leverage, paused, row>>

\* the row keeps the quantity it was created with unless the fill reports one
PlaceOrder ==
    /\ attempt.stage = "order"
    /\ \/ row' = [row EXCEPT !.status = "FILLED", !.quantity = attempt.quantity]
       \/ row' = [row EXCEPT !.status = "FAILED"]
    /\ attempt' = [attempt EXCEPT !.stage = "idle"]
    /\ UNCHANGED <<fixed, world, leverage, paused>>

Session == Attempt \/ ReadBalance \/ Gates \/ Size \/ CheckReference
           \/ LeverageSet \/ LeverageTooHigh \/ LeverageFails \/ LadderEnds \/ PlaceOrder
World == Generate \/ MovePrice \/ Expire \/ SetSetting \/ DeleteSetting

Next == Session \/ World
Spec == Init /\ [][Next]_vars

----------------------------------------------------------------------------
(* Properties. *)

\* The fields of the attempt and of the rows keep their types.
TypeOK ==
    /\ exchange \in Exchanges /\ profile \in Profiles /\ lot \in Lots
    /\ signal \in [side : Sides \union {"HOLD"}, confidence : Int, entry : Nat, stop : Nat,
                    target : Nat, live : BOOLEAN]
    /\ price \in Prices /\ writes \in 0..MaxWrites
    /\ DOMAIN setting = DOMAIN Defaults
    /\ attempt.stage \in Stages /\ attempt.balance \in Nat
    /\ attempt.quantity \in Nat /\ attempt.reference \in Nat
    /\ leverage \in Nat /\ paused \in BOOLEAN
    /\ row.status \in {"none", "PENDING", "FAILED", "FILLED"} /\ row.quantity \in Nat

Between(p) == \/ signal.side = "BUY"  /\ signal.stop < p /\ p < signal.target
              \/ signal.side = "SELL" /\ signal.target < p /\ p < signal.stop

\* Whatever the models answered, a stored signal has its stop between half a percent and two
\* percent on the losing side of its entry, and at least two and a half times that to win,
\* but for the rounding of each price to a grain (ai_engine.py: _normalize_signal_prices and
\* the checks after it; the prices are rounded after the ratio was checked).
PublishedPrices ==
    signal # NoSignal =>
        /\ Between(signal.entry)
        /\ signal.entry <= 200 * Gap(signal.entry, signal.stop)
        /\ 50 * Gap(signal.entry, signal.stop) <= signal.entry
        /\ 2 * (Gap(signal.target, signal.entry) + Grain) >= 5 * (Gap(signal.entry, signal.stop) - Grain)

Ceiling == IF exchange = "hyperliquid" \/ TargetLeverage > 10 THEN TargetLeverage ELSE 10

\* An order never risks more, from the signal's entry to its stop, than two percent of the
\* position value of the strategy, taken from its whole leverage to the ten that the ladder
\* may end on. The position value is sized with the fraction of leverage_limit and rescaled
\* without it (calculate_position_size, the int() of target_leverage): a limit of 2.5 that
\* ends on 10 grows five-fold. The stop comes from the engine, the size from the wallet, the
\* leverage from the exchange.
StopOutBounded ==
    row.status = "FILLED" =>
        50 * row.quantity * Gap(signal.entry, signal.stop) * TargetLeverage
            <= PositionValue(attempt.balance) * Ceiling

\* When an order is on its way or placed, both the entry the signal was built on and the last
\* price the attempt has seen lie between its stop and its target, however far the market
\* went between the analysis and the attempt (_validate_tpsl_prices).
BothPricesBracketed ==
    row.status \in {"PENDING", "FILLED"} =>
        Between(signal.entry) /\ Between(attempt.reference)

\* A refusal is final: whatever the settings, the price or the wallet become, the strategy
\* does not come back to a signal it has a FAILED execution for (the count of executions at
\* the top of execute_signal does not ask for their status).
RefusalIsFinal == [][row.status = "FAILED" => row' = row]_vars

\* The size that was planned is the most that is ordered: a leverage that cannot be set
\* makes the order smaller, never larger.
NeverAbovePlan ==
    row.status = "FILLED" => row.quantity * signal.entry <= PositionValue(attempt.balance)

\* A strategy that lost its cap today opens nothing more.
LossPauses ==
    LET lost == SumFunction([i \in DOMAIN history |-> IF history[i].pnl < 0 THEN -history[i].pnl ELSE 0])
    IN  (row.status = "FILLED" /\ attempt.balance > 0) =>
            100 * lost < profile.cap * ((attempt.balance * profile.allocation) \div 100)
=============================================================================
