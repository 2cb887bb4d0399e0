-------------------------- MODULE MCTradeExecution --------------------------
(***************************************************************************)
(* Small instances of TradeExecution: two strategies of one user, and      *)
(* signals of one symbol, so that attempts compete for the same pair, the  *)
(* same slot and the same strategy limit.                                  *)
(***************************************************************************)
EXTENDS TradeExecution, TLC

CONSTANTS s1, s2, t1, t2, u1, btc

\* Two Bybit signals of the symbol: every pair of attempts shares a slot.
BybitOnly == s1 :> "bybit" @@ s2 :> "bybit"
\* One signal per table: HL failures are only logged, Binance ones closed.
HLAndBinance == s1 :> "hyperliquid" @@ s2 :> "binance"
\* Two slots of one strategy: its limit binds before the symbol check does.
BybitAndHL == s1 :> "bybit" @@ s2 :> "hyperliquid"

OneSymbol == s1 :> btc @@ s2 :> btc
OneOwner == t1 :> u1 @@ t2 :> u1
OneStrategy == t1 :> u1

\* Attempts differ by their job only, which Init chooses freely.
Interchangeable == Permutations(Attempts)
=============================================================================
