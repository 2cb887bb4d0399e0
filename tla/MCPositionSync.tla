--------------------------- MODULE MCPositionSync ---------------------------
(***************************************************************************)
(* Small instances of PositionSync.  Two executions may share the slot of  *)
(* one account; a third one belongs to another user's account.             *)
(***************************************************************************)
EXTENDS PositionSync, TLC

CONSTANTS e1, e2, e3, c1, c2, btc, q1, q2

\* e1 and e2 on the same account, e3 on the other.
Shared == e1 :> c1 @@ e2 :> c1 @@ e3 :> c2
Apart == e1 :> c1 @@ e2 :> c2

BybitBinance == c1 :> "bybit" @@ c2 :> "binance"
HLBybit == c1 :> "hyperliquid" @@ c2 :> "bybit"
HLBinance == c1 :> "hyperliquid" @@ c2 :> "binance"

OneSymbol3 == e1 :> btc @@ e2 :> btc @@ e3 :> btc
OneSymbol == e1 :> btc @@ e2 :> btc

\* Overlapping monitors and repeated requests of one execution are alike.
Interchangeable == Permutations(Monitors) \union Permutations(Requests)

\* Requests: the same execution twice, or none.
Twice == q1 :> e1 @@ q2 :> e1
Once == q1 :> e1
Never == [q \in {} |-> e1]
=============================================================================
