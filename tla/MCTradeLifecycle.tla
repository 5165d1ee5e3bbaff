-------------------------- MODULE MCTradeLifecycle --------------------------
(* Small instances of TradeLifecycle: who trades in them, and to which     *)
(* effect on the strategy.                                                 *)
EXTENDS TradeLifecycle, TLC

CONSTANTS e1, e2, e3

buy == "external_sell_signal"
WantsBuy       == e1 :> buy
WantsThreeBuys == e1 :> buy @@ e2 :> buy @@ e3 :> buy
WantsBuyProfit == e1 :> buy @@ e2 :> "profit_sell"
WantsEach      == e1 :> buy @@ e2 :> "profit_sell" @@ e3 :> "external_buy_signal"
WantsLoss      == e1 :> buy @@ e2 :> buy @@ e3 :> "loss_protection"

\* Hashes are interchangeable, and so are events that satisfy the same rule.
Symmetry  == Permutations(Hashes)
ThreeBuys == Symmetry \cup Permutations(Ext)
=============================================================================
