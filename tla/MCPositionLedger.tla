-------------------------- MODULE MCPositionLedger --------------------------
(* PositionLedger with two configurations and two prices. *)
EXTENDS PositionLedger, TLC

Common == [minMcp |-> 100, maxLossBuyTimes |-> 2,
           fullSellAfterSellCount |-> 2,
           tokenConfig |-> << [maxMcp |-> 300, buyUSD |-> 5, buyRatio |-> -5, minSellRatio |-> 10] >>]
\* Take profit on two rungs, given in the wrong order, and exit on a loss.
Ladder == [diffBuySecond |-> 60, profitSell |-> TRUE, lossSell |-> TRUE, triggerRatio |-> 40,
           levels |-> << [profitRatio |-> 90, sellRatio |-> 100], [profitRatio |-> -1, sellRatio |-> 10],
                         [profitRatio |-> 40, sellRatio |-> 50] >>] @@ Common
\* Sell to external buys and on schedule.
Signals == [externalBuySell |-> TRUE, minBuyUSD |-> 5, profitRatio |-> 20, externalSellRatio |-> 50,
            scheduledSell |-> TRUE, sellRatio |-> 40, baseUSD |-> 4] @@ Common
TwoConfigs == {Ladder, Signals}

Market == { [side |-> "sell", price |-> p, move |-> 10, quoteUSD |-> 9, marketCap |-> 200] : p \in 1 .. 2 }
     \cup { [side |-> "buy", price |-> p, move |-> 10, quoteUSD |-> 9, marketCap |-> 200] : p \in 1 .. 2 }
     \cup { [side |-> "sell", price |-> 1, move |-> 10, quoteUSD |-> 9, marketCap |-> 50] }
\* A price that never moves.
Steady == {e \in Market : e.price = 1}
=============================================================================
