----------------------------- MODULE StrategyRules -----------------------------
(***************************************************************************)
(* How the strategy decides: Parse makes the configuration of a user out   *)
(* of what is stored for it, RuleWithIndex selects the rule for a market   *)
(* cap, evaluate answers an event of the market with a trade or none.      *)
(*                                                                         *)
(* Amounts and prices are whole tokens and dollars, ratios are per cent.   *)
(* An average cost is a pair, dollars over tokens, as the code divides in  *)
(* floating point: gains are compared by multiplying out.                  *)
(***************************************************************************)
EXTENDS Integers, Sequences, FiniteSets

\* A field that is absent gets its default; the switches of the nested
\* sections are off unless the section says otherwise.
Defaults == [
    enabled |-> TRUE, minMcp |-> 100000, diffBuySecond |-> 0,
    maxLossBuyTimes |-> 0, minLossBuyRatio |-> 0,
    fullSellAfterSellCount |-> 3, resetSellCountOnBuy |-> TRUE,
    scheduledSell |-> FALSE, intervalSecond |-> 1250, sellRatio |-> 20, baseUSD |-> 150,
    scheduleResetOnBuy |-> FALSE,
    externalBuySell |-> FALSE, minBuyUSD |-> 100, buyImpactRatio |-> 3, needProfit |-> TRUE,
    profitRatio |-> 5, externalSellRatio |-> 20, buyAmountRatio |-> 0, cooldownSecond |-> 30,
    profitSell |-> FALSE, profitResetOnBuy |-> TRUE,
    levels |-> << [profitRatio |-> 5, sellRatio |-> 20], [profitRatio |-> 10, sellRatio |-> 25],
                  [profitRatio |-> 20, sellRatio |-> 30], [profitRatio |-> 30, sellRatio |-> 100] >>,
    lossSell |-> FALSE, triggerRatio |-> 15, sellAll |-> TRUE,
    tokenConfig |-> << [maxMcp |-> 200000, buyUSD |-> 10, buyRatio |-> 0, minSellRatio |-> 1] >>]
Fields == DOMAIN Defaults

\* A negative number is replaced: by zero, or by its default.
ToZero == {"diffBuySecond", "maxLossBuyTimes", "minLossBuyRatio", "buyAmountRatio"}
Numbers == ToZero \cup {"minMcp", "fullSellAfterSellCount", "intervalSecond", "sellRatio",
    "baseUSD", "minBuyUSD", "buyImpactRatio", "profitRatio", "externalSellRatio",
    "cooldownSecond", "triggerRatio"}

AtLeastZero(n) == IF n < 0 THEN 0 ELSE n
RuleFloor(r) == [f \in DOMAIN r |-> AtLeastZero(r[f])]
\* The elements of s at the positions I, in a stable order by one field.
SortedBy(s, I, f) ==
    LET Rank(i) == Cardinality({j \in I : s[j][f] < s[i][f] \/ (s[j][f] = s[i][f] /\ j <= i)})
    IN [k \in 1 .. Cardinality(I) |-> s[CHOOSE i \in I : Rank(i) = k]]
PositiveLevel(l) == l.profitRatio > 0 /\ l.sellRatio > 0

Parse(v) == [f \in Fields |->
    LET x == IF f \in DOMAIN v THEN v[f] ELSE Defaults[f]
    IN CASE f = "tokenConfig" ->
                SortedBy([i \in DOMAIN x |-> RuleFloor(x[i])], DOMAIN x, "maxMcp")
         [] f = "levels" ->
                SortedBy(x, {i \in DOMAIN x : PositiveLevel(x[i])}, "profitRatio")
         [] f \in Numbers /\ x < 0 -> IF f \in ToZero THEN 0 ELSE Defaults[f]
         [] OTHER -> x]

\* The first rule whose cap is not exceeded; a cap of zero is none.
Matching(c, mcp) ==
    {i \in DOMAIN c.tokenConfig : c.tokenConfig[i].maxMcp = 0 \/ mcp <= c.tokenConfig[i].maxMcp}
RuleWithIndex(c, mcp) ==
    c.tokenConfig[CHOOSE i \in Matching(c, mcp) : \A j \in Matching(c, mcp) : i <= j]

-----------------------------------------------------------------------------
(* evaluate.  The event: its side, its price, how far it moved the price,  *)
(* its size in dollars.  The position p: the row, and what the clock says. *)

NoTrade == [action |-> "", amount |-> 0, reason |-> ""]
Trade(action, amount, reason) == [action |-> action, amount |-> amount, reason |-> reason]

\* price / average - 1 >= ratio; without an average cost the gain is zero.
GainAtLeast(p, price, ratio) ==
    IF p.average[1] = 0 THEN ratio <= 0
    ELSE 100 * price * p.average[2] >= p.average[1] * (100 + ratio)
GainAtMost(p, price, ratio) ==
    IF p.average[1] = 0 THEN ratio >= 0
    ELSE 100 * price * p.average[2] <= p.average[1] * (100 + ratio)

\* Mutant: the limit is passed once.
BelowFirstAgain(c, p, price) ==
    /\ p.amount > 0 /\ p.buyCount > 0 /\ p.firstPrice > 0 /\ price < p.firstPrice
    /\ \/ c.maxLossBuyTimes = 0 \/ p.buyCount > c.maxLossBuyTimes
       \/ p.lastPrice > 0 /\ c.minLossBuyRatio > 0
          /\ 100 * price > p.lastPrice * (100 - c.minLossBuyRatio)
\* An add-on below the first price, once too often or too close to the last.
TooManyLossBuys(c, p, price) ==
    /\ p.amount > 0 /\ p.buyCount > 0 /\ p.firstPrice > 0 /\ price < p.firstPrice
    /\ \/ c.maxLossBuyTimes = 0 \/ p.buyCount >= c.maxLossBuyTimes
       \/ p.lastPrice > 0 /\ c.minLossBuyRatio > 0
          /\ 100 * price > p.lastPrice * (100 - c.minLossBuyRatio)

BuyAmount(r, ev) == IF r.buyRatio > 0 THEN (ev.quoteUSD * r.buyRatio) \div 100 ELSE r.buyUSD
Buying(c, r, ev, p, price) ==
    IF \/ ev.move < r.minSellRatio
       \/ p.justBought /\ c.diffBuySecond > 0
       \/ BuyAmount(r, ev) <= 0
       \/ TooManyLossBuys(c, p, price)
    THEN NoTrade
    ELSE Trade("buy", BuyAmount(r, ev), "external_sell_signal")

\* Mutant: the full sell comes one sell late.
ForceLate(c, p) == c.fullSellAfterSellCount > 0 /\ p.sellCount >= c.fullSellAfterSellCount
\* The sell that reaches the configured count is the full one.
ForceFull(c, p) == c.fullSellAfterSellCount > 0 /\ p.sellCount + 1 >= c.fullSellAfterSellCount
Part(p, ratio) == (p.amount * ratio) \div 100
Smaller(a, b) == IF a < b THEN a ELSE b

External(c, ev, p, price) ==
    /\ c.externalBuySell
    /\ c.minBuyUSD <= 0 \/ ev.quoteUSD >= c.minBuyUSD
    /\ c.buyImpactRatio <= 0 \/ ev.move >= c.buyImpactRatio
    /\ ~c.needProfit \/ GainAtLeast(p, price, c.profitRatio)
ExternalAmount(c, ev, p, price) ==
    IF c.buyAmountRatio > 0
    THEN Smaller((ev.quoteUSD * c.buyAmountRatio) \div (100 * price), p.amount)
    ELSE Part(p, c.externalSellRatio)
Rung(c, p) == c.levels[p.profitLevel + 1]
Profit(c, p, price) ==
    c.profitSell /\ p.profitLevel < Len(c.levels) /\ GainAtLeast(p, price, Rung(c, p).profitRatio)
Loss(c, p, price) == c.lossSell /\ c.triggerRatio > 0 /\ GainAtMost(p, price, -c.triggerRatio)

Selling(c, ev, p, price) ==
    LET All(reason) == Trade("sell", p.amount, reason)
        OrAll(amount, reason) == IF ForceFull(c, p) THEN All(reason) ELSE Trade("sell", amount, reason)
    IN IF p.amount <= 0 \/ p.recentIntent THEN NoTrade
       ELSE IF p.cooling THEN IF ForceFull(c, p) THEN All("sell_count_force_full") ELSE NoTrade
       ELSE IF External(c, ev, p, price)
       THEN OrAll(ExternalAmount(c, ev, p, price), "external_buy_signal")
       ELSE IF Profit(c, p, price) THEN OrAll(Part(p, Rung(c, p).sellRatio), "profit_sell")
       ELSE IF Loss(c, p, price)
       THEN IF c.sellAll \/ ForceFull(c, p) THEN All("loss_protection") ELSE NoTrade
       ELSE IF ForceFull(c, p) THEN All("sell_count_force_full") ELSE NoTrade

Evaluate(c, r, ev, p) ==
    LET price == IF ev.price <= 0 THEN p.lastPrice ELSE ev.price
    IN IF price <= 0 THEN NoTrade
       ELSE IF ev.side = "sell" THEN Buying(c, r, ev, p, price)
       ELSE Selling(c, ev, p, price)
=============================================================================
