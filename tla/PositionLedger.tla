----------------------------- MODULE PositionLedger -----------------------------
(***************************************************************************)
(* The position of one user in one token: what the strategy decides with   *)
(* it, what a confirmed fill makes of it, and what the minutely wallet     *)
(* synchronisation with AVE writes over it.                                *)
(*                                                                         *)
(* Trades are prompt here: at most one buy and one sell are on their way,  *)
(* and each is accounted before a timeout of the engine gives it up, or    *)
(* never mined.  Late, replaced and lost trades are TradeLifecycle's.      *)
(* Amounts are whole tokens, dollars are whole, and the pool's quote       *)
(* currency is the dollar.                                                 *)
(***************************************************************************)
EXTENDS StrategyRules, SequencesExt

CONSTANTS
    StoredConfigs,  \* what may be stored for the user
    Prices,         \* prices of the token, dollars
    Events,         \* events of the market: side, price, move, size, market cap
    MinBalance,     \* 100 tokens: less is dust
    WalletSync,     \* does the synchronisation run?
    AvePrices,      \* average prices that AVE answers, 0 for none
    MaxTrades,      \* bound: trades sent
    MaxLags         \* bound: answers of AVE that are behind the chain

ASSUME LedgerAssumption ==
    /\ Prices \subseteq Nat \ {0} /\ MinBalance \in Nat \ {0}
    /\ AvePrices \subseteq Prices \cup {0}
    /\ WalletSync \in BOOLEAN /\ MaxTrades \in Nat /\ MaxLags \in Nat
    /\ \A e \in Events : /\ e.price \in Prices /\ e.side \in {"buy", "sell"}
                         /\ e.move \in Nat /\ e.quoteUSD \in Nat /\ e.marketCap \in Nat

\* The stored numbers are integers, and the lists are lists of rules and of levels.
ASSUME ConfigAssumption ==
    \A v \in StoredConfigs :
        /\ \A f \in Numbers \cap DOMAIN v : v[f] \in Int
        /\ "tokenConfig" \in DOMAIN v => v.tokenConfig \in
               Seq([maxMcp : Int, buyUSD : Int, buyRatio : Int, minSellRatio : Int])
        /\ "levels" \in DOMAIN v => v.levels \in Seq([profitRatio : Int, sellRatio : Int])

VARIABLES
    c,         \* the configuration of the user
    row,       \* strategy_positions
    records,   \* monitor_records
    balance,   \* tokens in the wallet
    sent,      \* trades broadcast and not mined
    mined,     \* fills not accounted yet, in the order of the chain
    waiting,   \* clocks that have not run out
    ave,       \* the answer of AVE that the synchronisation holds
    behind,    \* what AVE may still answer: the balance before the last fill
    trades, lags,
    touched,   \* history: the row was written by other than fills
    lossBuys   \* history: buys below the first price since the last sell

engine == <<row, records, waiting>>
chain == <<balance, sent, mined>>
sync == <<ave, behind, lags>>
history == <<touched, lossBuys>>
vars == <<c, engine, chain, sync, trades, history>>

EmptyRow == [amount |-> 0, quote |-> 0, cost |-> 0, average |-> <<0, 1>>, firstPrice |-> 0,
             lastPrice |-> 0, buyCount |-> 0, sellCount |-> 0, profitLevel |-> 0,
             scheduled |-> FALSE]
\* Running: the time since the last buy, since the last intent to buy, the
\* cooldown, the interval of the scheduled sell.
Clocks == {"lastBuy", "intent", "cooldown", "interval"}
NoAnswer == [balance |-> -1, price |-> 0]
Reasons == {"external_sell_signal", "external_buy_signal", "profit_sell", "loss_protection",
            "sell_count_force_full", "scheduled_sell"}
Sent == [side : {"buy", "sell"}, tokens : Nat, quote : Nat, reason : Reasons]

\* Types; one trade of a side at a time; the schedule of an empty row is off.
TypeOK ==
    /\ row \in [amount : Nat, quote : Nat, cost : Nat, average : Nat \X (Nat \ {0}),
                firstPrice : Nat, lastPrice : Nat, buyCount : Nat,
                sellCount : Nat, profitLevel : 0 .. Len(c.levels), scheduled : BOOLEAN]
    /\ balance \in Nat /\ sent \subseteq Sent
    /\ \A i \in DOMAIN mined : mined[i] \in Sent
    /\ waiting \subseteq Clocks /\ behind \in Nat
    /\ trades \in 0 .. MaxTrades /\ lags \in 0 .. MaxLags
    /\ \A t, o \in sent : t.side = o.side => t = o
    /\ row.amount = 0 => ~row.scheduled

Init ==
    /\ \E v \in StoredConfigs : c = Parse(v)
    /\ row = EmptyRow /\ records = <<>>
    /\ balance = 0 /\ sent = {} /\ mined = <<>>
    /\ waiting = {} /\ ave = NoAnswer /\ behind = 0
    /\ trades = 0 /\ lags = 0
    /\ touched = FALSE /\ lossBuys = 0

-----------------------------------------------------------------------------
(* Decisions.                                                              *)

\* strategy_pending_buys and strategy_pending_actions: a trade of the side is
\* on its way or not accounted yet.
Pending(side) == \/ \E t \in sent : t.side = side
                 \/ \E i \in DOMAIN mined : mined[i].side = side
Position == [amount |-> row.amount, average |-> row.average, firstPrice |-> row.firstPrice,
             lastPrice |-> row.lastPrice, buyCount |-> row.buyCount,
             sellCount |-> row.sellCount, profitLevel |-> row.profitLevel,
             justBought |-> "lastBuy" \in waiting, recentIntent |-> "intent" \in waiting,
             cooling |-> "cooldown" \in waiting]

Send(side, tokens, quote, reason) ==
    /\ trades < MaxTrades /\ trades' = trades + 1
    /\ sent' = sent \cup {[side |-> side, tokens |-> tokens, quote |-> quote, reason |-> reason]}
    /\ UNCHANGED <<c, row, records, balance, mined, sync, history>>

\* What Process asks before it evaluates.
Eligible(e) ==
    /\ c.enabled
    /\ e.side = "sell" /\ c.minMcp > 0 => e.marketCap > 0
    /\ e.side = "sell" /\ e.marketCap > 0 => e.marketCap >= c.minMcp
    /\ Matching(c, e.marketCap) # {}
Decision(e) == Evaluate(c, RuleWithIndex(c, e.marketCap), e, Position)

\* Of dollars that do not buy a whole token nothing is said.
Buy(e) ==
    /\ Eligible(e) /\ Decision(e).action = "buy" /\ Decision(e).amount >= e.price
    /\ ~Pending("buy")
    /\ Send("buy", Decision(e).amount \div e.price, Decision(e).amount, Decision(e).reason)
    /\ waiting' = waiting \cup {"intent"}

\* prepareSellBalance: dust clears the row instead.
Dust == row.amount < MinBalance \/ balance < MinBalance
ClearRow ==
    /\ row' = EmptyRow /\ touched' = TRUE /\ lossBuys' = 0
    /\ waiting' = waiting \ {"lastBuy", "cooldown", "interval"}
    /\ UNCHANGED <<c, records, chain, sync, trades>>

Sell(e) ==
    /\ Eligible(e) /\ Decision(e).action = "sell" /\ Decision(e).amount > 0
    /\ ~Pending("sell")
    /\ LET d == Decision(e)
           \* A full sell takes what the wallet holds.
           tokens == IF d.amount >= row.amount THEN balance ELSE d.amount
       IN IF Dust THEN ClearRow
          ELSE /\ Send("sell", tokens, tokens * e.price, d.reason)
               /\ waiting' = IF d.reason = "external_buy_signal" /\ c.cooldownSecond > 0
                             THEN waiting \cup {"cooldown"} ELSE waiting

\* checkScheduled.  The claim starts the interval again.
ScheduledAmount ==
    IF ForceFull(c, Position) THEN row.amount
    ELSE LET part == IF c.sellRatio > 0 THEN Part(Position, c.sellRatio) ELSE row.amount
         IN IF c.baseUSD > 0 THEN Smaller(part, c.baseUSD \div row.lastPrice) ELSE part
ScheduledSell ==
    /\ row.scheduled /\ "interval" \notin waiting /\ row.amount > 0
    /\ "intent" \notin waiting
    /\ c.enabled /\ c.scheduledSell /\ row.lastPrice > 0
    /\ ScheduledAmount > 0
    /\ IF Dust THEN ClearRow
       ELSE /\ ~Pending("sell")
            /\ waiting' = waiting \cup {"interval"}
            /\ \E price \in Prices :
                   LET tokens == IF ForceFull(c, Position) THEN balance ELSE ScheduledAmount
                   IN Send("sell", tokens, tokens * price, "scheduled_sell")

TimePasses(clock) ==
    /\ clock \in waiting
    /\ waiting' = waiting \ {clock}
    /\ UNCHANGED <<c, row, records, chain, sync, trades, history>>

-----------------------------------------------------------------------------
(* The chain.                                                              *)

Mine(t) ==
    /\ t \in sent /\ t.side = "sell" => t.tokens <= balance
    /\ sent' = sent \ {t} /\ mined' = Append(mined, t)
    /\ behind' = balance
    /\ balance' = IF t.side = "buy" THEN balance + t.tokens ELSE balance - t.tokens
    /\ UNCHANGED <<c, engine, ave, lags, trades, history>>
\* Reverted, or dropped by the node: its pending row is cleaned up.
Drop(t) ==
    /\ t \in sent
    /\ sent' = sent \ {t}
    /\ UNCHANGED <<c, engine, balance, mined, sync, trades, history>>

-----------------------------------------------------------------------------
(* applyOwnFill.                                                           *)

\* The part of an amount that a sell of some of the tokens takes along.
Allocated(total, tokens, of) == (total * tokens) \div of
\* Mutant: a sell that exceeds the tokens is not cut.
Uncut(t, of) == t.tokens
Cut(t, of) == Smaller(t.tokens, of)

\* reconstructQuoteSpent.
Replay(rs) == FoldLeft(
    LAMBDA acc, r :
        IF r.side = "buy" THEN [tokens |-> acc.tokens + r.tokens, quote |-> acc.quote + r.quote]
        ELSE IF acc.tokens = 0 THEN acc
        ELSE LET cut == Cut(r, acc.tokens)
             IN [tokens |-> acc.tokens - cut,
                 quote |-> acc.quote - Allocated(acc.quote, cut, acc.tokens)],
    [tokens |-> 0, quote |-> 0], rs)

OldQuote == IF row.quote = 0 /\ row.amount > 0 THEN Replay(records).quote ELSE row.quote
OldCost == IF row.cost = 0 /\ row.amount > 0 /\ row.average[1] > 0
           THEN (row.average[1] * row.amount) \div row.average[2] ELSE row.cost
AverageOf(cost, tokens) == IF cost > 0 /\ tokens > 0 THEN <<cost, tokens>> ELSE <<0, 1>>

\* A fill starts the interval of the scheduled sell when it was off, is to be
\* reset, or made this sell.
Rearms(t) ==
    /\ c.scheduledSell
    /\ IF t.side = "buy" THEN c.scheduleResetOnBuy \/ ~row.scheduled
                         ELSE t.reason = "scheduled_sell"
Bought(t) ==
    [row EXCEPT !.amount = @ + t.tokens, !.quote = OldQuote + t.quote,
        !.cost = OldCost + t.quote,
        !.average = AverageOf(OldCost + t.quote, row.amount + t.tokens),
        !.buyCount = @ + 1,
        !.firstPrice = IF @ = 0 THEN t.quote \div t.tokens ELSE @, !.lastPrice = t.quote \div t.tokens,
        !.sellCount = IF c.resetSellCountOnBuy THEN 0 ELSE @,
        !.profitLevel = IF c.profitResetOnBuy THEN 0 ELSE @,
        !.scheduled = @ \/ Rearms(t)]
\* Mutant: what a sell earns is taken off instead.
QuoteLessProceeds(t, tokens) == AtLeastZero(OldQuote - t.quote)
QuoteLeft(t, tokens) == OldQuote - Allocated(OldQuote, tokens, row.amount)
Sold(t) ==
    LET tokens == Cut(t, row.amount)
        remain == row.amount - tokens
        cost == OldCost - Allocated(OldCost, tokens, row.amount)
    IN [row EXCEPT !.amount = remain, !.quote = QuoteLeft(t, tokens),
            !.cost = cost, !.average = AverageOf(cost, remain),
            !.buyCount = 0, !.firstPrice = 0,
            !.lastPrice = IF remain = 0 THEN 0 ELSE @,
            !.sellCount = @ + 1,
            !.profitLevel = IF t.reason = "profit_sell" THEN @ + 1 ELSE @,
            !.scheduled = (@ \/ Rearms(t)) /\ remain > 0]

\* A confirmed buy counts as an intent once more.
ClocksAfter(t, remain) ==
    LET kept == IF t.side = "buy" THEN waiting \cup {"intent"} \cup (IF c.diffBuySecond > 0 THEN {"lastBuy"} ELSE {})
                ELSE IF remain = 0 THEN waiting \ {"lastBuy", "interval"}
                ELSE waiting \ {"lastBuy"}
    IN IF Rearms(t) /\ remain > 0 THEN kept \cup {"interval"} ELSE kept

\* A sell without tokens to sell is not recorded.
Fill ==
    /\ mined # <<>>
    /\ mined' = Tail(mined)
    /\ LET t == Head(mined)
       IN IF t.side = "sell" /\ row.amount = 0
          THEN UNCHANGED <<row, records, waiting, lossBuys>>
          ELSE /\ row' = IF t.side = "buy" THEN Bought(t) ELSE Sold(t)
               /\ records' = Append(records, [side |-> t.side, quote |-> t.quote,
                      tokens |-> IF t.side = "buy" THEN t.tokens ELSE Cut(t, row.amount)])
               /\ waiting' = ClocksAfter(t, row'.amount)
               /\ lossBuys' = IF t.side = "sell" THEN 0
                              ELSE IF row.firstPrice > row'.lastPrice THEN lossBuys + 1 ELSE lossBuys
    /\ UNCHANGED <<c, balance, sent, sync, trades, touched>>

-----------------------------------------------------------------------------
(* refreshAveWalletPositions.  AVE answers the balance, which may be       *)
(* behind the chain, and the average price, or none.  It is asked to hide  *)
(* what is sold.                                                           *)

AveAnswers(lagging) ==
    /\ WalletSync /\ ave = NoAnswer
    /\ IF lagging THEN lags < MaxLags /\ lags' = lags + 1 ELSE UNCHANGED lags
    /\ LET seen == IF lagging THEN behind ELSE balance
       IN seen > 0 /\ \E price \in AvePrices : ave' = [balance |-> seen, price |-> price]
    /\ UNCHANGED <<c, engine, chain, behind, trades, history>>

\* Mutant: only a smaller balance is believed.
SyncedAmountDown(b) == Smaller(row.amount, b)
SyncedAmount(b) == b
Exists == records # <<>> \/ touched
\* syncAveWalletToken.  The average price goes to the cost of the position.
Synced(a) ==
    IF ~Exists /\ (a.balance < MinBalance \/ a.price = 0) THEN row
    ELSE IF a.balance < MinBalance THEN EmptyRow
    ELSE [row EXCEPT !.amount = SyncedAmount(a.balance),
              !.quote = IF row.amount > 0 THEN (@ * a.balance) \div row.amount ELSE @,
              !.cost = IF a.price = 0 THEN @ ELSE a.price,
              !.average = IF a.price = 0 THEN @ ELSE <<a.price, 1>>]
AveWrites ==
    /\ ave # NoAnswer
    /\ row' = Synced(ave)
    /\ touched' = (touched \/ row' # row)
    /\ lossBuys' = IF row' = EmptyRow THEN 0 ELSE lossBuys
    /\ waiting' = IF row' = EmptyRow /\ Exists THEN waiting \ {"lastBuy", "cooldown", "interval"} ELSE waiting
    /\ ave' = NoAnswer
    /\ UNCHANGED <<c, records, chain, behind, lags, trades>>

-----------------------------------------------------------------------------
Next ==
    \/ \E e \in Events : Buy(e) \/ Sell(e)
    \/ ScheduledSell
    \/ \E clock \in Clocks : TimePasses(clock)
    \/ \E t \in sent : Mine(t) \/ Drop(t)
    \/ Fill
    \/ \E lagging \in BOOLEAN : AveAnswers(lagging)
    \/ AveWrites
Spec == Init /\ [][Next]_vars

\* Every trade is mined or dropped, and its fill accounted; the synchronisation
\* runs every minute, and AVE catches up with the chain.  It is also asked to
\* hide what is small, so of dust it owes no answer.
FairSpec ==
    /\ Spec
    /\ WF_vars(\E t \in sent : Mine(t) \/ Drop(t)) /\ WF_vars(Fill)
    /\ WF_vars(balance >= MinBalance /\ AveAnswers(FALSE)) /\ WF_vars(AveWrites)

-----------------------------------------------------------------------------
(* Properties.                                                             *)

\* As long as only fills wrote the row, its tokens and what was spent on them
\* are those that reconstructQuoteSpent replays from the records, whatever buys
\* and sells came; and their average cost lies between the least and the largest
\* price that a buy paid, dollars over tokens, but for the rounding of each sell
\* (applyOwnFill allocates by integer division).
Within(cost, amount) ==
    LET buys == {i \in DOMAIN records : records[i].side = "buy"}
        sells == Cardinality(DOMAIN records \ buys)
    IN amount > 0 =>
           /\ \E i \in buys : records[i].quote * amount <= cost * records[i].tokens
           /\ \E i \in buys : cost * records[i].tokens <= (records[i].quote * amount) + (sells * records[i].tokens)
LedgerAccounts ==
    ~touched => /\ [tokens |-> row.amount, quote |-> row.quote] = Replay(records)
                /\ Within(row.cost, row.amount)

\* The sell that reaches fullSellAfterSellCount is the full exit: what is left
\* over after so many sells, and no buy since, is nothing.  A count of one is left
\* out: a full sell takes what the wallet held when it was sent, and the tokens of
\* a buy that is mined before it stay.  With more, that buy starts the count again.
NthSellEmpties ==
    ~touched /\ c.fullSellAfterSellCount > 1 /\ c.resetSellCountOnBuy
        /\ row.sellCount >= c.fullSellAfterSellCount => row.amount = 0

\* Since the last sell no more than maxLossBuyTimes buys, the first included,
\* went below the price of the first one.
LossBuysBounded == ~touched => lossBuys <= AtLeastZero(c.maxLossBuyTimes - 1)

\* When every fill is accounted and the row holds what the wallet holds, the
\* average cost that is decided with lies between the least and the largest price
\* of a buy, whatever the synchronisation wrote meanwhile: it is a weighted
\* average of what fills paid (docs/STRATEGY_CONFIG.md:74).
AverageIsPaid ==
    mined = <<>> /\ row.amount = balance /\ row.average[1] > 0
        => Within(row.average[1], row.average[2])

\* When the trading pauses, the synchronisation brings the row to what the wallet
\* holds, whatever AVE answered too early or fills were counted twice; dust and
\* nothing at all are left to the balance check of the next sell.
SyncHeals ==
    WalletSync => <>[](sent # {} \/ mined # <<>> \/ balance < MinBalance \/ row.amount = balance)
=============================================================================
