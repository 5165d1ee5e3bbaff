------------------------ MODULE PositionLedgerProofs ------------------------
(* Theorems about PositionLedger, for every configuration, price and event. *)
EXTENDS PositionLedger, FoldProofs, SequenceTheorems, FunctionTheorems, TLAPS

-----------------------------------------------------------------------------
(* The order that Parse gives rules and levels.                            *)

\* The positions that come first in the order, up to one of them.
Ahead(s, I, f, i) == {j \in I : s[j][f] < s[i][f] \/ (s[j][f] = s[i][f] /\ j <= i)}
Ordered(s, I, f) == /\ \E n \in Nat : I \subseteq 1 .. n
                    /\ \A i \in I : s[i][f] \in Int

\* Their numbers are the positions of the sorted list, each once.
LEMMA Ranks ==
  ASSUME NEW s, NEW I, NEW f, Ordered(s, I, f)
  PROVE  /\ IsFiniteSet(I) /\ Cardinality(I) \in Nat
         /\ \A i \in I : Cardinality(Ahead(s, I, f, i)) \in 1 .. Cardinality(I)
         /\ \A i \in I, j \in I : i # j /\ i \in Ahead(s, I, f, j)
              => Cardinality(Ahead(s, I, f, i)) < Cardinality(Ahead(s, I, f, j))
         /\ \A i \in I, j \in I : i # j
              => Cardinality(Ahead(s, I, f, i)) # Cardinality(Ahead(s, I, f, j))
         /\ \A k \in 1 .. Cardinality(I) : \E i \in I : Cardinality(Ahead(s, I, f, i)) = k
  <1>1. PICK n \in Nat : I \subseteq 1 .. n
    BY DEF Ordered
  <1>2. IsFiniteSet(I) /\ Cardinality(I) \in Nat
    <2>1. 1 \in Int /\ n \in Int /\ IsFiniteSet(1 .. n)
      BY FS_Interval
    <2>2. IsFiniteSet(I)
      BY <1>1, <2>1, FS_Subset
    <2>. QED BY <2>2, FS_CardinalityType
  <1>3. \A i \in I : /\ i \in Int /\ s[i][f] \in Int /\ i \in Ahead(s, I, f, i)
                     /\ Ahead(s, I, f, i) \subseteq I
    BY <1>1 DEF Ordered, Ahead
  <1>4. \A i \in I : /\ IsFiniteSet(Ahead(s, I, f, i)) /\ Cardinality(Ahead(s, I, f, i)) \in Nat
                     /\ Cardinality(Ahead(s, I, f, i)) <= Cardinality(I)
    BY <1>2, <1>3, FS_Subset, FS_CardinalityType
  <1>5. ASSUME NEW i \in I PROVE Cardinality(Ahead(s, I, f, i)) \in 1 .. Cardinality(I)
    <2>1. Cardinality(Ahead(s, I, f, i)) # 0
      BY <1>3, <1>4, FS_EmptySet
    <2>. QED BY <1>2, <1>4, <2>1
  <1>6. ASSUME NEW i \in I, NEW j \in I, i # j, i \in Ahead(s, I, f, j)
        PROVE  Cardinality(Ahead(s, I, f, i)) < Cardinality(Ahead(s, I, f, j))
    <2>1. Ahead(s, I, f, i) \subseteq Ahead(s, I, f, j) /\ j \notin Ahead(s, I, f, i)
      BY <1>3, <1>6 DEF Ahead
    <2>2. /\ Cardinality(Ahead(s, I, f, i)) <= Cardinality(Ahead(s, I, f, j))
          /\ Cardinality(Ahead(s, I, f, i)) # Cardinality(Ahead(s, I, f, j))
      BY <1>3, <1>4, <2>1, FS_Subset
    <2>. QED BY <1>4, <2>2
  <1>7. ASSUME NEW i \in I, NEW j \in I, i # j
        PROVE  Cardinality(Ahead(s, I, f, i)) # Cardinality(Ahead(s, I, f, j))
    <2>1. i \in Ahead(s, I, f, j) \/ j \in Ahead(s, I, f, i)
      BY <1>3 DEF Ahead
    <2>. QED BY <1>4, <1>6, <1>7, <2>1
  <1>8. ASSUME NEW k \in 1 .. Cardinality(I) PROVE \E i \in I : Cardinality(Ahead(s, I, f, i)) = k
    <2>. DEFINE T == 1 .. Cardinality(I)
                rank == [i \in I |-> Cardinality(Ahead(s, I, f, i))]
    <2>1. rank \in [I -> T]
      BY <1>5
    <2>2. \A i \in I, j \in I : rank[i] = rank[j] => i = j
      BY <1>7
    <2>3. IsFiniteSet(T) /\ Cardinality(T) = Cardinality(I)
      BY <1>2, FS_Interval
    <2>. HIDE DEF T, rank
    <2>4. rank \in Surjection(I, T)
      BY <2>1, <2>2, <2>3, Fun_IsInj, FS_Injection
    <2>5. \E i \in I : rank[i] = k
      BY <2>4 DEF Surjection, T
    <2>. QED BY <2>5 DEF rank
  <1>. QED BY <1>2, <1>5, <1>6, <1>7, <1>8

\* A sorted list has the elements at the given positions, each once, in ascending
\* order of the field.
LEMMA SortedIs ==
  ASSUME NEW s, NEW I, NEW f, NEW E, Ordered(s, I, f), \A i \in I : s[i] \in E
  PROVE  /\ SortedBy(s, I, f) \in Seq(E)
         /\ \A k \in DOMAIN SortedBy(s, I, f), m \in DOMAIN SortedBy(s, I, f) :
              k <= m => SortedBy(s, I, f)[k][f] <= SortedBy(s, I, f)[m][f]
         /\ \E p \in Bijection(DOMAIN SortedBy(s, I, f), I) :
              \A k \in DOMAIN SortedBy(s, I, f) : SortedBy(s, I, f)[k] = s[p[k]]
  <1>. DEFINE n == Cardinality(I)
              Rank(i) == Cardinality(Ahead(s, I, f, i))
              p == [k \in 1 .. n |-> CHOOSE i \in I : Rank(i) = k]
              r == SortedBy(s, I, f)
  <1>1. r = [k \in 1 .. n |-> s[p[k]]]
    BY DEF SortedBy, Ahead
  <1>2. /\ n \in Nat /\ \A i \in I : Rank(i) \in 1 .. n
        /\ \A i \in I, j \in I : i # j /\ i \in Ahead(s, I, f, j) => Rank(i) < Rank(j)
        /\ \A i \in I, j \in I : Rank(i) = Rank(j) => i = j
        /\ \A k \in 1 .. n : \E i \in I : Rank(i) = k
    BY Ranks
  <1>3. \A k \in 1 .. n : p[k] \in I /\ Rank(p[k]) = k
    <2>. HIDE DEF n, Rank
    <2>. QED BY <1>2
  <1>4. p \in [1 .. n -> I]
    BY <1>3
  <1>. HIDE DEF n, Rank, p, r
  <1>5. r \in Seq(E) /\ DOMAIN r = 1 .. n
    BY <1>1, <1>2, <1>3
  <1>6. ASSUME NEW k \in 1 .. n, NEW m \in 1 .. n, k <= m PROVE r[k][f] <= r[m][f]
    <2>1. SUFFICES ASSUME ~(s[p[k]][f] <= s[p[m]][f]) PROVE FALSE
      BY <1>1
    <2>2. /\ p[k] \in I /\ p[m] \in I /\ s[p[k]][f] \in Int /\ s[p[m]][f] \in Int
      BY <1>3 DEF Ordered
    <2>3. p[m] \in Ahead(s, I, f, p[k]) /\ p[m] # p[k]
      BY <2>1, <2>2 DEF Ahead
    <2>4. m < k
      BY <1>2, <1>3, <2>2, <2>3
    <2>. QED BY <1>2, <1>6, <2>4
  <1>7. p \in Bijection(1 .. n, I)
    <2>1. \A k \in 1 .. n, m \in 1 .. n : p[k] = p[m] => k = m
      BY <1>3
    <2>2. \A i \in I : \E k \in 1 .. n : p[k] = i
      BY <1>2, <1>3
    <2>. QED BY <1>4, <2>1, <2>2, Fun_IsBij
  <1>8. \A k \in 1 .. n : r[k] = s[p[k]]
    BY <1>1
  <1>. QED BY <1>5, <1>6, <1>7, <1>8 DEF r

-----------------------------------------------------------------------------
(* The configuration.                                                      *)

Rules == [maxMcp : Nat, buyUSD : Nat, buyRatio : Nat, minSellRatio : Nat]
Levels == [profitRatio : Nat, sellRatio : Nat]
Typed(conf) ==
  /\ \A f \in Numbers : conf[f] \in Nat
  /\ conf.tokenConfig \in Seq(Rules) /\ conf.levels \in Seq(Levels)

\* The default of every number is a number that is not negative.
LEMMA DefaultNumbers == Numbers \subseteq Fields /\ \A f \in Numbers : Defaults[f] \in Nat
  <1>1. "tokenConfig" \notin Numbers /\ "levels" \notin Numbers
    BY DEF Numbers, ToZero
  <1>2. Numbers \subseteq Fields
    BY DEF Numbers, ToZero, Fields, Defaults
  <1>3. ASSUME NEW f \in Numbers PROVE Defaults[f] \in Nat
    BY <1>3 DEF Numbers, ToZero, Defaults
  <1>. QED BY <1>2, <1>3

\* A rule with its negative numbers replaced is a rule.
LEMMA FloorTyped ==
  ASSUME NEW r \in [maxMcp : Int, buyUSD : Int, buyRatio : Int, minSellRatio : Int]
  PROVE  RuleFloor(r) \in Rules
  <1>1. DOMAIN r = {"maxMcp", "buyUSD", "buyRatio", "minSellRatio"}
    OBVIOUS
  <1>2. \A x \in Int : AtLeastZero(x) \in Nat
    BY DEF AtLeastZero
  <1>3. RuleFloor(r) = [maxMcp |-> AtLeastZero(r.maxMcp), buyUSD |-> AtLeastZero(r.buyUSD),
                        buyRatio |-> AtLeastZero(r.buyRatio),
                        minSellRatio |-> AtLeastZero(r.minSellRatio)]
    BY <1>1 DEF RuleFloor
  <1>. QED BY <1>2, <1>3 DEF Rules

\* The lists that Parse sorts: the rules, and the levels with what can be sold.
StoredRules(v) == IF "tokenConfig" \in DOMAIN v THEN v.tokenConfig ELSE Defaults.tokenConfig
StoredLevels(v) == IF "levels" \in DOMAIN v THEN v.levels ELSE Defaults.levels
Floored(rs) == [i \in DOMAIN rs |-> RuleFloor(rs[i])]
Worth(ls) == {i \in DOMAIN ls : PositiveLevel(ls[i])}

LEMMA ListsParsed ==
  ASSUME NEW v \in StoredConfigs
  PROVE  /\ Parse(v).tokenConfig =
                SortedBy(Floored(StoredRules(v)), DOMAIN StoredRules(v), "maxMcp")
         /\ Ordered(Floored(StoredRules(v)), DOMAIN StoredRules(v), "maxMcp")
         /\ \A i \in DOMAIN StoredRules(v) : Floored(StoredRules(v))[i] \in Rules
         /\ Parse(v).levels = SortedBy(StoredLevels(v), Worth(StoredLevels(v)), "profitRatio")
         /\ Ordered(StoredLevels(v), Worth(StoredLevels(v)), "profitRatio")
         /\ \A i \in Worth(StoredLevels(v)) :
               StoredLevels(v)[i] \in [profitRatio : Nat \ {0}, sellRatio : Nat \ {0}]
  <1>. DEFINE rs == StoredRules(v)
              ls == StoredLevels(v)
              StoredRule == [maxMcp : Int, buyUSD : Int, buyRatio : Int, minSellRatio : Int]
              StoredLevel == [profitRatio : Int, sellRatio : Int]
  <1>1. rs \in Seq(StoredRule)
    <2>1. Defaults.tokenConfig \in Seq(StoredRule)
      BY DEF Defaults
    <2>. QED BY <2>1, ConfigAssumption DEF ConfigAssumption, StoredRules
  <1>2. ls \in Seq(StoredLevel)
    <2>1. Defaults.levels \in Seq(StoredLevel)
      BY DEF Defaults
    <2>. QED BY <2>1, ConfigAssumption DEF ConfigAssumption, StoredLevels
  <1>3. /\ "tokenConfig" \in Fields /\ "levels" \in Fields
        /\ "tokenConfig" \notin Numbers /\ "levels" \notin Numbers
    BY DEF Fields, Defaults, Numbers, ToZero
  <1>4. /\ Parse(v).tokenConfig = SortedBy(Floored(rs), DOMAIN rs, "maxMcp")
        /\ Parse(v).levels = SortedBy(ls, Worth(ls), "profitRatio")
    <2>1. Parse(v).tokenConfig = SortedBy([i \in DOMAIN rs |-> RuleFloor(rs[i])], DOMAIN rs, "maxMcp")
      BY <1>3 DEF Parse, StoredRules
    <2>2. Parse(v).levels = SortedBy(ls, {i \in DOMAIN ls : PositiveLevel(ls[i])}, "profitRatio")
      BY <1>3 DEF Parse, StoredLevels
    <2>. QED BY <2>1, <2>2 DEF Floored, Worth
  <1>. HIDE DEF rs, ls
  <1>5. /\ Len(rs) \in Nat /\ DOMAIN rs = 1 .. Len(rs) /\ \A i \in DOMAIN rs : rs[i] \in StoredRule
        /\ Len(ls) \in Nat /\ DOMAIN ls = 1 .. Len(ls) /\ \A i \in DOMAIN ls : ls[i] \in StoredLevel
    <2>. HIDE DEF StoredRule, StoredLevel
    <2>. QED BY <1>1, <1>2
  <1>6. \A i \in DOMAIN rs : Floored(rs)[i] \in Rules
    BY <1>5, FloorTyped DEF Floored
  <1>7. Ordered(Floored(rs), DOMAIN rs, "maxMcp")
    <2>1. \A i \in DOMAIN rs : Floored(rs)[i].maxMcp \in Int
      BY <1>6 DEF Rules
    <2>. QED BY <1>5, <2>1 DEF Ordered
  <1>8. \A i \in Worth(ls) : ls[i] \in [profitRatio : Nat \ {0}, sellRatio : Nat \ {0}]
    BY <1>5 DEF Worth, PositiveLevel
  <1>9. Ordered(ls, Worth(ls), "profitRatio")
    <2>1. Worth(ls) \subseteq 1 .. Len(ls) /\ \A i \in Worth(ls) : ls[i].profitRatio \in Int
      BY <1>5 DEF Worth
    <2>. QED BY <1>5, <2>1 DEF Ordered
  <1>. QED BY <1>4, <1>6, <1>7, <1>8, <1>9 DEF rs, ls

\* What Parse answers has no negative number.
LEMMA ParsedTyped == ASSUME NEW v \in StoredConfigs PROVE Typed(Parse(v))
  <1>1. ASSUME NEW f \in Numbers PROVE Parse(v)[f] \in Nat
    <2>1. f \in Fields /\ Defaults[f] \in Nat /\ f # "tokenConfig" /\ f # "levels"
      BY DefaultNumbers DEF Numbers, ToZero
    <2>. DEFINE x == IF f \in DOMAIN v THEN v[f] ELSE Defaults[f]
    <2>2. x \in Int
      BY <2>1, ConfigAssumption DEF ConfigAssumption
    <2>3. Parse(v)[f] = IF x < 0 THEN IF f \in ToZero THEN 0 ELSE Defaults[f] ELSE x
      BY <2>1 DEF Parse
    <2>. QED BY <2>1, <2>2, <2>3
  <1>2. Parse(v).tokenConfig \in Seq(Rules)
    BY ListsParsed, SortedIs
  <1>3. Parse(v).levels \in Seq(Levels)
    <2>1. \A i \in Worth(StoredLevels(v)) : StoredLevels(v)[i] \in Levels
      BY ListsParsed DEF Levels
    <2>. QED BY <2>1, ListsParsed, SortedIs
  <1>. QED BY <1>1, <1>2, <1>3 DEF Typed

\* Of the rules whose cap a market cap does not exceed, the one that is used has the
\* least cap, and no rung of take profit asks for less than the one before it or
\* sells nothing, in whatever order rules and levels are stored (Parse, RuleWithIndex).
THEOREM ParseOrders ==
  ASSUME NEW v \in StoredConfigs
  PROVE  /\ \A mcp : \A i \in Matching(Parse(v), mcp) :
              RuleWithIndex(Parse(v), mcp).maxMcp <= Parse(v).tokenConfig[i].maxMcp
         /\ \A i, j \in DOMAIN Parse(v).levels :
              i <= j => Parse(v).levels[i].profitRatio <= Parse(v).levels[j].profitRatio
         /\ \A i \in DOMAIN Parse(v).levels :
              Parse(v).levels[i].profitRatio > 0 /\ Parse(v).levels[i].sellRatio > 0
  <1>. DEFINE rules == Parse(v).tokenConfig
              levels == Parse(v).levels
              Step == [profitRatio : Nat \ {0}, sellRatio : Nat \ {0}]
  <1>1. /\ rules \in Seq(Rules)
        /\ \A i \in DOMAIN rules, j \in DOMAIN rules : i <= j => rules[i].maxMcp <= rules[j].maxMcp
    BY ListsParsed, SortedIs
  <1>2. /\ levels \in Seq(Step)
        /\ \A i \in DOMAIN levels, j \in DOMAIN levels :
              i <= j => levels[i].profitRatio <= levels[j].profitRatio
    <2>1. \A i \in Worth(StoredLevels(v)) : StoredLevels(v)[i] \in Step
      BY ListsParsed
    <2>. HIDE DEF Step
    <2>. QED BY <2>1, ListsParsed, SortedIs
  <1>3. \A i \in DOMAIN levels : levels[i].profitRatio > 0 /\ levels[i].sellRatio > 0
    <2>1. \A i \in DOMAIN levels : levels[i] \in Step
      <3>. HIDE DEF levels, Step
      <3>. QED BY <1>2
    <2>. HIDE DEF levels
    <2>. QED BY <2>1
  <1>4. ASSUME NEW mcp, NEW i \in Matching(Parse(v), mcp)
        PROVE  RuleWithIndex(Parse(v), mcp).maxMcp <= rules[i].maxMcp
    <2>. DEFINE M == Matching(Parse(v), mcp)
                k == CHOOSE k1 \in M : \A j \in M : k1 <= j
    <2>1. M \subseteq DOMAIN rules /\ DOMAIN rules \subseteq Nat /\ i \in M
      BY <1>1, <1>4 DEF Matching
    <2>2. \E k1 \in M : \A j \in M : k1 <= j
      <3>. HIDE DEF M, rules
      <3>. QED BY <2>1, LeastOf
    <2>3. k \in M /\ k <= i
      BY <2>1, <2>2
    <2>4. RuleWithIndex(Parse(v), mcp) = rules[k]
      BY DEF RuleWithIndex
    <2>. HIDE DEF M, k, rules
    <2>. QED BY <1>1, <2>1, <2>3, <2>4
  <1>. QED BY <1>2, <1>3, <1>4

LEMMA NumbersTyped ==
  ASSUME NEW conf, Typed(conf)
  PROVE  /\ conf.maxLossBuyTimes \in Nat /\ conf.minLossBuyRatio \in Nat
         /\ conf.fullSellAfterSellCount \in Nat
         /\ conf.buyAmountRatio \in Nat /\ conf.externalSellRatio \in Nat
         /\ conf.sellRatio \in Nat /\ conf.baseUSD \in Nat
  BY DEF Typed, Numbers, ToZero

-----------------------------------------------------------------------------
(* The decisions.                                                          *)

LEMMA RuleTyped ==
  ASSUME NEW conf, Typed(conf), NEW mcp, Matching(conf, mcp) # {}
  PROVE  RuleWithIndex(conf, mcp) \in Rules
  <1>1. Matching(conf, mcp) \subseteq DOMAIN conf.tokenConfig /\ DOMAIN conf.tokenConfig \subseteq Nat
    BY DEF Matching, Typed
  <1>2. PICK i \in Matching(conf, mcp) : \A j \in Matching(conf, mcp) : i <= j
    BY <1>1, LeastOf
  <1>. DEFINE k == CHOOSE i1 \in Matching(conf, mcp) : \A j \in Matching(conf, mcp) : i1 <= j
  <1>3. k \in DOMAIN conf.tokenConfig
    BY <1>1, <1>2
  <1>. HIDE DEF k
  <1>4. conf.tokenConfig[k] \in Rules
    BY <1>3 DEF Typed
  <1>. QED BY <1>4 DEF k, RuleWithIndex

\* An event has a price, and a sell of others is answered by a buy.
LEMMA EvaluateIs ==
  ASSUME NEW conf, NEW r, NEW p, NEW ev, ev.price \in Nat \ {0}
  PROVE  Evaluate(conf, r, ev, p) = IF ev.side = "sell" THEN Buying(conf, r, ev, p, ev.price)
                                                       ELSE Selling(conf, ev, p, ev.price)
  <1>. DEFINE price == IF ev.price <= 0 THEN p.lastPrice ELSE ev.price
  <1>1. price = ev.price /\ ~(price <= 0)
    OBVIOUS
  <1>2. Evaluate(conf, r, ev, p) = IF price <= 0 THEN NoTrade
             ELSE IF ev.side = "sell" THEN Buying(conf, r, ev, p, price)
             ELSE Selling(conf, ev, p, price)
    BY DEF Evaluate
  <1>. HIDE DEF price
  <1>. QED BY <1>1, <1>2

\* A sell is of the amount of a branch, or of everything.
LEMMA SellingIs ==
  ASSUME NEW conf, NEW p, NEW ev, NEW price
  PROVE  LET All(reason) == Trade("sell", p.amount, reason)
             OrAll(amount, reason) == IF ForceFull(conf, p) THEN All(reason) ELSE Trade("sell", amount, reason)
             S == Selling(conf, ev, p, price)
         IN \/ S = NoTrade
            \/ S = OrAll(ExternalAmount(conf, ev, p, price), "external_buy_signal")
            \/ /\ Profit(conf, p, price)
               /\ S = OrAll(Part(p, Rung(conf, p).sellRatio), "profit_sell")
            \/ S = All("loss_protection")
            \/ S = All("sell_count_force_full")
  BY DEF Selling

LEMMA BuyingIs ==
  ASSUME NEW conf, NEW r, NEW p, NEW ev, NEW price
  PROVE  \/ Buying(conf, r, ev, p, price) = NoTrade
         \/ /\ ~(BuyAmount(r, ev) <= 0) /\ ~TooManyLossBuys(conf, p, price)
            /\ Buying(conf, r, ev, p, price) = Trade("buy", BuyAmount(r, ev), "external_sell_signal")
  BY DEF Buying

LEMMA TradeFields ==
  ASSUME NEW a, NEW n, NEW x
  PROVE  Trade(a, n, x).action = a /\ Trade(a, n, x).amount = n /\ Trade(a, n, x).reason = x
  BY DEF Trade

\* Events of either side are answered by trades of the other.
LEMMA ActionsDiffer ==
  ASSUME NEW conf, NEW r, NEW p, NEW ev, NEW price
  PROVE  /\ Buying(conf, r, ev, p, price).action # "sell"
         /\ Selling(conf, ev, p, price).action # "buy"
         /\ NoTrade.action \notin {"buy", "sell"}
  <1>1. NoTrade.action = ""
    BY DEF NoTrade
  <1>2. Buying(conf, r, ev, p, price).action # "sell"
    <2>1. CASE Buying(conf, r, ev, p, price) = NoTrade
      BY <1>1, <2>1
    <2>2. CASE Buying(conf, r, ev, p, price) = Trade("buy", BuyAmount(r, ev), "external_sell_signal")
      BY <2>2, TradeFields
    <2>. QED BY <2>1, <2>2, BuyingIs
  <1>3. ASSUME NEW n, NEW x, Selling(conf, ev, p, price) = Trade("sell", n, x)
        PROVE  Selling(conf, ev, p, price).action # "buy"
    BY <1>3, TradeFields
  <1>4. \/ Selling(conf, ev, p, price) = NoTrade
        \/ \E n, x : Selling(conf, ev, p, price) = Trade("sell", n, x)
    BY SellingIs, Zenon
  <1>. QED BY <1>1, <1>2, <1>3, <1>4

\* A buy is one that does not pass the limit of buys below the first price.
LEMMA BuyDecides ==
  ASSUME NEW conf, Typed(conf), NEW r \in Rules, NEW p,
         NEW ev, ev.price \in Nat \ {0}, ev.quoteUSD \in Nat,
         Evaluate(conf, r, ev, p).action = "buy"
  PROVE  /\ Evaluate(conf, r, ev, p).amount \in Nat
         /\ Evaluate(conf, r, ev, p).reason = "external_sell_signal"
         /\ ~TooManyLossBuys(conf, p, ev.price)
  <1>1. Selling(conf, ev, p, ev.price).action # "buy"
    BY ActionsDiffer
  <1>2. Evaluate(conf, r, ev, p) = Buying(conf, r, ev, p, ev.price)
    BY <1>1, EvaluateIs
  <1>4. BuyAmount(r, ev) \in Int
    <2>1. r.buyRatio \in Nat /\ r.buyUSD \in Nat
      BY DEF Rules
    <2>2. ev.quoteUSD * r.buyRatio \in Nat
      BY <2>1
    <2>. QED BY <2>1, <2>2 DEF BuyAmount
  <1>3. /\ BuyAmount(r, ev) > 0 /\ ~TooManyLossBuys(conf, p, ev.price)
        /\ Evaluate(conf, r, ev, p) = Trade("buy", BuyAmount(r, ev), "external_sell_signal")
    <2>1. Buying(conf, r, ev, p, ev.price) # NoTrade
      BY <1>2, ActionsDiffer
    <2>. QED BY <1>2, <1>4, <2>1, BuyingIs
  <1>. QED BY <1>3, <1>4, TradeFields

\* A sell is all there is when the count of sells is reached.
LEMMA SellDecides ==
  ASSUME NEW conf, Typed(conf), NEW r, NEW p, p.amount \in Nat, p.profitLevel \in Nat,
         NEW ev, ev.price \in Nat \ {0}, ev.quoteUSD \in Nat,
         Evaluate(conf, r, ev, p).action = "sell"
  PROVE  /\ Evaluate(conf, r, ev, p).amount \in Int
         /\ Evaluate(conf, r, ev, p).reason \in Reasons
         /\ Evaluate(conf, r, ev, p).reason = "profit_sell" => p.profitLevel < Len(conf.levels)
         /\ ForceFull(conf, p) => Evaluate(conf, r, ev, p).amount = p.amount
  <1>. DEFINE price == ev.price
              All(reason) == Trade("sell", p.amount, reason)
              OrAll(amount, reason) == IF ForceFull(conf, p) THEN All(reason) ELSE Trade("sell", amount, reason)
  <1>1. Evaluate(conf, r, ev, p) = Selling(conf, ev, p, price)
    <2>1. Buying(conf, r, ev, p, ev.price).action # "sell"
      BY ActionsDiffer
    <2>. QED BY <2>1, EvaluateIs
  <1>2. \/ Selling(conf, ev, p, price) = OrAll(ExternalAmount(conf, ev, p, price), "external_buy_signal")
        \/ /\ Profit(conf, p, price)
           /\ Selling(conf, ev, p, price) = OrAll(Part(p, Rung(conf, p).sellRatio), "profit_sell")
        \/ \E reason \in Reasons \ {"profit_sell"} : Selling(conf, ev, p, price) = All(reason)
    <2>1. {"loss_protection", "sell_count_force_full"} \subseteq Reasons \ {"profit_sell"}
      BY DEF Reasons
    <2>2. Selling(conf, ev, p, price) # NoTrade
      BY <1>1, ActionsDiffer
    <2>. QED BY <2>1, <2>2, SellingIs, Zenon
  <1>3. ExternalAmount(conf, ev, p, price) \in Int
    <2>1. conf.buyAmountRatio \in Nat /\ conf.externalSellRatio \in Nat
      BY NumbersTyped
    <2>2. ev.quoteUSD * conf.buyAmountRatio \in Nat /\ 100 * price \in Nat \ {0}
      BY <2>1
    <2>3. (ev.quoteUSD * conf.buyAmountRatio) \div (100 * price) \in Int
      BY <2>2
    <2>4. p.amount * conf.externalSellRatio \in Nat
      BY <2>1
    <2>. QED BY <2>3, <2>4 DEF ExternalAmount, Smaller, Part
  <1>4. Profit(conf, p, price) => Part(p, Rung(conf, p).sellRatio) \in Int
    <2>1. SUFFICES ASSUME Profit(conf, p, price) PROVE Part(p, Rung(conf, p).sellRatio) \in Int
      OBVIOUS
    <2>2. p.profitLevel + 1 \in DOMAIN conf.levels
      BY <2>1 DEF Profit, Typed
    <2>3. Rung(conf, p).sellRatio \in Nat
      <3>1. conf.levels[p.profitLevel + 1] \in Levels
        BY <2>2 DEF Typed
      <3>. QED BY <3>1 DEF Rung, Levels
    <2>4. p.amount * Rung(conf, p).sellRatio \in Nat
      BY <2>3
    <2>. QED BY <2>4 DEF Part
  <1>5. CASE Selling(conf, ev, p, price) = OrAll(ExternalAmount(conf, ev, p, price), "external_buy_signal")
    BY <1>1, <1>3, <1>5 DEF Trade, Reasons
  <1>6. CASE /\ Profit(conf, p, price)
             /\ Selling(conf, ev, p, price) = OrAll(Part(p, Rung(conf, p).sellRatio), "profit_sell")
    BY <1>1, <1>4, <1>6 DEF Trade, Reasons, Profit
  <1>7. CASE \E reason \in Reasons \ {"profit_sell"} : Selling(conf, ev, p, price) = All(reason)
    BY <1>1, <1>7 DEF Trade, Reasons
  <1>. QED BY <1>2, <1>5, <1>6, <1>7

\* Dollars that buy whole tokens pay no less than the price for each.
LEMMA PaidAtLeast ==
  ASSUME NEW amount \in Nat, NEW price \in Nat \ {0}, amount >= price
  PROVE  /\ amount \div price \in Nat \ {0}
         /\ amount \div (amount \div price) \in Nat
         /\ amount \div (amount \div price) >= price
  <1>. DEFINE n == amount \div price
              q == amount \div n
  <1>1. n \in Nat /\ n * price <= amount /\ n > 0
    OBVIOUS
  <1>. HIDE DEF n
  <1>2. q \in Nat /\ amount < (q + 1) * n
    BY <1>1
  <1>. HIDE DEF q
  <1>3. ASSUME q < price PROVE FALSE
    <2>1. \E d \in Nat : price = q + 1 + d
      <3>1. price - (q + 1) \in Nat /\ price = q + 1 + (price - (q + 1))
        BY <1>2, <1>3
      <3>. QED BY <3>1
    <2>2. PICK d \in Nat : price = q + 1 + d
      BY <2>1
    <2>3. n * price = (q + 1) * n + d * n /\ d * n \in Nat
      BY <1>1, <1>2, <2>2
    <2>. QED BY <1>1, <1>2, <2>3
  <1>. QED BY <1>1, <1>2, <1>3 DEF n, q

-----------------------------------------------------------------------------
(* Types.  Of quote, cost and average nothing is said: what is replayed    *)
(* from the records is a fold.                                             *)

Columns == {"amount", "quote", "cost", "average", "firstPrice", "lastPrice", "buyCount",
            "sellCount", "profitLevel", "scheduled"}
Counted(r) ==
  /\ DOMAIN r = Columns
  /\ r.amount \in Nat /\ r.firstPrice \in Nat /\ r.lastPrice \in Nat
  /\ r.buyCount \in Nat /\ r.sellCount \in Nat /\ r.profitLevel \in Nat

\* A buy is of one token at least.
Fills == {t \in Sent : t.side = "buy" => t.tokens > 0}
\* No more than one fill of a side is to be accounted.
Queue(m) ==
  \/ m = <<>>
  \/ \E x \in Fills : m = <<x>>
  \/ \E x, y \in Fills : m = <<x, y>> /\ x.side # y.side

Types ==
  /\ Typed(c) /\ Counted(row)
  /\ balance \in Nat /\ behind \in Nat /\ ave.balance \in Int
  /\ touched \in BOOLEAN /\ lossBuys \in Nat
  /\ sent \subseteq Fills /\ Queue(mined)

\* One trade of a side is on its way or not accounted.
Apart ==
  /\ \A t, o \in sent : t.side = o.side => t = o
  /\ \A t \in sent, i \in DOMAIN mined : t.side # mined[i].side

LEMMA EmptyCounted == Counted(EmptyRow) /\ EmptyRow.amount = 0 /\ EmptyRow.sellCount = 0
                      /\ EmptyRow.firstPrice = 0 /\ EmptyRow.buyCount = 0
  BY DEF Counted, EmptyRow, Columns

\* The quotient of two numbers is a number.
LEMMA Quotient == ASSUME NEW a \in Nat, NEW b \in Nat \ {0} PROVE a \div b \in Nat
  OBVIOUS

LEMMA PositionIs ==
  /\ Position.amount = row.amount /\ Position.firstPrice = row.firstPrice
  /\ Position.buyCount = row.buyCount /\ Position.sellCount = row.sellCount
  /\ Position.profitLevel = row.profitLevel
  BY DEF Position

LEMMA EventTyped ==
  ASSUME NEW e \in Events
  PROVE  e.price \in Nat \ {0} /\ e.quoteUSD \in Nat
  BY LedgerAssumption DEF LedgerAssumption

\* A buy is of tokens for no less than the price, and within the limit.
LEMMA BuyIs ==
  ASSUME Types, NEW e \in Events, Buy(e)
  PROVE  \E t \in Fills :
            /\ t.side = "buy" /\ ~Pending("buy") /\ sent' = sent \cup {t} /\ t.reason # "profit_sell"
            /\ t.quote \div t.tokens \in Nat /\ t.quote \div t.tokens >= e.price
            /\ ~TooManyLossBuys(c, Position, e.price)
            /\ UNCHANGED <<c, row, records, balance, mined, sync, history>>
  <1>. DEFINE d == Decision(e)
              t == [side |-> "buy", tokens |-> d.amount \div e.price, quote |-> d.amount, reason |-> d.reason]
  <1>1. e.price \in Nat \ {0} /\ e.quoteUSD \in Nat /\ Typed(c)
    BY EventTyped DEF Types
  <1>2. RuleWithIndex(c, e.marketCap) \in Rules
    BY RuleTyped DEF Buy, Eligible, Types
  <1>3. d.amount \in Nat /\ d.reason = "external_sell_signal" /\ ~TooManyLossBuys(c, Position, e.price)
    BY <1>1, <1>2, BuyDecides DEF Buy, Decision
  <1>4. /\ d.amount >= e.price /\ ~Pending("buy") /\ sent' = sent \cup {t}
        /\ UNCHANGED <<c, row, records, balance, mined, sync, history>>
    BY DEF Buy, Send
  <1>. HIDE DEF d
  <1>5. /\ d.amount \div e.price \in Nat \ {0}
        /\ d.amount \div (d.amount \div e.price) \in Nat
        /\ d.amount \div (d.amount \div e.price) >= e.price
    BY <1>1, <1>3, <1>4, PaidAtLeast
  <1>6. t \in Fills /\ t.side = "buy" /\ t.quote = d.amount /\ t.tokens = d.amount \div e.price
        /\ t.reason = d.reason
    BY <1>3, <1>5 DEF Fills, Sent, Reasons
  <1>. HIDE DEF t
  <1>. QED BY <1>3, <1>4, <1>5, <1>6

\* A sell that is not dust sends what the wallet holds when the count is reached.
LEMMA SellIs ==
  ASSUME Types, NEW e \in Events, Sell(e), ~Dust
  PROVE  \E t \in Fills :
            /\ t.side = "sell" /\ ~Pending("sell") /\ sent' = sent \cup {t}
            /\ t.reason = "profit_sell" => row.profitLevel < Len(c.levels)
            /\ ForceFull(c, Position) => t.tokens = balance
            /\ UNCHANGED <<c, row, records, balance, mined, sync, history>>
  <1>. DEFINE d == Decision(e)
              tokens == IF d.amount >= row.amount THEN balance ELSE d.amount
              t == [side |-> "sell", tokens |-> tokens, quote |-> tokens * e.price, reason |-> d.reason]
  <1>1. e.price \in Nat \ {0} /\ e.quoteUSD \in Nat /\ Typed(c) /\ balance \in Nat /\ row.amount \in Nat
        /\ Position.amount \in Nat /\ Position.profitLevel \in Nat
    BY EventTyped, PositionIs DEF Types, Counted
  <1>2. d.amount \in Int /\ d.reason \in Reasons /\ (ForceFull(c, Position) => d.amount = row.amount)
        /\ (d.reason = "profit_sell" => row.profitLevel < Len(c.levels))
    BY <1>1, SellDecides, PositionIs DEF Sell, Decision
  <1>3. /\ d.amount > 0 /\ ~Pending("sell") /\ sent' = sent \cup {t}
        /\ UNCHANGED <<c, row, records, balance, mined, sync, history>>
    BY DEF Sell, Send
  <1>. HIDE DEF d
  <1>4. tokens \in Nat /\ (ForceFull(c, Position) => tokens = balance)
    BY <1>1, <1>2, <1>3
  <1>5. tokens * e.price \in Nat
    BY <1>1, <1>4
  <1>. HIDE DEF tokens
  <1>6. t \in Fills /\ t.side = "sell" /\ t.tokens = tokens /\ t.reason = d.reason
    BY <1>2, <1>4, <1>5 DEF Fills, Sent
  <1>. HIDE DEF t
  <1>. QED BY <1>2, <1>3, <1>4, <1>6

\* So does a scheduled sell.
LEMMA ScheduledSellIs ==
  ASSUME Types, ScheduledSell, ~Dust
  PROVE  \E t \in Fills :
            /\ t.side = "sell" /\ ~Pending("sell") /\ sent' = sent \cup {t}
            /\ t.reason # "profit_sell"
            /\ ForceFull(c, Position) => t.tokens = balance
            /\ UNCHANGED <<c, row, records, balance, mined, sync, history>>
  <1>. DEFINE tokens == IF ForceFull(c, Position) THEN balance ELSE ScheduledAmount
  <1>1. PICK price \in Prices : Send("sell", tokens, tokens * price, "scheduled_sell")
    BY DEF ScheduledSell
  <1>2. ~Pending("sell") /\ ScheduledAmount > 0 /\ row.lastPrice > 0
    BY DEF ScheduledSell
  <1>3. price \in Nat /\ balance \in Nat /\ row.amount \in Nat /\ row.lastPrice \in Nat \ {0}
        /\ c.sellRatio \in Nat /\ c.baseUSD \in Nat
    BY <1>2, LedgerAssumption, NumbersTyped DEF LedgerAssumption, Types, Counted
  <1>4. ScheduledAmount \in Int
    <2>1. row.amount * c.sellRatio \in Nat /\ c.baseUSD \div row.lastPrice \in Int
      BY <1>3
    <2>2. Part(Position, c.sellRatio) \in Int
      BY <2>1, PositionIs DEF Part
    <2>. QED BY <1>3, <2>1, <2>2 DEF ScheduledAmount, Smaller
  <1>5. tokens \in Nat
    BY <1>2, <1>3, <1>4
  <1>6. tokens * price \in Nat
    BY <1>3, <1>5
  <1>7. ForceFull(c, Position) => tokens = balance
    OBVIOUS
  <1>. HIDE DEF tokens
  <1>. DEFINE t == [side |-> "sell", tokens |-> tokens, quote |-> tokens * price, reason |-> "scheduled_sell"]
  <1>8. sent' = sent \cup {t} /\ UNCHANGED <<c, row, records, balance, mined, sync, history>>
    BY <1>1 DEF Send
  <1>9. t \in Fills /\ t.side = "sell" /\ t.tokens = tokens /\ t.reason # "profit_sell"
    BY <1>5, <1>6 DEF Fills, Sent, Reasons
  <1>. HIDE DEF t
  <1>. QED BY <1>2, <1>7, <1>8, <1>9

-----------------------------------------------------------------------------
(* The steps.                                                              *)

\* A trade is sent: a buy is within the limit, a sell that reaches the count
\* takes what the wallet holds.
Allowed(t) ==
  IF t.side = "buy"
  THEN /\ t.quote \div t.tokens \in Nat
       /\ \E price \in Nat \ {0} : t.quote \div t.tokens >= price /\ ~TooManyLossBuys(c, Position, price)
  ELSE ForceFull(c, Position) => t.tokens = balance
Sends(t) ==
  /\ t \in Fills /\ ~Pending(t.side) /\ Allowed(t)
  /\ t.reason = "profit_sell" => t.side = "sell" /\ row.profitLevel < Len(c.levels)
  /\ sent' = sent \cup {t} /\ UNCHANGED <<c, row, records, balance, mined, sync, history>>
Rests == UNCHANGED <<c, row, records, balance, sent, mined, sync, history>>

LEMMA StepIs ==
  ASSUME Types, [Next]_vars
  PROVE  \/ \E t \in Fills : Sends(t)
         \/ Rests \/ ClearRow \/ Fill \/ AveWrites
         \/ \E t \in sent : Mine(t) \/ Drop(t)
         \/ \E lagging \in BOOLEAN : AveAnswers(lagging)
  <1>. DEFINE Goal == \/ \E t \in Fills : Sends(t)
                      \/ Rests \/ ClearRow \/ Fill \/ AveWrites
                      \/ \E t \in sent : Mine(t) \/ Drop(t)
                      \/ \E lagging \in BOOLEAN : AveAnswers(lagging)
  <1>. SUFFICES Goal
    OBVIOUS
  <1>1. ASSUME NEW e \in Events, Buy(e) PROVE Goal
    <2>1. PICK t \in Fills :
            /\ t.side = "buy" /\ ~Pending("buy") /\ sent' = sent \cup {t} /\ t.reason # "profit_sell"
            /\ t.quote \div t.tokens \in Nat /\ t.quote \div t.tokens >= e.price
            /\ ~TooManyLossBuys(c, Position, e.price)
            /\ UNCHANGED <<c, row, records, balance, mined, sync, history>>
      BY <1>1, BuyIs
    <2>2. Sends(t)
      BY <2>1, EventTyped DEF Sends, Allowed
    <2>. QED BY <2>2
  <1>2. ASSUME NEW e \in Events, Sell(e) PROVE Goal
    <2>1. CASE Dust
      BY <1>2, <2>1 DEF Sell
    <2>2. CASE ~Dust
      <3>1. PICK t \in Fills :
              /\ t.side = "sell" /\ ~Pending("sell") /\ sent' = sent \cup {t}
              /\ t.reason = "profit_sell" => row.profitLevel < Len(c.levels)
              /\ ForceFull(c, Position) => t.tokens = balance
              /\ UNCHANGED <<c, row, records, balance, mined, sync, history>>
        BY <1>2, <2>2, SellIs
      <3>2. Sends(t)
        BY <3>1 DEF Sends, Allowed
      <3>. QED BY <3>2
    <2>. QED BY <2>1, <2>2
  <1>3. ASSUME ScheduledSell PROVE Goal
    <2>1. CASE Dust
      BY <1>3, <2>1 DEF ScheduledSell
    <2>2. CASE ~Dust
      <3>1. PICK t \in Fills :
              /\ t.side = "sell" /\ ~Pending("sell") /\ sent' = sent \cup {t}
              /\ t.reason # "profit_sell"
              /\ ForceFull(c, Position) => t.tokens = balance
              /\ UNCHANGED <<c, row, records, balance, mined, sync, history>>
        BY <1>3, <2>2, ScheduledSellIs
      <3>2. Sends(t)
        BY <3>1 DEF Sends, Allowed
      <3>. QED BY <3>2
    <2>. QED BY <2>1, <2>2
  <1>4. ASSUME NEW clock \in Clocks, TimePasses(clock) PROVE Goal
    BY <1>4 DEF TimePasses, Rests, chain
  <1>5. ASSUME UNCHANGED vars PROVE Goal
    BY <1>5 DEF vars, engine, chain, Rests
  <1>. HIDE DEF Goal
  <1>6. CASE Next
    <2>1. CASE \E e \in Events : Buy(e) \/ Sell(e)
      BY <1>1, <1>2, <2>1
    <2>2. CASE \E clock \in Clocks : TimePasses(clock)
      BY <1>4, <2>2
    <2>3. CASE Fill \/ AveWrites \/ (\E t \in sent : Mine(t) \/ Drop(t))
               \/ (\E lagging \in BOOLEAN : AveAnswers(lagging))
      BY <2>3 DEF Goal
    <2>. QED BY <1>3, <1>6, <2>1, <2>2, <2>3 DEF Next
  <1>. QED BY <1>5, <1>6

\* What is not accounted, when a fill is appended and when one is taken.
LEMMA Queues ==
  ASSUME NEW m, Queue(m)
  PROVE  /\ \A i \in DOMAIN m : m[i] \in Fills
         /\ \A t \in Fills : (\A i \in DOMAIN m : m[i].side # t.side) =>
               /\ Queue(Append(m, t))
               /\ m = <<>> => Append(m, t) = <<t>>
               /\ \A x : m = <<x>> => Append(m, t) = <<x, t>>
               /\ \A x, y : m # <<x, y>>
         /\ m # <<>> => /\ Queue(Tail(m)) /\ Head(m) \in Fills
                        /\ \A x : m = <<x>> => Head(m) = x /\ Tail(m) = <<>>
                        /\ \A x, y : m = <<x, y>> => Head(m) = x /\ Tail(m) = <<y>>
  <1>0. \A t \in Fills : t.side \in {"buy", "sell"}
    BY DEF Fills, Sent
  <1>1. CASE m = <<>>
    BY <1>1 DEF Queue
  <1>2. ASSUME NEW x \in Fills, m = <<x>>
        PROVE  /\ DOMAIN m = {1} /\ m[1] = x
               /\ \A t \in Fills : Append(m, t) = <<x, t>>
               /\ Head(m) = x /\ Tail(m) = <<>>
    <2>1. DOMAIN m = {1} /\ m[1] = x /\ Head(m) = x /\ m \in Seq(Fills) /\ Len(m) = 1
      BY <1>2
    <2>2. ASSUME NEW t \in Fills PROVE Append(m, t) = <<x, t>>
      <3>1. Append(m, t) \in Seq(Fills) /\ Len(Append(m, t)) = 2
            /\ Append(m, t)[1] = x /\ Append(m, t)[2] = t
        <4>1. /\ Append(m, t) \in Seq(Fills) /\ Len(Append(m, t)) = Len(m) + 1
              /\ \A i \in 1 .. Len(m) : Append(m, t)[i] = m[i]
              /\ Append(m, t)[Len(m) + 1] = t
          <5>1. m \in Seq(Fills)
            BY <2>1
          <5>. QED BY <5>1, AppendProperties
        <4>2. 1 \in 1 .. Len(m) /\ Len(m) + 1 = 2
          BY <2>1
        <4>. QED BY <2>1, <4>1, <4>2
      <3>2. <<x, t>> \in Seq(Fills) /\ Len(<<x, t>>) = 2 /\ <<x, t>>[1] = x /\ <<x, t>>[2] = t
        OBVIOUS
      <3>. DEFINE u == <<x, t>>
                  w == Append(m, t)
      <3>3. \A i \in 1 .. 2 : u[i] = w[i]
        BY <3>1, <3>2
      <3>. HIDE DEF u, w
      <3>4. u = w
        BY <3>1, <3>2, <3>3, SeqEqual DEF u, w
      <3>. QED BY <3>4 DEF u, w
    <2>3. Tail(m) = <<>>
      <3>1. Tail(m) \in Seq(Fills) /\ Len(Tail(m)) = 0
        BY <2>1, HeadTailProperties, EmptySeq
      <3>. QED BY <3>1, EmptySeq
    <2>. QED BY <2>1, <2>2, <2>3
  <1>3. ASSUME NEW x \in Fills, NEW y \in Fills, m = <<x, y>>, x.side # y.side
        PROVE  /\ DOMAIN m = {1, 2} /\ m[1] = x /\ m[2] = y
               /\ Head(m) = x /\ Tail(m) = <<y>>
    BY <1>3
  <1>4. CASE \E x \in Fills : m = <<x>>
    <2>1. PICK x \in Fills : m = <<x>>
      BY <1>4
    <2>2. /\ DOMAIN m = {1} /\ m[1] = x
          /\ \A t \in Fills : Append(m, t) = <<x, t>>
          /\ Head(m) = x /\ Tail(m) = <<>>
      BY <2>1, <1>2
    <2>3. \A z : m = <<z>> => z = x
      BY <2>1
    <2>4. \A z, y : m # <<z, y>>
      BY <2>1
    <2>. QED BY <2>1, <2>2, <2>3, <2>4 DEF Queue
  <1>5. CASE \E x, y \in Fills : m = <<x, y>> /\ x.side # y.side
    <2>1. PICK x \in Fills, y \in Fills : m = <<x, y>> /\ x.side # y.side
      BY <1>5
    <2>2. /\ DOMAIN m = {1, 2} /\ m[1] = x /\ m[2] = y
          /\ Head(m) = x /\ Tail(m) = <<y>>
      BY <2>1, <1>3
    <2>3. m # <<>> /\ \A z : m # <<z>>
      BY <2>1
    <2>4. \A z, u : m = <<z, u>> => z = x /\ u = y
      BY <2>1
    <2>5. ASSUME NEW t \in Fills, \A i \in DOMAIN m : m[i].side # t.side PROVE FALSE
      BY <1>0, <2>1, <2>2, <2>5
    <2>. QED BY <2>1, <2>2, <2>3, <2>4, <2>5 DEF Queue
  <1>. QED BY <1>1, <1>4, <1>5 DEF Queue

\* What a confirmed buy makes of the row.
LEMMA BoughtIs ==
  ASSUME Counted(row), NEW t \in Fills, t.side = "buy"
  PROVE  /\ Counted(Bought(t)) /\ t.quote \div t.tokens \in Nat
         /\ Bought(t).amount = row.amount + t.tokens /\ t.tokens \in Nat \ {0}
         /\ Bought(t).firstPrice = IF row.firstPrice = 0 THEN t.quote \div t.tokens ELSE row.firstPrice
         /\ Bought(t).lastPrice = t.quote \div t.tokens
         /\ Bought(t).buyCount = row.buyCount + 1
         /\ Bought(t).sellCount = IF c.resetSellCountOnBuy THEN 0 ELSE row.sellCount
  <1>1. t.quote \in Nat /\ t.tokens \in Nat \ {0}
    BY DEF Fills, Sent
  <1>. DEFINE paid == t.quote \div t.tokens
  <1>2. paid \in Nat
    BY <1>1, Quotient
  <1>. HIDE DEF paid
  <1>3. /\ DOMAIN Bought(t) = Columns /\ Bought(t).amount = row.amount + t.tokens
        /\ Bought(t).firstPrice = IF row.firstPrice = 0 THEN paid ELSE row.firstPrice
        /\ Bought(t).lastPrice = paid /\ Bought(t).buyCount = row.buyCount + 1
        /\ Bought(t).sellCount = IF c.resetSellCountOnBuy THEN 0 ELSE row.sellCount
        /\ Bought(t).profitLevel = IF c.profitResetOnBuy THEN 0 ELSE row.profitLevel
    BY DEF Bought, Counted, Columns, paid
  <1>4. row.amount + t.tokens \in Nat /\ row.buyCount + 1 \in Nat
    BY <1>1 DEF Counted
  <1>. QED BY <1>1, <1>2, <1>3, <1>4 DEF Counted, paid

\* What a confirmed sell makes of the row.
LEMMA SoldIs ==
  ASSUME Counted(row), NEW t \in Fills
  PROVE  /\ Counted(Sold(t)) /\ t.tokens \in Nat
         /\ Sold(t).amount = IF t.tokens < row.amount THEN row.amount - t.tokens ELSE 0
         /\ Sold(t).firstPrice = 0 /\ Sold(t).buyCount = 0
         /\ Sold(t).sellCount = row.sellCount + 1
  <1>1. t.tokens \in Nat
    BY DEF Fills, Sent
  <1>2. /\ DOMAIN Sold(t) = Columns /\ Sold(t).amount = row.amount - Cut(t, row.amount)
        /\ Sold(t).firstPrice = 0 /\ Sold(t).buyCount = 0
        /\ Sold(t).lastPrice = IF row.amount - Cut(t, row.amount) = 0 THEN 0 ELSE row.lastPrice
        /\ Sold(t).sellCount = row.sellCount + 1
        /\ Sold(t).profitLevel = IF t.reason = "profit_sell" THEN row.profitLevel + 1 ELSE row.profitLevel
    BY DEF Sold, Counted, Columns
  <1>3. row.amount - Cut(t, row.amount) = IF t.tokens < row.amount THEN row.amount - t.tokens ELSE 0
    BY <1>1 DEF Cut, Smaller, Counted
  <1>4. row.sellCount + 1 \in Nat /\ row.profitLevel + 1 \in Nat
        /\ (IF t.tokens < row.amount THEN row.amount - t.tokens ELSE 0) \in Nat
    BY <1>1 DEF Counted
  <1>. QED BY <1>1, <1>2, <1>3, <1>4 DEF Counted

\* The three ways to account a fill.
LEMMA FillIs ==
  ASSUME Fill
  PROVE  /\ mined # <<>> /\ mined' = Tail(mined)
         /\ UNCHANGED <<c, balance, sent, sync, touched>>
         /\ LET t == Head(mined) IN
            \/ t.side = "sell" /\ row.amount = 0 /\ UNCHANGED <<row, lossBuys>>
            \/ /\ t.side = "buy" /\ row' = Bought(t)
               /\ lossBuys' = IF row.firstPrice > row'.lastPrice THEN lossBuys + 1 ELSE lossBuys
            \/ t.side # "buy" /\ row.amount # 0 /\ row' = Sold(t) /\ lossBuys' = 0
            \/ t.side \notin {"buy", "sell"}
  BY DEF Fill

\* The synchronisation clears the row, leaves it, or writes a positive amount.
LEMMA SyncedCounted ==
  ASSUME Types PROVE Counted(Synced(ave))
  <1>. DEFINE r == [row EXCEPT !.amount = SyncedAmount(ave.balance),
              !.quote = IF row.amount > 0 THEN (@ * ave.balance) \div row.amount ELSE @,
              !.cost = IF ave.price = 0 THEN @ ELSE ave.price,
              !.average = IF ave.price = 0 THEN @ ELSE <<ave.price, 1>>]
  <1>1. ~(ave.balance < MinBalance) => ave.balance \in Nat
    BY LedgerAssumption DEF LedgerAssumption, Types
  <1>2. /\ DOMAIN r = DOMAIN row /\ (DOMAIN row = Columns => r.amount = ave.balance)
        /\ DOMAIN row = Columns =>
              /\ r.firstPrice = row.firstPrice /\ r.lastPrice = row.lastPrice
              /\ r.buyCount = row.buyCount /\ r.sellCount = row.sellCount
              /\ r.profitLevel = row.profitLevel
    BY DEF Columns, SyncedAmount
  <1>3. Synced(ave) = row \/ Synced(ave) = EmptyRow \/ (Synced(ave) = r /\ ~(ave.balance < MinBalance))
    BY DEF Synced
  <1>. HIDE DEF r
  <1>. QED BY <1>1, <1>2, <1>3, EmptyCounted DEF Types, Counted

LEMMA InitTypes == Init => Types /\ Apart
  <1>. SUFFICES ASSUME Init PROVE Types /\ Apart
    OBVIOUS
  <1>1. Typed(c)
    BY ParsedTyped DEF Init
  <1>2. Queue(mined) /\ ave.balance \in Int /\ touched \in BOOLEAN /\ sent = {}
    <2>1. mined = <<>> /\ ave = NoAnswer /\ touched = FALSE /\ sent = {}
      BY DEF Init
    <2>2. ave.balance \in Int
      BY <2>1 DEF NoAnswer
    <2>3. Queue(mined)
      BY <2>1 DEF Queue
    <2>4. touched \in BOOLEAN
      BY <2>1, Zenon
    <2>. QED BY <2>1, <2>2, <2>3, <2>4
  <1>. QED BY <1>1, <1>2, EmptyCounted DEF Init, Types, Apart

LEMMA TypesStep == ASSUME Types, Apart, [Next]_vars PROVE Types'
  <1>1. ASSUME NEW t \in Fills, Sends(t) PROVE Types'
    BY <1>1 DEF Sends, Types, sync, history
  <1>2. ASSUME Rests PROVE Types'
    BY <1>2 DEF Rests, Types, sync, history
  <1>3. ASSUME ClearRow PROVE Types'
    BY <1>3, EmptyCounted DEF ClearRow, Types, sync, chain
  <1>4. ASSUME NEW t \in sent, Mine(t) PROVE Types'
    <2>1. t \in Fills /\ t.tokens \in Nat /\ t.side \in {"buy", "sell"}
      BY DEF Types, Fills, Sent
    <2>2. \A i \in DOMAIN mined : mined[i].side # t.side
      BY DEF Apart
    <2>3. Queue(mined')
      BY <1>4, <2>1, <2>2, Queues DEF Mine, Types
    <2>4. balance' \in Nat /\ behind' \in Nat
      BY <1>4, <2>1 DEF Mine, Types
    <2>. QED BY <1>4, <2>3, <2>4 DEF Mine, Types, engine, history
  <1>5. ASSUME NEW t \in sent, Drop(t) PROVE Types'
    BY <1>5 DEF Drop, Types, engine, sync, history
  <1>6. ASSUME Fill PROVE Types'
    <2>1. Counted(row) /\ lossBuys \in Nat /\ Queue(mined) /\ mined # <<>>
      BY <1>6, FillIs DEF Types
    <2>2. Head(mined) \in Fills /\ Head(mined).side \in {"buy", "sell"} /\ Queue(mined')
      BY <2>1, <1>6, FillIs, Queues DEF Fills, Sent
    <2>3. Counted(row') /\ lossBuys' \in Nat
      BY <1>6, <2>1, <2>2, FillIs, BoughtIs, SoldIs
    <2>. QED BY <1>6, <2>2, <2>3, FillIs DEF Types, sync
  <1>7. ASSUME NEW lagging \in BOOLEAN, AveAnswers(lagging) PROVE Types'
    <2>1. ave'.balance \in Nat
      BY <1>7 DEF AveAnswers, Types
    <2>. QED BY <1>7, <2>1 DEF AveAnswers, Types, engine, chain, history
  <1>8. ASSUME AveWrites PROVE Types'
    <2>1. Counted(row') /\ ave'.balance \in Int
      BY <1>8, SyncedCounted DEF AveWrites, NoAnswer
    <2>2. touched' \in BOOLEAN /\ lossBuys' \in Nat
      BY <1>8 DEF AveWrites, Types
    <2>. QED BY <1>8, <2>1, <2>2 DEF AveWrites, Types, chain
  <1>. QED BY <1>1, <1>2, <1>3, <1>4, <1>5, <1>6, <1>7, <1>8, StepIs

\* The fills that are not accounted.
Items(m) == {m[i] : i \in DOMAIN m}
OnTheirWay == sent \cup Items(mined)

LEMMA ItemsOf ==
  ASSUME NEW m, Queue(m)
  PROVE  /\ Items(m) \subseteq Fills
         /\ \A t \in Fills : (\A o \in Items(m) : o.side # t.side) =>
               \A o \in Items(Append(m, t)) : o \in Items(m) \/ o = t
         /\ m # <<>> => /\ Head(m) \in Items(m)
                        /\ \A o \in Items(Tail(m)) : o \in Items(m) /\ o.side # Head(m).side
  <1>1. Items(m) \subseteq Fills
    BY Queues DEF Items
  <1>2. CASE m = <<>>
    <2>1. ASSUME NEW t \in Fills PROVE Items(Append(m, t)) = {t}
      <3>1. Append(m, t) = <<t>>
        BY <1>2, Queues DEF Items
      <3>. QED BY <3>1 DEF Items
    <2>. QED BY <1>1, <1>2, <2>1
  <1>3. ASSUME NEW x \in Fills, m = <<x>>
        PROVE  /\ Items(m) = {x} /\ Items(Tail(m)) = {} /\ Head(m) = x
               /\ \A t \in Fills : x.side # t.side => Items(Append(m, t)) = {x, t}
    <2>1. Items(m) = {x} /\ \A i \in DOMAIN m : m[i] = x
      BY <1>3 DEF Items
    <2>2. Head(m) = x /\ Tail(m) = <<>>
      <3>1. m # <<>>
        BY <1>3
      <3>. QED BY <1>3, <3>1, Queues
    <2>3. ASSUME NEW t \in Fills, x.side # t.side PROVE Items(Append(m, t)) = {x, t}
      <3>1. Append(m, t) = <<x, t>>
        BY <1>3, <2>1, <2>3, Queues
      <3>. QED BY <3>1 DEF Items
    <2>4. Items(<<>>) = {}
      BY DEF Items
    <2>. QED BY <2>1, <2>2, <2>3, <2>4
  <1>4. ASSUME NEW x \in Fills, NEW y \in Fills, m = <<x, y>>, x.side # y.side
        PROVE  /\ Items(m) = {x, y} /\ Items(Tail(m)) = {y} /\ Head(m) = x
    <2>1. Items(m) = {x, y}
      BY <1>4 DEF Items
    <2>2. Head(m) = x /\ Tail(m) = <<y>>
      <3>1. m # <<>>
        BY <1>4
      <3>. QED BY <1>4, <3>1, Queues
    <2>3. Items(<<y>>) = {y}
      BY DEF Items
    <2>. QED BY <2>1, <2>2, <2>3
  <1>5. CASE \E x \in Fills : m = <<x>>
    BY <1>1, <1>3, <1>5
  <1>6. CASE \E x, y \in Fills : m = <<x, y>> /\ x.side # y.side
    <2>1. \A t \in Fills : t.side \in {"buy", "sell"}
      BY DEF Fills, Sent
    <2>2. PICK x \in Fills, y \in Fills : m = <<x, y>> /\ x.side # y.side
      BY <1>6
    <2>3. Items(m) = {x, y} /\ Items(Tail(m)) = {y} /\ Head(m) = x
      BY <2>2, <1>4
    <2>4. ASSUME NEW t \in Fills, \A o \in Items(m) : o.side # t.side PROVE FALSE
      BY <2>1, <2>2, <2>3, <2>4
    <2>. QED BY <1>1, <2>2, <2>3, <2>4
  <1>. QED BY <1>2, <1>5, <1>6 DEF Queue

\* The trades on their way are those before, the one sent, and less the one accounted.
LEMMA OnTheirWayStep ==
  ASSUME Types, Apart, [Next]_vars
  PROVE  /\ Apart'
         /\ \A t \in Fills : Sends(t) => \A o \in OnTheirWay : o.side # t.side
         /\ ~(\E t \in Fills : Sends(t)) => OnTheirWay' \subseteq OnTheirWay
         /\ \A t \in Fills : Sends(t) => OnTheirWay' = OnTheirWay \cup {t}
         /\ Fill => /\ Head(mined) \in OnTheirWay
                    /\ \A o \in OnTheirWay' : o.side # Head(mined).side
  <1>0. Queue(mined) /\ \A o \in Items(mined) : \E i \in DOMAIN mined : o = mined[i]
    BY DEF Types, Items
  <1>. DEFINE Goal ==
         /\ Apart'
         /\ \A t \in Fills : Sends(t) => \A o \in OnTheirWay : o.side # t.side
         /\ ~(\E t \in Fills : Sends(t)) => OnTheirWay' \subseteq OnTheirWay
         /\ \A t \in Fills : Sends(t) => OnTheirWay' = OnTheirWay \cup {t}
         /\ Fill => /\ Head(mined) \in OnTheirWay
                    /\ \A o \in OnTheirWay' : o.side # Head(mined).side
  <1>1. ASSUME NEW t \in Fills, Sends(t)
        PROVE  /\ Apart' /\ OnTheirWay' = OnTheirWay \cup {t}
               /\ \A o \in OnTheirWay : o.side # t.side
    <2>1. \A o \in sent : o.side # t.side
      BY <1>1 DEF Sends, Pending
    <2>2. \A i \in DOMAIN mined : mined[i].side # t.side
      BY <1>1 DEF Sends, Pending
    <2>3. sent' = sent \cup {t} /\ mined' = mined
      BY <1>1 DEF Sends
    <2>. QED BY <1>0, <2>1, <2>2, <2>3 DEF Apart, OnTheirWay, Items
  <1>2. ASSUME UNCHANGED <<sent, mined>> PROVE Apart' /\ OnTheirWay' = OnTheirWay
    BY <1>2 DEF Apart, OnTheirWay, Items
  <1>3. ASSUME NEW t \in sent, Mine(t) PROVE Apart' /\ OnTheirWay' \subseteq OnTheirWay
    <2>1. sent' = sent \ {t} /\ mined' = Append(mined, t) /\ t \in Fills
      BY <1>3 DEF Mine, Types
    <2>2. \A o \in Items(mined) : o.side # t.side
      BY <1>0 DEF Apart
    <2>3. \A o \in Items(mined') : o \in Items(mined) \/ o = t
      BY <1>0, <2>1, <2>2, ItemsOf
    <2>4. ASSUME NEW o \in sent', NEW i \in DOMAIN mined' PROVE o.side # mined'[i].side
      <3>1. mined'[i] \in Items(mined) \/ mined'[i] = t
        BY <2>3 DEF Items
      <3>2. o \in sent /\ o # t
        BY <2>1
      <3>. QED BY <1>0, <3>1, <3>2 DEF Apart
    <2>. QED BY <2>1, <2>3, <2>4 DEF Apart, OnTheirWay
  <1>4. ASSUME NEW t \in sent, Drop(t) PROVE Apart' /\ OnTheirWay' \subseteq OnTheirWay
    BY <1>4 DEF Drop, Apart, OnTheirWay, Items
  <1>5. ASSUME Fill
        PROVE  /\ Apart' /\ OnTheirWay' \subseteq OnTheirWay /\ Head(mined) \in OnTheirWay
               /\ \A o \in OnTheirWay' : o.side # Head(mined).side
    <2>1. mined # <<>> /\ mined' = Tail(mined) /\ sent' = sent
      BY <1>5, FillIs
    <2>2. Head(mined) \in Items(mined)
          /\ \A o \in Items(mined') : o \in Items(mined) /\ o.side # Head(mined).side
      BY <1>0, <2>1, ItemsOf
    <2>3. ASSUME NEW o \in sent, NEW i \in DOMAIN mined' PROVE o.side # mined'[i].side
      <3>1. mined'[i] \in Items(mined)
        BY <2>2 DEF Items
      <3>. QED BY <1>0, <3>1 DEF Apart
    <2>4. \A o \in sent : o.side # Head(mined).side
      BY <1>0, <2>2 DEF Apart
    <2>. QED BY <2>1, <2>2, <2>3, <2>4 DEF Apart, OnTheirWay
  <1>6. (Rests \/ ClearRow \/ AveWrites \/ \E lagging \in BOOLEAN : AveAnswers(lagging)) => UNCHANGED <<sent, mined>>
    BY DEF Rests, ClearRow, AveWrites, AveAnswers, chain
  <1>7. Apart' /\ (~(\E t \in Fills : Sends(t)) => OnTheirWay' \subseteq OnTheirWay)
    BY <1>1, <1>2, <1>3, <1>4, <1>5, <1>6, StepIs
  <1>. QED BY <1>1, <1>5, <1>7

-----------------------------------------------------------------------------
(* The wallet holds what the row says and what is not accounted, as long   *)
(* as only fills wrote the row.                                            *)

\* Less what is bought and not accounted, and with what is sold and not
\* accounted, the wallet holds what the row says.
Covers(m, b, amount) ==
  /\ m = <<>> => b >= amount
  /\ \A x : m = <<x>> => IF x.side = "buy" THEN b >= amount + x.tokens ELSE b + x.tokens >= amount
  /\ \A x, y : m = <<x, y>> =>
        IF x.side = "buy" THEN b + y.tokens >= amount + x.tokens
                          ELSE b + x.tokens >= amount + y.tokens /\ b >= y.tokens

LEMMA CoversMined ==
  ASSUME NEW m, Queue(m), NEW b \in Nat, NEW amount \in Nat, Covers(m, b, amount),
         NEW t \in Fills, \A i \in DOMAIN m : m[i].side # t.side, t.side = "sell" => t.tokens <= b
  PROVE  Covers(Append(m, t), IF t.side = "buy" THEN b + t.tokens ELSE b - t.tokens, amount)
  <1>. DEFINE n == IF t.side = "buy" THEN b + t.tokens ELSE b - t.tokens
  <1>1. t.tokens \in Nat /\ t.side \in {"buy", "sell"}
    BY DEF Fills, Sent
  <1>2. CASE m = <<>>
    <2>1. Append(m, t) = <<t>>
      BY <1>2, Queues
    <2>2. b >= amount
      BY <1>2 DEF Covers
    <2>3. IF t.side = "buy" THEN n >= amount + t.tokens ELSE n + t.tokens >= amount
      BY <1>1, <2>2
    <2>. HIDE DEF n
    <2>. QED BY <2>1, <2>3 DEF Covers, n
  <1>3. CASE \E x \in Fills : m = <<x>>
    <2>1. PICK x \in Fills : m = <<x>>
      BY <1>3
    <2>2. Append(m, t) = <<x, t>> /\ m[1] = x /\ 1 \in DOMAIN m
      BY <2>1, Queues
    <2>3. x.side # t.side /\ x.tokens \in Nat /\ x.side \in {"buy", "sell"}
      BY <2>2 DEF Fills, Sent
    <2>4. IF x.side = "buy" THEN b >= amount + x.tokens ELSE b + x.tokens >= amount
      BY <2>1 DEF Covers
    <2>5. IF x.side = "buy" THEN n + t.tokens >= amount + x.tokens
                            ELSE n + x.tokens >= amount + t.tokens /\ n >= t.tokens
      BY <1>1, <2>3, <2>4
    <2>. HIDE DEF n
    <2>. QED BY <2>2, <2>5 DEF Covers, n
  <1>4. ASSUME NEW x \in Fills, NEW y \in Fills, m = <<x, y>> PROVE FALSE
    BY <1>4, Queues
  <1>. QED BY <1>2, <1>3, <1>4 DEF Queue

LEMMA CoversFilled ==
  ASSUME NEW m, Queue(m), m # <<>>, NEW b \in Nat, NEW amount \in Nat, Covers(m, b, amount)
  PROVE  LET t == Head(m)
         IN Covers(Tail(m), b, IF t.side = "buy" THEN amount + t.tokens
                               ELSE IF t.tokens < amount THEN amount - t.tokens ELSE 0)
  <1>. DEFINE t == Head(m)
              n == IF t.side = "buy" THEN amount + t.tokens
                   ELSE IF t.tokens < amount THEN amount - t.tokens ELSE 0
  <1>1. CASE \E x \in Fills : m = <<x>>
    <2>1. PICK x \in Fills : m = <<x>>
      BY <1>1
    <2>2. t = x /\ Tail(m) = <<>> /\ x.tokens \in Nat /\ x.side \in {"buy", "sell"}
      BY <2>1, Queues DEF Fills, Sent
    <2>3. IF x.side = "buy" THEN b >= amount + x.tokens ELSE b + x.tokens >= amount
      BY <2>1 DEF Covers
    <2>4. b >= n
      BY <2>2, <2>3
    <2>. HIDE DEF n, t
    <2>. QED BY <2>2, <2>4 DEF Covers, n, t
  <1>2. CASE \E x, y \in Fills : m = <<x, y>> /\ x.side # y.side
    <2>1. PICK x \in Fills, y \in Fills : m = <<x, y>> /\ x.side # y.side
      BY <1>2
    <2>2. t = x /\ Tail(m) = <<y>>
      BY <2>1, Queues
    <2>3. x.tokens \in Nat /\ x.side \in {"buy", "sell"} /\ y.tokens \in Nat /\ y.side \in {"buy", "sell"}
      BY DEF Fills, Sent
    <2>4. IF x.side = "buy" THEN b + y.tokens >= amount + x.tokens
                            ELSE b + x.tokens >= amount + y.tokens /\ b >= y.tokens
      BY <2>1 DEF Covers
    <2>5. IF y.side = "buy" THEN b >= n + y.tokens ELSE b + y.tokens >= n
      BY <2>1, <2>2, <2>3, <2>4
    <2>. HIDE DEF n, t
    <2>6. \A z, u : <<y>> # <<>> /\ (<<y>> = <<z>> => z = y) /\ <<y>> # <<z, u>>
      OBVIOUS
    <2>. DEFINE q == <<y>>
    <2>. HIDE DEF q
    <2>7. Covers(q, b, n)
      BY <2>5, <2>6 DEF Covers, q
    <2>. QED BY <2>2, <2>7 DEF n, t, q
  <1>. QED BY <1>1, <1>2 DEF Queue

\* Without a sell on its way the wallet holds all that the row says.
LEMMA CoversUnsold ==
  ASSUME Types, Covers(mined, balance, row.amount), ~Pending("sell")
  PROVE  balance >= row.amount
  <1>0. /\ Queue(mined) /\ balance \in Nat /\ row.amount \in Nat
        /\ \A t \in Fills : t.tokens \in Nat /\ t.side \in {"buy", "sell"}
    BY DEF Types, Counted, Fills, Sent
  <1>1. \A i \in DOMAIN mined : mined[i].side # "sell"
    BY DEF Pending
  <1>2. CASE \E x \in Fills : mined = <<x>>
    <2>1. PICK x \in Fills : mined = <<x>>
      BY <1>2
    <2>2. x.side = "buy" /\ x.tokens \in Nat
      <3>1. 1 \in DOMAIN mined /\ mined[1] = x
        BY <2>1
      <3>. QED BY <1>0, <1>1, <3>1
    <2>. QED BY <1>0, <2>1, <2>2 DEF Covers
  <1>3. ASSUME NEW x \in Fills, NEW y \in Fills, mined = <<x, y>>, x.side # y.side PROVE FALSE
    <2>1. 1 \in DOMAIN mined /\ 2 \in DOMAIN mined /\ mined[1] = x /\ mined[2] = y
      BY <1>3
    <2>. QED BY <1>0, <1>1, <1>3, <2>1
  <1>. QED BY <1>0, <1>2, <1>3 DEF Queue, Covers

-----------------------------------------------------------------------------
(* The limits of the configuration.                                        *)

\* The sell on its way that reaches the count sells all.
SellsAll ==
  c.fullSellAfterSellCount > 1 /\ c.resetSellCountOnBuy =>
     /\ row.sellCount >= c.fullSellAfterSellCount => row.amount = 0
     /\ \A t \in OnTheirWay :
           t.side = "sell" /\ row.sellCount + 1 >= c.fullSellAfterSellCount => t.tokens >= row.amount

\* The buy on its way that goes below the first price finds the limit not reached;
\* there is no more of them than buys after the first.
LossLimit ==
  /\ row.firstPrice > 0 => row.buyCount > 0 /\ row.amount > 0
  /\ lossBuys <= AtLeastZero(row.buyCount - 1)
  /\ lossBuys <= AtLeastZero(c.maxLossBuyTimes - 1)
  /\ \A t \in OnTheirWay : t.side = "buy" /\ t.quote \div t.tokens < row.firstPrice
                              => row.buyCount < c.maxLossBuyTimes

OnlyFills == Covers(mined, balance, row.amount) /\ SellsAll /\ LossLimit
LedgerInv == ~touched => OnlyFills

LEMMA InitLedger == Init => LedgerInv
  <1>. SUFFICES ASSUME Init PROVE OnlyFills
    BY DEF LedgerInv
  <1>1. Typed(c)
    BY ParsedTyped DEF Init
  <1>2. OnTheirWay = {} /\ Covers(mined, balance, row.amount)
    BY EmptyCounted DEF Init, OnTheirWay, Items, Covers
  <1>3. row = EmptyRow /\ lossBuys = 0
    BY DEF Init
  <1>4. SellsAll
    BY <1>1, <1>2, <1>3, EmptyCounted, NumbersTyped DEF SellsAll
  <1>5. LossLimit
    BY <1>1, <1>2, <1>3, EmptyCounted, NumbersTyped DEF LossLimit, AtLeastZero
  <1>. QED BY <1>2, <1>4, <1>5 DEF OnlyFills

\* What is sent keeps the limits, by what the decision asked.
LEMMA SendsLedger ==
  ASSUME Types, Apart, OnlyFills, [Next]_vars, NEW t \in Fills, Sends(t)
  PROVE  OnlyFills'
  <1>1. /\ UNCHANGED <<c, row, balance, mined, lossBuys>> /\ OnTheirWay' = OnTheirWay \cup {t}
        /\ ~Pending(t.side) /\ Allowed(t) /\ t.side \in {"buy", "sell"}
    BY OnTheirWayStep DEF Sends, history, Fills, Sent
  <1>2. /\ row.firstPrice \in Nat /\ row.buyCount \in Nat /\ row.sellCount \in Nat /\ row.amount \in Nat
        /\ c.maxLossBuyTimes \in Nat /\ c.fullSellAfterSellCount \in Nat /\ balance \in Nat
    BY NumbersTyped DEF Types, Counted
  <1>3. SellsAll'
    <2>1. t.side = "sell" /\ c.fullSellAfterSellCount > 1
             /\ row.sellCount + 1 >= c.fullSellAfterSellCount => t.tokens >= row.amount
      <3>1. SUFFICES ASSUME t.side = "sell", c.fullSellAfterSellCount > 1,
                            row.sellCount + 1 >= c.fullSellAfterSellCount
                     PROVE  t.tokens >= row.amount
        OBVIOUS
      <3>2. ForceFull(c, Position)
        BY <1>2, <3>1, PositionIs DEF ForceFull
      <3>3. t.tokens = balance
        BY <1>1, <3>1, <3>2 DEF Allowed
      <3>. QED BY <1>1, <3>1, <3>3, CoversUnsold DEF OnlyFills
    <2>. QED BY <1>1, <2>1 DEF OnlyFills, SellsAll
  <1>4. LossLimit'
    <2>1. ASSUME t.side = "buy", t.quote \div t.tokens < row.firstPrice
          PROVE  row.buyCount < c.maxLossBuyTimes
      <3>1. PICK price \in Nat \ {0} :
                /\ t.quote \div t.tokens >= price /\ ~TooManyLossBuys(c, Position, price)
                /\ t.quote \div t.tokens \in Nat
        BY <1>1, <2>1 DEF Allowed
      <3>2. price < row.firstPrice /\ row.firstPrice > 0
        BY <1>2, <2>1, <3>1
      <3>3. row.buyCount > 0 /\ row.amount > 0
        BY <3>2 DEF OnlyFills, LossLimit
      <3>. QED BY <1>2, <3>1, <3>2, <3>3, PositionIs DEF TooManyLossBuys
    <2>. QED BY <1>1, <2>1 DEF OnlyFills, LossLimit
  <1>. QED BY <1>1, <1>3, <1>4 DEF OnlyFills

\* A fill keeps the limits.
LEMMA FillLedger ==
  ASSUME Types, Apart, OnlyFills, [Next]_vars, Fill
  PROVE  OnlyFills'
  <1>. DEFINE t == Head(mined)
  <1>0. Counted(row) /\ lossBuys \in Nat /\ balance \in Nat /\ Queue(mined)
        /\ c.maxLossBuyTimes \in Nat /\ c.fullSellAfterSellCount \in Nat
    BY NumbersTyped DEF Types
  <1>1. /\ mined # <<>> /\ mined' = Tail(mined)
        /\ UNCHANGED <<c, balance>>
        /\ \/ t.side = "sell" /\ row.amount = 0 /\ UNCHANGED <<row, lossBuys>>
           \/ /\ t.side = "buy" /\ row' = Bought(t)
              /\ lossBuys' = IF row.firstPrice > row'.lastPrice THEN lossBuys + 1 ELSE lossBuys
           \/ t.side # "buy" /\ row.amount # 0 /\ row' = Sold(t) /\ lossBuys' = 0
           \/ t.side \notin {"buy", "sell"}
    BY FillIs
  <1>2. t \in Fills /\ t.side \in {"buy", "sell"} /\ t.tokens \in Nat
    BY <1>0, <1>1, Queues DEF Fills, Sent
  <1>3. /\ t \in OnTheirWay /\ OnTheirWay' \subseteq OnTheirWay
        /\ \A o \in OnTheirWay' : o.side # t.side
    <2>1. ASSUME NEW o \in Fills, Sends(o) PROVE FALSE
      <3>1. mined' = mined
        BY <2>1 DEF Sends
      <3>2. Head(mined) \in OnTheirWay' /\ \A u \in OnTheirWay' : u.side # Head(mined).side
        <4>1. mined' # <<>> /\ Queue(mined')
          BY <1>0, <1>1, <3>1
        <4>2. Head(mined') \in Items(mined')
          BY <4>1, ItemsOf
        <4>. QED BY <3>1, <4>2, OnTheirWayStep DEF OnTheirWay
      <3>. QED BY <3>2
    <2>. QED BY <2>1, OnTheirWayStep
  <1>4. Covers(mined', balance', IF t.side = "buy" THEN row.amount + t.tokens
                                 ELSE IF t.tokens < row.amount THEN row.amount - t.tokens ELSE 0)
    BY <1>0, <1>1, CoversFilled DEF OnlyFills, Counted
  <1>. HIDE DEF t
  <1>5. CASE t.side = "sell" /\ row.amount = 0 /\ UNCHANGED <<row, lossBuys>>
    <2>1. (IF t.side = "buy" THEN row.amount + t.tokens
           ELSE IF t.tokens < row.amount THEN row.amount - t.tokens ELSE 0) = row'.amount
      BY <1>2, <1>5
    <2>2. Covers(mined', balance', row'.amount)
      BY <1>4, <2>1
    <2>. QED BY <1>1, <1>3, <1>5, <2>2 DEF OnlyFills, SellsAll, LossLimit
  <1>6. CASE /\ t.side = "buy" /\ row' = Bought(t)
             /\ lossBuys' = IF row.firstPrice > row'.lastPrice THEN lossBuys + 1 ELSE lossBuys
    <2>. DEFINE paid == t.quote \div t.tokens
    <2>1. /\ paid \in Nat /\ t.tokens \in Nat \ {0} /\ Counted(row')
          /\ row'.amount = row.amount + t.tokens
          /\ row'.firstPrice = IF row.firstPrice = 0 THEN paid ELSE row.firstPrice
          /\ row'.lastPrice = paid /\ row'.buyCount = row.buyCount + 1
          /\ row'.sellCount = IF c.resetSellCountOnBuy THEN 0 ELSE row.sellCount
      BY <1>0, <1>2, <1>6, BoughtIs
    <2>2. Covers(mined', balance', row'.amount)
      BY <1>4, <1>6, <2>1
    <2>3. SellsAll'
      BY <1>0, <1>1, <2>1 DEF SellsAll
    <2>4. paid < row.firstPrice => row.buyCount < c.maxLossBuyTimes
      BY <1>3, <1>6 DEF OnlyFills, LossLimit
    <2>. HIDE DEF paid
    <2>5. row.firstPrice \in Nat /\ row.buyCount \in Nat /\ row.amount \in Nat
      BY <1>0 DEF Counted
    <2>6. /\ row.firstPrice > 0 => row.buyCount > 0 /\ row.amount > 0
          /\ lossBuys <= AtLeastZero(row.buyCount - 1)
          /\ lossBuys <= AtLeastZero(c.maxLossBuyTimes - 1)
      BY DEF OnlyFills, LossLimit
    <2>7. /\ lossBuys' <= AtLeastZero(row'.buyCount - 1)
          /\ lossBuys' <= AtLeastZero(c.maxLossBuyTimes - 1)
      BY <1>0, <1>6, <2>1, <2>4, <2>5, <2>6 DEF AtLeastZero
    <2>8. row'.buyCount > 0 /\ row'.amount > 0
      BY <2>1, <2>5
    <2>9. LossLimit'
      BY <1>1, <1>3, <1>6, <2>7, <2>8 DEF LossLimit
    <2>. QED BY <2>2, <2>3, <2>9 DEF OnlyFills
  <1>7. CASE t.side # "buy" /\ row.amount # 0 /\ row' = Sold(t) /\ lossBuys' = 0
    <2>1. /\ Counted(row')
          /\ row'.amount = IF t.tokens < row.amount THEN row.amount - t.tokens ELSE 0
          /\ row'.firstPrice = 0 /\ row'.buyCount = 0 /\ row'.sellCount = row.sellCount + 1
      BY <1>0, <1>2, <1>7, SoldIs
    <2>2. Covers(mined', balance', row'.amount)
      BY <1>4, <1>7, <2>1
    <2>3. row.amount \in Nat /\ row.sellCount \in Nat
      BY <1>0 DEF Counted
    <2>4. SellsAll'
      <3>1. t.side = "sell" /\ \A o \in OnTheirWay' : o.side # "sell"
        BY <1>2, <1>3, <1>7
      <3>2. SUFFICES ASSUME c.fullSellAfterSellCount > 1, c.resetSellCountOnBuy,
                            row.sellCount + 1 >= c.fullSellAfterSellCount
                     PROVE  row'.amount = 0
        BY <1>1, <2>1, <3>1 DEF SellsAll
      <3>3. t.tokens >= row.amount
        BY <1>3, <3>1, <3>2 DEF OnlyFills, SellsAll
      <3>. QED BY <1>2, <2>1, <2>3, <3>3
    <2>5. \A o \in OnTheirWay' : ~(o.side = "buy" /\ o.quote \div o.tokens < 0)
      <3>1. SUFFICES ASSUME NEW o \in OnTheirWay', o.side = "buy" PROVE ~(o.quote \div o.tokens < 0)
        OBVIOUS
      <3>2. o \in Fills
        BY <1>0, <1>3, ItemsOf DEF OnTheirWay, Types
      <3>3. o.quote \div o.tokens \in Nat
        BY <3>1, <3>2, Quotient DEF Fills, Sent
      <3>. QED BY <3>3
    <2>6. LossLimit'
      BY <1>0, <1>1, <1>7, <2>1, <2>5 DEF LossLimit, AtLeastZero
    <2>. QED BY <2>2, <2>4, <2>6 DEF OnlyFills
  <1>. QED BY <1>1, <1>2, <1>5, <1>6, <1>7

\* Every step keeps them; one that writes the row otherwise is marked.
LEMMA LedgerStep ==
  ASSUME Types, Apart, LedgerInv, [Next]_vars
  PROVE  LedgerInv'
  <1>1. SUFFICES ASSUME ~touched' PROVE OnlyFills'
    BY DEF LedgerInv
  <1>2. ~touched => OnlyFills
    BY DEF LedgerInv
  <1>3. ASSUME NEW t \in Fills, Sends(t) PROVE OnlyFills'
    BY <1>1, <1>2, <1>3, SendsLedger DEF Sends, history
  <1>4. ASSUME UNCHANGED <<c, row, balance, mined, lossBuys>>, OnlyFills, ~(\E t \in Fills : Sends(t))
        PROVE  OnlyFills'
    <2>1. OnTheirWay' \subseteq OnTheirWay
      BY <1>4, OnTheirWayStep
    <2>. QED BY <1>4, <2>1 DEF OnlyFills, SellsAll, LossLimit
  <1>5. ASSUME Rests \/ \E lagging \in BOOLEAN : AveAnswers(lagging)
        PROVE  UNCHANGED <<c, row, balance, mined, lossBuys>> /\ OnlyFills
    BY <1>1, <1>2, <1>5 DEF Rests, AveAnswers, engine, chain, history
  <1>6. ASSUME NEW t \in sent, Drop(t)
        PROVE  UNCHANGED <<c, row, balance, mined, lossBuys>> /\ OnlyFills
    BY <1>1, <1>2, <1>6 DEF Drop, engine, history
  <1>7. ASSUME ClearRow PROVE FALSE
    BY <1>1, <1>7 DEF ClearRow
  <1>8. ASSUME Fill PROVE OnlyFills'
    BY <1>1, <1>2, <1>8, FillLedger, FillIs
  <1>9. ASSUME AveWrites
        PROVE  UNCHANGED <<c, row, balance, mined, lossBuys>> /\ OnlyFills
    <2>1. /\ UNCHANGED <<c, row, balance, mined>> /\ OnlyFills
          /\ lossBuys' = IF row' = EmptyRow THEN 0 ELSE lossBuys
      BY <1>1, <1>2, <1>9 DEF AveWrites, chain
    <2>2. row = EmptyRow => lossBuys = 0
      BY <2>1, EmptyCounted DEF OnlyFills, LossLimit, AtLeastZero, Types
    <2>. QED BY <2>1, <2>2
  <1>10. ASSUME NEW t \in sent, Mine(t), ~(\E o \in Fills : Sends(o)) PROVE OnlyFills'
    <2>1. /\ OnlyFills /\ UNCHANGED <<c, row, lossBuys>> /\ mined' = Append(mined, t)
          /\ t.side = "sell" => t.tokens <= balance
          /\ balance' = IF t.side = "buy" THEN balance + t.tokens ELSE balance - t.tokens
      BY <1>1, <1>2, <1>10 DEF Mine, engine, history
    <2>2. t \in Fills /\ \A i \in DOMAIN mined : mined[i].side # t.side
      BY DEF Types, Apart
    <2>3. Covers(mined', balance', row.amount)
      BY <2>1, <2>2, CoversMined DEF OnlyFills, Types, Counted
    <2>4. OnTheirWay' \subseteq OnTheirWay
      BY <1>10, OnTheirWayStep
    <2>. QED BY <2>1, <2>3, <2>4 DEF OnlyFills, SellsAll, LossLimit
  <1>11. SUFFICES ASSUME ~(\E t \in Fills : Sends(t)) PROVE OnlyFills'
    BY <1>3
  <1>12. CASE Rests \/ (\E lagging \in BOOLEAN : AveAnswers(lagging)) \/ AveWrites
    BY <1>4, <1>5, <1>9, <1>11, <1>12
  <1>13. CASE \E t \in sent : Mine(t) \/ Drop(t)
    BY <1>4, <1>6, <1>10, <1>11, <1>13
  <1>. QED BY <1>7, <1>8, <1>11, <1>12, <1>13, StepIs

-----------------------------------------------------------------------------
Inv == Types /\ Apart /\ LedgerInv

LEMMA InvInductive == (Init => Inv) /\ (Inv /\ [Next]_vars => Inv')
  <1>1. Init => Inv
    BY InitTypes, InitLedger DEF Inv
  <1>2. ASSUME Inv, [Next]_vars PROVE Inv'
    BY <1>2, TypesStep, OnTheirWayStep, LedgerStep DEF Inv
  <1>. QED BY <1>1, <1>2

\* Whatever the rules and prices, and in whatever order the chain takes the trades:
\* the sell that reaches fullSellAfterSellCount leaves nothing (evaluate and
\* checkScheduled sell what the wallet holds, applyOwnFill counts).
THEOREM NthSellEmptiesAlways == Spec => []NthSellEmpties
  <1>1. Inv => NthSellEmpties
    BY NumbersTyped DEF Inv, LedgerInv, OnlyFills, SellsAll, NthSellEmpties
  <1>. QED BY <1>1, InvInductive, PTL DEF Spec

\* Whatever the rules and prices: no more buys below the first price than
\* maxLossBuyTimes allows are accounted between two sells.
THEOREM LossBuysAlwaysBounded == Spec => []LossBuysBounded
  <1>1. Inv => LossBuysBounded
    BY DEF Inv, LedgerInv, OnlyFills, LossLimit, LossBuysBounded
  <1>. QED BY <1>1, InvInductive, PTL DEF Spec

\* While only fills wrote the row, the wallet holds what it says once every fill is
\* accounted: no order of fills counts tokens that are not there.
THEOREM RowIsHeld == Spec => [](~touched /\ mined = <<>> => balance >= row.amount)
  <1>1. Inv => (~touched /\ mined = <<>> => balance >= row.amount)
    BY DEF Inv, LedgerInv, OnlyFills, Covers
  <1>. QED BY <1>1, InvInductive, PTL DEF Spec

-----------------------------------------------------------------------------
(* The rounding of a division, and products that are compared.             *)

LEMMA TimesMono ==
  ASSUME NEW a \in Nat, NEW b \in Nat, NEW k \in Nat, a <= b
  PROVE  a * k <= b * k
  <1>1. PICK d \in Nat : b = a + d
    <2>1. b - a \in Nat /\ b = a + (b - a)
      OBVIOUS
    <2>. QED BY <2>1
  <1>2. b * k = a * k + d * k /\ a * k \in Nat /\ d * k \in Nat
    BY <1>1
  <1>. QED BY <1>2

LEMMA TimesCancel ==
  ASSUME NEW a \in Nat, NEW b \in Nat, NEW k \in Nat \ {0}, a * k <= b * k
  PROVE  a <= b
  <1>1. SUFFICES ASSUME b + 1 <= a PROVE FALSE
    OBVIOUS
  <1>2. (b + 1) * k <= a * k
    BY <1>1, TimesMono
  <1>3. (b + 1) * k = b * k + k /\ b * k \in Nat /\ a * k \in Nat
    OBVIOUS
  <1>. QED BY <1>2, <1>3

\* Of a total, what some of the tokens take along is no more than there is, all of
\* it when they are all, and exact but for less than one.
LEMMA Shares ==
  ASSUME NEW q \in Nat, NEW k \in Nat, NEW t \in Nat \ {0}, k <= t
  PROVE  /\ Allocated(q, k, t) \in Nat /\ Allocated(q, k, t) <= q
         /\ k = t => Allocated(q, k, t) = q
         /\ Allocated(q, k, t) * t <= q * k
         /\ q * k <= Allocated(q, k, t) * t + t
  <1>. DEFINE d == (q * k) \div t
              p == q * k
  <1>1. p \in Nat
    OBVIOUS
  <1>2. \A x \in Nat : x \div t \in Nat /\ (x \div t) * t <= x /\ x <= (x \div t) * t + t
    OBVIOUS
  <1>3. d \in Nat /\ d * t <= p /\ p <= d * t + t
    <2>. HIDE DEF p
    <2>. QED BY <1>1, <1>2 DEF p
  <1>4. p <= q * t
    <2>1. k * q <= t * q
      BY TimesMono
    <2>2. k * q = p /\ t * q = q * t
      OBVIOUS
    <2>. QED BY <2>1, <2>2
  <1>5. Allocated(q, k, t) = d
    BY DEF Allocated
  <1>6. k = t => d = q
    <2>1. \A x \in Nat : (x * t) \div t = x
      OBVIOUS
    <2>. QED BY <2>1
  <1>7. d <= q
    <2>. HIDE DEF d
    <2>1. d * t \in Nat /\ q * t \in Nat /\ d * t <= q * t
      <3>1. d * t \in Nat /\ q * t \in Nat
        BY <1>3
      <3>. HIDE DEF p
      <3>2. \A x, y, z \in Nat : x <= y /\ y <= z => x <= z
        OBVIOUS
      <3>. QED BY <1>1, <1>3, <1>4, <3>1, <3>2
    <2>. QED BY <1>3, <2>1, TimesCancel
  <1>. QED BY <1>3, <1>5, <1>6, <1>7

-----------------------------------------------------------------------------
(* What Replay computes.  It is a fold: a recursive function of the        *)
(* positions of the records.                                               *)

Record == {r \in [side : {"buy", "sell"}, tokens : Nat, quote : Nat] :
              r.side = "buy" => r.tokens > 0}
Books == [tokens : Nat, quote : Nat]
NoBook == [tokens |-> 0, quote |-> 0]
\* What a record makes of the tokens held and the dollars spent on them.
Booked(acc, r) ==
  IF r.side = "buy" THEN [tokens |-> acc.tokens + r.tokens, quote |-> acc.quote + r.quote]
  ELSE IF acc.tokens = 0 THEN acc
  ELSE [tokens |-> acc.tokens - Cut(r, acc.tokens),
        quote |-> acc.quote - Allocated(acc.quote, Cut(r, acc.tokens), acc.tokens)]
NextBook == [p \in Books \X Record |-> Booked(p[1], p[2])]

LEMMA BookedTyped == ASSUME NEW acc \in Books, NEW r \in Record PROVE Booked(acc, r) \in Books
  <1>1. acc.tokens \in Nat /\ acc.quote \in Nat /\ r.tokens \in Nat /\ r.quote \in Nat
    BY DEF Books, Record
  <1>2. CASE r.side = "buy"
    BY <1>1, <1>2 DEF Booked, Books
  <1>3. CASE r.side # "buy" /\ acc.tokens = 0
    BY <1>3 DEF Booked
  <1>4. CASE r.side # "buy" /\ acc.tokens # 0
    <2>. DEFINE k == Cut(r, acc.tokens)
    <2>1. k \in Nat /\ k <= acc.tokens
      BY <1>1 DEF Cut, Smaller
    <2>. HIDE DEF k
    <2>. DEFINE a == Allocated(acc.quote, k, acc.tokens)
    <2>2. a \in Nat /\ a <= acc.quote
      BY <1>1, <1>4, <2>1, Shares
    <2>. HIDE DEF a
    <2>3. acc.tokens - k \in Nat /\ acc.quote - a \in Nat
      BY <1>1, <2>1, <2>2
    <2>4. Booked(acc, r) = [tokens |-> acc.tokens - k, quote |-> acc.quote - a]
      BY <1>4 DEF Booked, k, a
    <2>. QED BY <2>3, <2>4 DEF Books
  <1>. QED BY <1>2, <1>3, <1>4

LEMMA NextBookIs ==
  /\ NextBook \in [Books \X Record -> Books] /\ NoBook \in Books
  /\ \A acc \in Books, r \in Record : NextBook[<<acc, r>>] = Booked(acc, r)
  <1>1. ASSUME NEW p \in Books \X Record PROVE Booked(p[1], p[2]) \in Books
    BY BookedTyped
  <1>. QED BY <1>1 DEF NextBook, NoBook, Books

\* The replay of some records is that of the function that goes along them.
LEMMA ReplayAlong ==
  ASSUME NEW rs \in Seq(Record),
         NEW g, Along(g, rs, Len(rs), Books, NoBook, NextBook)
  PROVE  Replay(rs) = g[1 .. Len(rs)]
  <1>. DEFINE S == 1 .. Len(rs)
              Value(i, s) == IF s = {} THEN NoBook ELSE Booked(i[s \ {Max(s)}], rs[Max(s)])
              Is(i) == i = [s \in SUBSET S |-> Value(i, s)]
              iter == CHOOSE i : Is(i)
  <1>0. DOMAIN rs = S /\ Len(rs) \in Nat /\ \A i \in S : rs[i] \in Record
    OBVIOUS
  <1>1. Replay(rs) = iter[S]
    BY <1>0 DEF Replay, FoldLeft, MapThenFoldSet, Booked, NoBook
  <1>2. \A s \in SUBSET S : s # {} => Max(s) \in s /\ Max(s) \in S /\ s \ {Max(s)} \in SUBSET S
    BY <1>0, LastOf
  <1>3. \A s \in SUBSET S : g[s] = Value(g, s) /\ g[s] \in Books
    BY <1>0, <1>2, NextBookIs DEF Along
  <1>4. Is(g)
    BY <1>3 DEF Along
  <1>5. Is(iter)
    <2>. HIDE DEF Is
    <2>. QED BY <1>4
  <1>6. \A s \in SUBSET S : iter[s] = Value(iter, s)
    <2>. HIDE DEF iter, Value
    <2>. QED BY <1>5
  <1>. DEFINE G == {s \in SUBSET S : iter[s] = g[s]}
  <1>. HIDE DEF iter
  <1>7. {} \in G
    BY <1>3, <1>6
  <1>8. ASSUME NEW s \in SUBSET S, s # {}, \A x \in s : s \ {x} \in G PROVE s \in G
    BY <1>2, <1>3, <1>6, <1>8
  <1>9. \A s \in SUBSET S : s \in G
    <2>1. IsFiniteSet(S)
      BY <1>0, FS_Interval
    <2>. HIDE DEF G
    <2>. QED BY <1>7, <1>8, <2>1, SubsetInduction
  <1>. QED BY <1>1, <1>9

LEMMA ReplayFolds ==
  ASSUME NEW rs \in Seq(Record)
  PROVE  FoldsTo(Replay(rs), rs, Len(rs), Books, NoBook, NextBook) /\ Replay(rs) \in Books
  <1>1. Len(rs) \in Nat /\ rs \in [1 .. Len(rs) -> Record]
    OBVIOUS
  <1>2. PICK g : Along(g, rs, Len(rs), Books, NoBook, NextBook)
    BY <1>1, NextBookIs, AlongExists
  <1>3. Replay(rs) = g[1 .. Len(rs)]
    BY <1>2, ReplayAlong
  <1>. QED BY <1>2, <1>3 DEF FoldsTo, Along

\* reconstructQuoteSpent goes through the records in their order: nothing without
\* records, and one record more makes of the replay what the record makes of it.
LEMMA ReplayIs ==
  /\ Replay(<<>>) = NoBook
  /\ \A rs \in Seq(Record) : Replay(rs) \in Books
  /\ \A rs \in Seq(Record), r \in Record : Replay(Append(rs, r)) = Booked(Replay(rs), r)
  <1>1. Replay(<<>>) = NoBook
    <2>1. <<>> \in Seq(Record) /\ Len(<<>>) = 0 /\ 1 .. 0 = {}
      OBVIOUS
    <2>2. FoldsTo(Replay(<<>>), <<>>, 0, Books, NoBook, NextBook)
      BY <2>1, ReplayFolds
    <2>. QED BY <2>1, <2>2 DEF FoldsTo, Along
  <1>2. ASSUME NEW rs \in Seq(Record), NEW r \in Record
        PROVE  Replay(Append(rs, r)) = Booked(Replay(rs), r)
    <2>. DEFINE us == Append(rs, r)
                n == Len(rs)
                m == Len(us)
    <2>1. /\ us \in Seq(Record) /\ m = n + 1 /\ n \in Nat
          /\ us[m] = r /\ SameUpTo(n, rs, us)
      BY AppendProperties DEF SameUpTo
    <2>2. FoldsTo(Replay(rs), rs, n, Books, NoBook, NextBook) /\ Replay(rs) \in Books
      BY ReplayFolds
    <2>3. FoldsTo(Replay(us), us, m, Books, NoBook, NextBook)
      BY <2>1, ReplayFolds
    <2>. HIDE DEF us, n, m
    <2>4. Replay(us) = NextBook[<<Replay(rs), us[m]>>]
      BY <2>1, <2>2, <2>3, FoldsAppend
    <2>. QED BY <2>1, <2>2, <2>4, NextBookIs DEF us
  <1>. QED BY <1>1, <1>2, ReplayFolds

-----------------------------------------------------------------------------
(* The average cost lies between what buys paid.                           *)

BuysOf(rs) == {i \in DOMAIN rs : rs[i].side = "buy"}
SellsOf(rs) == Cardinality(DOMAIN rs \ BuysOf(rs))
\* Dollars over tokens, multiplied out.
PaidLess(q, k, cost, amount) == q * amount <= cost * k
PaidMore(q, k, cost, amount, sells) == cost * k <= (q * amount) + (sells * k)
Between(rs, cost, amount) ==
  amount > 0 => /\ \E i \in BuysOf(rs) : PaidLess(rs[i].quote, rs[i].tokens, cost, amount)
                /\ \E i \in BuysOf(rs) : PaidMore(rs[i].quote, rs[i].tokens, cost, amount, SellsOf(rs))

LEMMA WithinIs == \A cost, amount : Within(cost, amount) <=> Between(records, cost, amount)
  BY DEF Within, Between, BuysOf, SellsOf, PaidLess, PaidMore

\* One record more.
LEMMA OneMore ==
  ASSUME NEW rs \in Seq(Record), NEW r \in Record
  PROVE  LET us == Append(rs, r) IN
         /\ us \in Seq(Record) /\ SellsOf(rs) \in Nat
         /\ \A i \in BuysOf(rs) : i \in BuysOf(us) /\ us[i] = rs[i] /\ rs[i] \in Record /\ rs[i].side = "buy"
         /\ r.side = "buy" => SellsOf(us) = SellsOf(rs) /\ \E i \in BuysOf(us) : us[i] = r
         /\ r.side # "buy" => SellsOf(us) = SellsOf(rs) + 1
  <1>. DEFINE us == Append(rs, r)
              n == Len(rs)
              T(x) == DOMAIN x \ BuysOf(x)
  <1>1. /\ us \in Seq(Record) /\ Len(us) = n + 1 /\ n \in Nat
        /\ us[n + 1] = r /\ \A i \in 1 .. n : us[i] = rs[i]
    BY AppendProperties
  <1>2. DOMAIN rs = 1 .. n /\ DOMAIN us = 1 .. n + 1
    <2>. HIDE DEF us
    <2>. QED BY <1>1
  <1>3. \A i : i \in 1 .. n + 1 <=> i \in 1 .. n \/ i = n + 1
    BY <1>1
  <1>4. n + 1 \notin 1 .. n
    BY <1>1
  <1>. HIDE DEF us, n
  <1>5. IsFiniteSet(T(rs)) /\ n + 1 \notin T(rs)
    <2>1. n \in Int /\ 1 \in Int
      BY <1>1
    <2>2. IsFiniteSet(1 .. n)
      BY <2>1, FS_Interval
    <2>3. T(rs) \subseteq 1 .. n
      BY <1>2, Zenon
    <2>. HIDE DEF T
    <2>. QED BY <1>4, <2>2, <2>3, FS_Subset
  <1>6. \A i \in BuysOf(rs) : i \in BuysOf(us) /\ us[i] = rs[i] /\ rs[i] \in Record /\ rs[i].side = "buy"
    <2>1. \A i \in DOMAIN rs : rs[i] \in Record
      OBVIOUS
    <2>. QED BY <1>1, <1>2, <1>3, <2>1 DEF BuysOf
  <1>7. r.side = "buy" => T(us) = T(rs) /\ n + 1 \in BuysOf(us)
    BY <1>1, <1>2, <1>3, <1>4 DEF BuysOf
  <1>8. r.side # "buy" => T(us) = T(rs) \cup {n + 1}
    BY <1>1, <1>2, <1>3, <1>4 DEF BuysOf
  <1>9. SellsOf(rs) = Cardinality(T(rs)) /\ SellsOf(us) = Cardinality(T(us))
    BY DEF SellsOf
  <1>10. Cardinality(T(rs)) \in Nat
    BY <1>5, FS_CardinalityType
  <1>11. Cardinality(T(rs) \cup {n + 1}) = Cardinality(T(rs)) + 1
    <2>. HIDE DEF T
    <2>. QED BY <1>5, FS_AddElement
  <1>. HIDE DEF T
  <1>12. r.side = "buy" => SellsOf(us) = SellsOf(rs) /\ \E i \in BuysOf(us) : us[i] = r
    BY <1>1, <1>7, <1>9
  <1>13. r.side # "buy" => SellsOf(us) = SellsOf(rs) + 1
    BY <1>8, <1>9, <1>11
  <1>14. us \in Seq(Record) /\ SellsOf(rs) \in Nat
    BY <1>1, <1>9, <1>10
  <1>. QED BY <1>6, <1>12, <1>13, <1>14 DEF us

\* A buy pays more or less than the least there was, for each of its tokens: one of
\* the two is the least of the sum.
LEMMA LeastOfBoth ==
  ASSUME NEW q \in Nat, NEW k \in Nat \ {0}, NEW cost \in Nat, NEW amount \in Nat,
         PaidLess(q, k, cost, amount), NEW r \in Nat, NEW l \in Nat \ {0}
  PROVE  PaidLess(q, k, cost + r, amount + l) \/ PaidLess(r, l, cost + r, amount + l)
  <1>1. q * (amount + l) = q * amount + q * l /\ (cost + r) * k = cost * k + r * k
    OBVIOUS
  <1>2. r * (amount + l) = r * amount + r * l /\ (cost + r) * l = cost * l + r * l
    OBVIOUS
  <1>3. /\ q * amount \in Nat /\ q * l \in Nat /\ cost * k \in Nat /\ r * k \in Nat
        /\ r * amount \in Nat /\ r * l \in Nat /\ cost * l \in Nat
    OBVIOUS
  <1>. DEFINE qa == q * amount
              ql == q * l
              ck == cost * k
              rk == r * k
              ra == r * amount
              rl == r * l
              cl == cost * l
  <1>4. qa <= ck
    BY DEF PaidLess
  <1>5. rk <= ql => ra <= cl
    <2>1. SUFFICES ASSUME rk <= ql PROVE ra <= cl
      OBVIOUS
    <2>2. rk * amount <= ql * amount
      BY <1>3, <2>1, TimesMono
    <2>3. qa * l <= ck * l
      BY <1>3, <1>4, TimesMono
    <2>4. rk * amount = ra * k /\ ql * amount = qa * l /\ ck * l = cl * k
      OBVIOUS
    <2>5. ra * k \in Nat /\ qa * l \in Nat /\ cl * k \in Nat
      BY <1>3
    <2>. HIDE DEF qa, ql, ck, rk, ra, cl
    <2>6. ra * k <= cl * k
      BY <2>2, <2>3, <2>4, <2>5
    <2>. QED BY <1>3, <2>6, TimesCancel DEF ra, cl
  <1>6. CASE ql <= rk
    <2>. HIDE DEF qa, ql, ck, rk
    <2>1. qa + ql <= ck + rk
      BY <1>3, <1>4, <1>6 DEF qa, ql, ck, rk
    <2>. QED BY <1>1, <2>1 DEF PaidLess, qa, ql, ck, rk
  <1>7. CASE rk <= ql
    <2>1. ra <= cl
      BY <1>5, <1>7
    <2>. HIDE DEF ra, rl, cl
    <2>2. ra + rl <= cl + rl
      BY <1>3, <2>1 DEF ra, rl, cl
    <2>. QED BY <1>2, <2>2 DEF PaidLess, ra, rl, cl
  <1>8. rk \in Nat /\ ql \in Nat
    BY <1>3
  <1>. HIDE DEF rk, ql
  <1>. QED BY <1>6, <1>7, <1>8

LEMMA MostOfBoth ==
  ASSUME NEW q \in Nat, NEW k \in Nat \ {0}, NEW cost \in Nat, NEW amount \in Nat, NEW sells \in Nat,
         PaidMore(q, k, cost, amount, sells), NEW r \in Nat, NEW l \in Nat \ {0}
  PROVE  PaidMore(q, k, cost + r, amount + l, sells) \/ PaidMore(r, l, cost + r, amount + l, sells)
  <1>1. q * (amount + l) = q * amount + q * l /\ (cost + r) * k = cost * k + r * k
    OBVIOUS
  <1>2. r * (amount + l) = r * amount + r * l /\ (cost + r) * l = cost * l + r * l
    OBVIOUS
  <1>3. /\ q * amount \in Nat /\ q * l \in Nat /\ cost * k \in Nat /\ r * k \in Nat
        /\ r * amount \in Nat /\ r * l \in Nat /\ cost * l \in Nat
        /\ sells * k \in Nat /\ sells * l \in Nat
    OBVIOUS
  <1>. DEFINE qa == q * amount
              ql == q * l
              ck == cost * k
              rk == r * k
              ra == r * amount
              rl == r * l
              cl == cost * l
              sk == sells * k
              sl == sells * l
  <1>4. ck <= qa + sk
    BY DEF PaidMore
  <1>5. ql <= rk => cl <= ra + sl
    <2>1. SUFFICES ASSUME ql <= rk PROVE cl <= ra + sl
      OBVIOUS
    <2>2. ql * amount <= rk * amount
      BY <1>3, <2>1, TimesMono
    <2>3. ck * l <= (qa + sk) * l
      <3>. HIDE DEF qa, ck, sk
      <3>1. qa + sk \in Nat /\ ck \in Nat
        BY <1>3 DEF qa, ck, sk
      <3>. QED BY <3>1, <1>4, TimesMono
    <2>4. /\ ql * amount = qa * l /\ rk * amount = ra * k /\ ck * l = cl * k
          /\ (qa + sk) * l = qa * l + sl * k
      OBVIOUS
    <2>5. ra * k \in Nat /\ qa * l \in Nat /\ cl * k \in Nat /\ sl * k \in Nat
      BY <1>3
    <2>6. (ra + sl) * k = ra * k + sl * k
      OBVIOUS
    <2>. HIDE DEF qa, ql, ck, rk, ra, cl, sk, sl
    <2>7. cl * k <= (ra + sl) * k
      BY <2>2, <2>3, <2>4, <2>5, <2>6
    <2>8. ra + sl \in Nat /\ cl \in Nat
      BY <1>3 DEF ra, sl, cl
    <2>. QED BY <2>7, <2>8, TimesCancel
  <1>6. CASE rk <= ql
    <2>. HIDE DEF qa, ql, ck, rk, sk
    <2>1. ck + rk <= qa + ql + sk
      BY <1>3, <1>4, <1>6 DEF qa, ql, ck, rk, sk
    <2>. QED BY <1>1, <2>1 DEF PaidMore, qa, ql, ck, rk, sk
  <1>7. CASE ql <= rk
    <2>1. cl <= ra + sl
      BY <1>5, <1>7
    <2>. HIDE DEF ra, rl, cl, sl
    <2>2. cl + rl <= ra + rl + sl
      BY <1>3, <2>1 DEF ra, rl, cl, sl
    <2>. QED BY <1>2, <2>2 DEF PaidMore, ra, rl, cl, sl
  <1>8. rk \in Nat /\ ql \in Nat
    BY <1>3
  <1>. HIDE DEF rk, ql
  <1>. QED BY <1>6, <1>7, <1>8

\* A sell leaves the average cost where it was, but for less than one dollar.
LEMMA LeastOfRest ==
  ASSUME NEW q \in Nat, NEW k \in Nat \ {0}, NEW cost \in Nat, NEW t \in Nat \ {0},
         PaidLess(q, k, cost, t), NEW x \in Nat, x < t
  PROVE  PaidLess(q, k, cost - Allocated(cost, x, t), t - x)
  <1>. DEFINE a == Allocated(cost, x, t)
  <1>1. a \in Nat /\ a <= cost /\ a * t <= cost * x
    BY x <= t, Shares
  <1>. HIDE DEF a
  <1>2. PICK d \in Nat : d = cost - a
    BY <1>1
  <1>3. PICK u \in Nat : u = t - x
    OBVIOUS
  <1>4. cost = d + a /\ t = u + x
    BY <1>1, <1>2, <1>3
  <1>5. cost * u <= d * t
    <2>1. cost * t = d * t + a * t /\ cost * t = cost * u + cost * x
      BY <1>1, <1>4
    <2>2. d * t \in Nat /\ a * t \in Nat /\ cost * u \in Nat /\ cost * x \in Nat
      BY <1>1
    <2>3. \A e, f, g, h \in Nat : f <= h /\ e + f = g + h => g <= e
      OBVIOUS
    <2>. QED BY <1>1, <2>1, <2>2, <2>3
  <1>6. (q * t) * u <= (cost * k) * u
    <2>1. q * t \in Nat /\ cost * k \in Nat
      OBVIOUS
    <2>. QED BY <2>1, TimesMono DEF PaidLess
  <1>7. (cost * u) * k <= (d * t) * k
    <2>1. cost * u \in Nat /\ d * t \in Nat
      OBVIOUS
    <2>. QED BY <1>5, <2>1, TimesMono
  <1>8. (q * t) * u = (q * u) * t /\ (cost * k) * u = (cost * u) * k /\ (d * t) * k = (d * k) * t
    OBVIOUS
  <1>9. (q * u) * t <= (d * k) * t
    <2>1. (q * u) * t \in Nat /\ (cost * u) * k \in Nat /\ (d * k) * t \in Nat
      OBVIOUS
    <2>2. \A e, f, g \in Nat : e <= f /\ f <= g => e <= g
      OBVIOUS
    <2>. QED BY <1>6, <1>7, <1>8, <2>1, <2>2
  <1>10. q * u \in Nat /\ d * k \in Nat
    OBVIOUS
  <1>11. q * u <= d * k
    BY <1>9, <1>10, TimesCancel
  <1>. QED BY <1>2, <1>3, <1>11 DEF PaidLess, a

LEMMA MostOfRest ==
  ASSUME NEW q \in Nat, NEW k \in Nat \ {0}, NEW cost \in Nat, NEW t \in Nat \ {0}, NEW sells \in Nat,
         PaidMore(q, k, cost, t, sells), NEW x \in Nat, x < t
  PROVE  PaidMore(q, k, cost - Allocated(cost, x, t), t - x, sells + 1)
  <1>. DEFINE a == Allocated(cost, x, t)
  <1>1. a \in Nat /\ a <= cost /\ cost * x <= a * t + t
    BY x <= t, Shares
  <1>. HIDE DEF a
  <1>2. PICK d \in Nat : d = cost - a
    BY <1>1
  <1>3. PICK u \in Nat : u = t - x
    OBVIOUS
  <1>4. cost = d + a /\ t = u + x /\ u <= t
    BY <1>1, <1>2, <1>3
  <1>5. d * t <= cost * u + t
    <2>1. cost * t = d * t + a * t /\ cost * t = cost * u + cost * x
      BY <1>1, <1>4
    <2>2. d * t \in Nat /\ a * t \in Nat /\ cost * u \in Nat /\ cost * x \in Nat
      BY <1>1
    <2>3. \A e, f, g, h, i \in Nat : h <= f + i /\ e + f = g + h => e <= g + i
      OBVIOUS
    <2>. QED BY <1>1, <2>1, <2>2, <2>3
  <1>6. (cost * k) * u <= (q * t + sells * k) * u
    <2>1. q * t + sells * k \in Nat /\ cost * k \in Nat
      OBVIOUS
    <2>. QED BY <2>1, TimesMono DEF PaidMore
  <1>7. (d * t) * k <= (cost * u + t) * k
    <2>1. cost * u + t \in Nat /\ d * t \in Nat
      OBVIOUS
    <2>. QED BY <1>5, <2>1, TimesMono
  <1>8. (sells * k) * u <= (sells * k) * t
    <2>1. sells * k \in Nat
      OBVIOUS
    <2>2. u * (sells * k) <= t * (sells * k)
      BY <1>4, <2>1, TimesMono
    <2>3. u * (sells * k) = (sells * k) * u /\ t * (sells * k) = (sells * k) * t
      OBVIOUS
    <2>. QED BY <2>2, <2>3
  <1>9. /\ (cost * k) * u = (cost * u) * k /\ (q * t + sells * k) * u = (q * u) * t + (sells * k) * u
        /\ (d * t) * k = (d * k) * t /\ (cost * u + t) * k = (cost * u) * k + t * k
        /\ (q * u + (sells + 1) * k) * t = (q * u) * t + (sells * k) * t + t * k
    OBVIOUS
  <1>10. (d * k) * t <= (q * u + (sells + 1) * k) * t
    <2>1. /\ (cost * u) * k \in Nat /\ (q * u) * t \in Nat /\ (sells * k) * u \in Nat
          /\ (sells * k) * t \in Nat /\ t * k \in Nat /\ (d * k) * t \in Nat
      OBVIOUS
    <2>2. \A e, f, g, h, i, j \in Nat : e <= f + i /\ f <= g + h /\ h <= j => e <= g + j + i
      OBVIOUS
    <2>3. /\ (d * k) * t <= (cost * u) * k + t * k /\ (cost * u) * k <= (q * u) * t + (sells * k) * u
      BY <1>6, <1>7, <1>9
    <2>4. (d * k) * t <= (q * u) * t + (sells * k) * t + t * k
      BY <1>8, <2>1, <2>2, <2>3
    <2>. QED BY <1>9, <2>4
  <1>11. q * u + (sells + 1) * k \in Nat /\ d * k \in Nat
    OBVIOUS
  <1>12. d * k <= q * u + (sells + 1) * k
    BY <1>10, <1>11, TimesCancel
  <1>. QED BY <1>2, <1>3, <1>12 DEF PaidMore, a

\* The first buy, and each one more, keep the average between what buys paid; so does
\* a sell, of which one more may be rounded.
LEMMA BuyBetween ==
  ASSUME NEW rs \in Seq(Record), NEW r \in Record, r.side = "buy",
         NEW cost \in Nat, NEW amount \in Nat, Between(rs, cost, amount), amount = 0 => cost = 0
  PROVE  Between(Append(rs, r), cost + r.quote, amount + r.tokens)
  <1>. DEFINE us == Append(rs, r)
              s == SellsOf(rs)
  <1>1. r.quote \in Nat /\ r.tokens \in Nat \ {0}
    BY DEF Record
  <1>2. /\ \A i \in BuysOf(rs) : i \in BuysOf(us) /\ us[i] = rs[i] /\ rs[i] \in Record /\ rs[i].side = "buy"
        /\ SellsOf(us) = s /\ s \in Nat
        /\ \E i \in BuysOf(us) : us[i] = r
    BY OneMore
  <1>3. PICK j \in BuysOf(us) : us[j] = r
    BY <1>2
  <1>. HIDE DEF us, s
  <1>4. CASE amount = 0
    <2>1. cost + r.quote = r.quote /\ amount + r.tokens = r.tokens
      BY <1>1, <1>4
    <2>2. \A q, k, n \in Nat : PaidLess(q, k, q, k) /\ PaidMore(q, k, q, k, n)
      BY DEF PaidLess, PaidMore
    <2>. QED BY <1>1, <1>2, <1>3, <2>1, <2>2 DEF Between, us
  <1>5. CASE amount > 0
    <2>1. PICK i \in BuysOf(rs) : PaidLess(rs[i].quote, rs[i].tokens, cost, amount)
      BY <1>5 DEF Between
    <2>2. PICK h \in BuysOf(rs) : PaidMore(rs[h].quote, rs[h].tokens, cost, amount, s)
      BY <1>5 DEF Between, s
    <2>3. /\ rs[i].quote \in Nat /\ rs[i].tokens \in Nat \ {0}
          /\ rs[h].quote \in Nat /\ rs[h].tokens \in Nat \ {0}
      BY <1>2 DEF Record
    <2>4. \/ PaidLess(rs[i].quote, rs[i].tokens, cost + r.quote, amount + r.tokens)
          \/ PaidLess(r.quote, r.tokens, cost + r.quote, amount + r.tokens)
      BY <1>1, <2>1, <2>3, LeastOfBoth
    <2>5. \/ PaidMore(rs[h].quote, rs[h].tokens, cost + r.quote, amount + r.tokens, s)
          \/ PaidMore(r.quote, r.tokens, cost + r.quote, amount + r.tokens, s)
      BY <1>1, <1>2, <2>2, <2>3, MostOfBoth
    <2>6. \E i1 \in BuysOf(us) : PaidLess(us[i1].quote, us[i1].tokens, cost + r.quote, amount + r.tokens)
      BY <1>2, <1>3, <2>4
    <2>7. \E i1 \in BuysOf(us) : PaidMore(us[i1].quote, us[i1].tokens, cost + r.quote, amount + r.tokens, SellsOf(us))
      BY <1>2, <1>3, <2>5
    <2>. QED BY <2>6, <2>7 DEF Between, us
  <1>. QED BY <1>4, <1>5

LEMMA SellBetween ==
  ASSUME NEW rs \in Seq(Record), NEW r \in Record, r.side # "buy",
         NEW cost \in Nat, NEW amount \in Nat \ {0}, Between(rs, cost, amount),
         NEW x \in Nat, x <= amount
  PROVE  Between(Append(rs, r), cost - Allocated(cost, x, amount), amount - x)
  <1>. DEFINE us == Append(rs, r)
              s == SellsOf(rs)
  <1>1. /\ \A i \in BuysOf(rs) : i \in BuysOf(us) /\ us[i] = rs[i] /\ rs[i] \in Record /\ rs[i].side = "buy"
        /\ SellsOf(us) = s + 1 /\ s \in Nat
    BY OneMore
  <1>. HIDE DEF us, s
  <1>2. SUFFICES ASSUME amount - x > 0
                 PROVE  Between(us, cost - Allocated(cost, x, amount), amount - x)
    BY DEF Between, us
  <1>3. x < amount
    BY <1>2
  <1>4. PICK i \in BuysOf(rs) : PaidLess(rs[i].quote, rs[i].tokens, cost, amount)
    BY DEF Between
  <1>5. PICK h \in BuysOf(rs) : PaidMore(rs[h].quote, rs[h].tokens, cost, amount, s)
    BY DEF Between, s
  <1>6. /\ rs[i].quote \in Nat /\ rs[i].tokens \in Nat \ {0}
        /\ rs[h].quote \in Nat /\ rs[h].tokens \in Nat \ {0}
    BY <1>1 DEF Record
  <1>7. PaidLess(rs[i].quote, rs[i].tokens, cost - Allocated(cost, x, amount), amount - x)
    BY <1>3, <1>4, <1>6, LeastOfRest
  <1>8. PaidMore(rs[h].quote, rs[h].tokens, cost - Allocated(cost, x, amount), amount - x, s + 1)
    BY <1>1, <1>3, <1>5, <1>6, MostOfRest
  <1>. QED BY <1>1, <1>7, <1>8 DEF Between

-----------------------------------------------------------------------------
(* The numbers of the row, and the records.                                *)

Row == [amount : Nat, quote : Nat, cost : Nat, average : Nat \X (Nat \ {0}),
        firstPrice : Nat, lastPrice : Nat, buyCount : Nat, sellCount : Nat,
        profitLevel : Nat, scheduled : BOOLEAN]

LEMMA EmptyRowTyped == EmptyRow \in Row /\ EmptyRow.amount = 0 /\ ~EmptyRow.scheduled
                       /\ EmptyRow.profitLevel = 0
  BY DEF EmptyRow, Row

LEMMA AveragesTyped ==
  ASSUME NEW cost \in Nat, NEW tokens \in Nat
  PROVE  AverageOf(cost, tokens) \in Nat \X (Nat \ {0})
  BY DEF AverageOf

With(r, a, q, k, v, b, f, l, s, p, on) ==
  [r EXCEPT !.amount = a, !.quote = q, !.cost = k, !.average = v, !.buyCount = b,
      !.firstPrice = f, !.lastPrice = l, !.sellCount = s, !.profitLevel = p, !.scheduled = on]

\* A row with other numbers is a row.
LEMMA RowWith ==
  ASSUME NEW r, NEW a, NEW q, NEW k, NEW v, NEW b, NEW f, NEW l, NEW s, NEW p, NEW on,
         r \in Row, a \in Nat, q \in Nat, k \in Nat, v \in Nat \X (Nat \ {0}), b \in Nat,
         f \in Nat, l \in Nat, s \in Nat, p \in Nat, on \in BOOLEAN
  PROVE  With(r, a, q, k, v, b, f, l, s, p, on) \in Row
  <1>. DEFINE half == [r EXCEPT !.amount = a, !.quote = q, !.cost = k, !.average = v]
              all == [r EXCEPT !.amount = a, !.quote = q, !.cost = k, !.average = v, !.buyCount = b,
                  !.firstPrice = f, !.lastPrice = l, !.sellCount = s, !.profitLevel = p, !.scheduled = on]
  <1>1. half \in Row
    BY DEF Row
  <1>2. all = [half EXCEPT !.buyCount = b, !.firstPrice = f, !.lastPrice = l, !.sellCount = s,
                   !.profitLevel = p, !.scheduled = on]
    BY DEF Row
  <1>. HIDE DEF half, all
  <1>3. [half EXCEPT !.buyCount = b, !.firstPrice = f, !.lastPrice = l, !.sellCount = s,
             !.profitLevel = p, !.scheduled = on] \in Row
    BY <1>1 DEF Row
  <1>4. all \in Row
    BY <1>2, <1>3
  <1>. QED BY <1>4 DEF all, With

\* What is missing is replayed or computed: a number in any case.
LEMMA OldAre ==
  ASSUME row \in Row, records \in Seq(Record)
  PROVE  OldQuote \in Nat /\ OldCost \in Nat
  <1>1. row.quote \in Nat /\ row.cost \in Nat /\ row.amount \in Nat
        /\ row.average[1] \in Nat /\ row.average[2] \in Nat \ {0}
    BY DEF Row
  <1>2. Replay(records).quote \in Nat
    BY ReplayIs DEF Books
  <1>3. row.average[1] * row.amount \in Nat
    BY <1>1
  <1>4. (row.average[1] * row.amount) \div row.average[2] \in Nat
    BY <1>1, <1>3, Quotient
  <1>. QED BY <1>1, <1>2, <1>4 DEF OldQuote, OldCost

LEMMA BoughtRow ==
  ASSUME row \in Row, records \in Seq(Record), NEW t \in Fills, t.side = "buy"
  PROVE  /\ Bought(t) \in Row /\ Bought(t).amount = row.amount + t.tokens /\ Bought(t).amount > 0
         /\ Bought(t).quote = OldQuote + t.quote /\ Bought(t).cost = OldCost + t.quote
         /\ Bought(t).average = AverageOf(OldCost + t.quote, row.amount + t.tokens)
         /\ Bought(t).profitLevel \in {0, row.profitLevel}
  <1>1. t.quote \in Nat /\ t.tokens \in Nat \ {0}
    BY DEF Fills, Sent
  <1>2. OldQuote \in Nat /\ OldCost \in Nat
    BY OldAre
  <1>. DEFINE paid == t.quote \div t.tokens
              oldQuote == OldQuote
              oldCost == OldCost
              rearms == row.scheduled \/ Rearms(t)
  <1>3. paid \in Nat
    BY <1>1, Quotient
  <1>0. row.amount \in Nat /\ row.buyCount \in Nat
    BY DEF Row
  <1>4. oldQuote + t.quote \in Nat /\ oldCost + t.quote \in Nat /\ row.amount + t.tokens \in Nat
    BY <1>0, <1>1, <1>2
  <1>5. AverageOf(oldCost + t.quote, row.amount + t.tokens) \in Nat \X (Nat \ {0})
    BY <1>4, AveragesTyped
  <1>6. rearms \in BOOLEAN
    BY Zenon
  <1>7. Bought(t) = With(row, row.amount + t.tokens, oldQuote + t.quote, oldCost + t.quote,
            AverageOf(oldCost + t.quote, row.amount + t.tokens), row.buyCount + 1,
            IF row.firstPrice = 0 THEN paid ELSE row.firstPrice, paid,
            IF c.resetSellCountOnBuy THEN 0 ELSE row.sellCount,
            IF c.profitResetOnBuy THEN 0 ELSE row.profitLevel, rearms)
    BY DEF Bought, With
  <1>. HIDE DEF paid, oldQuote, oldCost, rearms
  <1>8. row.buyCount + 1 \in Nat /\ row.amount + t.tokens > 0
    BY <1>0, <1>1
  <1>9. Bought(t) \in Row
    <2>2. /\ (IF row.firstPrice = 0 THEN paid ELSE row.firstPrice) \in Nat
          /\ (IF c.resetSellCountOnBuy THEN 0 ELSE row.sellCount) \in Nat
          /\ (IF c.profitResetOnBuy THEN 0 ELSE row.profitLevel) \in Nat
      BY <1>3 DEF Row
    <2>. QED BY <1>3, <1>4, <1>5, <1>6, <1>7, <1>8, <2>2, RowWith
  <1>10. /\ Bought(t).amount = row.amount + t.tokens
         /\ Bought(t).quote = oldQuote + t.quote /\ Bought(t).cost = oldCost + t.quote
         /\ Bought(t).average = AverageOf(oldCost + t.quote, row.amount + t.tokens)
         /\ Bought(t).profitLevel \in {0, row.profitLevel}
    BY <1>7 DEF Row, With
  <1>. QED BY <1>8, <1>9, <1>10 DEF oldQuote, oldCost

LEMMA SoldRow ==
  ASSUME row \in Row, row.amount # 0, records \in Seq(Record), NEW t \in Fills
  PROVE  LET x == Cut(t, row.amount)
             cost == OldCost - Allocated(OldCost, x, row.amount)
         IN /\ x \in Nat /\ x <= row.amount
            /\ Sold(t) \in Row /\ Sold(t).amount = row.amount - x
            /\ Sold(t).quote = OldQuote - Allocated(OldQuote, x, row.amount)
            /\ Sold(t).cost = cost /\ Sold(t).average = AverageOf(cost, row.amount - x)
            /\ Sold(t).profitLevel = IF t.reason = "profit_sell" THEN row.profitLevel + 1 ELSE row.profitLevel
            /\ Sold(t).amount = 0 => ~Sold(t).scheduled
  <1>. DEFINE x == Cut(t, row.amount)
              cost == OldCost - Allocated(OldCost, x, row.amount)
              quote == OldQuote - Allocated(OldQuote, x, row.amount)
              remain == row.amount - x
              goes == (row.scheduled \/ Rearms(t)) /\ remain > 0
  <1>1. t.tokens \in Nat /\ row.amount \in Nat \ {0}
    BY DEF Fills, Sent, Row
  <1>2. OldQuote \in Nat /\ OldCost \in Nat
    BY OldAre
  <1>3. x \in Nat /\ x <= row.amount
    BY <1>1 DEF Cut, Smaller
  <1>4. quote \in Nat /\ cost \in Nat
    <2>. HIDE DEF x
    <2>1. \A a, b \in Nat : b <= a => a - b \in Nat
      OBVIOUS
    <2>2. /\ Allocated(OldQuote, x, row.amount) \in Nat /\ Allocated(OldQuote, x, row.amount) <= OldQuote
          /\ Allocated(OldCost, x, row.amount) \in Nat /\ Allocated(OldCost, x, row.amount) <= OldCost
      BY <1>1, <1>2, <1>3, Shares
    <2>. QED BY <1>2, <2>1, <2>2
  <1>5. remain \in Nat
    BY <1>1, <1>3
  <1>6. AverageOf(cost, remain) \in Nat \X (Nat \ {0})
    BY <1>4, <1>5, AveragesTyped
  <1>7. goes \in BOOLEAN /\ (remain = 0 => ~goes)
    <2>1. remain = 0 => ~(remain > 0)
      BY <1>5
    <2>. HIDE DEF remain
    <2>. QED BY <2>1, Zenon
  <1>8. Sold(t) = With(row, remain, quote, cost, AverageOf(cost, remain), 0, 0,
            IF remain = 0 THEN 0 ELSE row.lastPrice, row.sellCount + 1,
            IF t.reason = "profit_sell" THEN row.profitLevel + 1 ELSE row.profitLevel, goes)
    BY DEF Sold, QuoteLeft, With
  <1>. HIDE DEF cost, quote, remain, goes
  <1>9. row.sellCount + 1 \in Nat /\ row.profitLevel + 1 \in Nat
    BY DEF Row
  <1>10. Sold(t) \in Row
    <2>2. /\ (IF remain = 0 THEN 0 ELSE row.lastPrice) \in Nat
          /\ (IF t.reason = "profit_sell" THEN row.profitLevel + 1 ELSE row.profitLevel) \in Nat
      BY <1>9 DEF Row
    <2>. QED BY <1>4, <1>5, <1>6, <1>7, <1>8, <1>9, <2>2, RowWith
  <1>11. /\ Sold(t).amount = remain /\ Sold(t).quote = quote
         /\ Sold(t).cost = cost /\ Sold(t).average = AverageOf(cost, remain)
         /\ Sold(t).profitLevel = IF t.reason = "profit_sell" THEN row.profitLevel + 1 ELSE row.profitLevel
         /\ Sold(t).scheduled = goes
    BY <1>8 DEF Row, With
  <1>. QED BY <1>3, <1>7, <1>10, <1>11 DEF cost, quote, remain

-----------------------------------------------------------------------------
(* Every step keeps the numbers, and fills keep the accounts.              *)

Money ==
  /\ row \in Row /\ records \in Seq(Record)
  /\ row.amount = 0 => ~row.scheduled

\* The sell of a rung that is on its way has a rung to leave behind.
Rungs ==
  /\ row.profitLevel <= Len(c.levels)
  /\ \A t \in OnTheirWay :
        t.reason = "profit_sell" => t.side = "sell" /\ row.profitLevel < Len(c.levels)

\* The row holds what the records replay to, at an average cost that was paid.
Accounted ==
  /\ Replay(records) = [tokens |-> row.amount, quote |-> row.quote]
  /\ row.amount = 0 => row.cost = 0
  /\ row.average = AverageOf(row.cost, row.amount)
  /\ Between(records, row.cost, row.amount)

\* The ways to account a fill, with its record.
LEMMA FillRecords ==
  ASSUME Fill, Head(mined).side \in {"buy", "sell"}
  PROVE  LET t == Head(mined) IN
         \/ t.side = "sell" /\ row.amount = 0 /\ UNCHANGED <<row, records>>
         \/ /\ t.side = "buy" /\ row' = Bought(t)
            /\ records' = Append(records, [side |-> "buy", quote |-> t.quote, tokens |-> t.tokens])
         \/ /\ t.side = "sell" /\ row.amount # 0 /\ row' = Sold(t)
            /\ records' = Append(records, [side |-> "sell", quote |-> t.quote, tokens |-> Cut(t, row.amount)])
  BY DEF Fill

\* While only fills wrote the row, nothing of it is missing.
LEMMA OldKept ==
  ASSUME row \in Row, Accounted
  PROVE  OldQuote = row.quote /\ OldCost = row.cost
  <1>1. row.cost \in Nat /\ row.amount \in Nat /\ row.quote \in Nat
    BY DEF Row
  <1>2. OldQuote = row.quote
    BY DEF OldQuote, Accounted
  <1>3. row.cost = 0 => row.average[1] = 0
    BY <1>1 DEF Accounted, AverageOf
  <1>. QED BY <1>2, <1>3 DEF OldCost

LEMMA BuyAccounted ==
  ASSUME Money, NEW t \in Fills, t.side = "buy", row' = Bought(t),
         records' = Append(records, [side |-> "buy", quote |-> t.quote, tokens |-> t.tokens])
  PROVE  /\ Money' /\ row'.profitLevel \in {0, row.profitLevel}
         /\ Accounted => Accounted'
  <1>. DEFINE r == [side |-> "buy", quote |-> t.quote, tokens |-> t.tokens]
  <1>1. r \in Record /\ r.side = "buy" /\ r.quote = t.quote /\ r.tokens = t.tokens
        /\ t.quote \in Nat /\ t.tokens \in Nat \ {0}
    BY DEF Record, Fills, Sent
  <1>2. /\ row' \in Row /\ row'.amount = row.amount + t.tokens /\ row'.amount > 0
        /\ row'.quote = OldQuote + t.quote /\ row'.cost = OldCost + t.quote
        /\ row'.average = AverageOf(OldCost + t.quote, row.amount + t.tokens)
        /\ row'.profitLevel \in {0, row.profitLevel}
    BY BoughtRow DEF Money
  <1>3. records' = Append(records, r) /\ records \in Seq(Record)
    BY DEF Money
  <1>. HIDE DEF r
  <1>4. records' \in Seq(Record)
    BY <1>1, <1>3, AppendProperties
  <1>5. Money'
    BY <1>2, <1>4 DEF Money
  <1>6. ASSUME Accounted PROVE Accounted'
    <2>1. OldQuote = row.quote /\ OldCost = row.cost
      BY <1>6, OldKept DEF Money
    <2>2. row.amount \in Nat /\ row.cost \in Nat /\ row.quote \in Nat
      BY DEF Money, Row
    <2>3. Replay(records') = Booked(Replay(records), r)
      BY <1>1, <1>3, ReplayIs
    <2>4. Replay(records') = [tokens |-> row.amount + t.tokens, quote |-> row.quote + t.quote]
      BY <1>1, <1>6, <2>3 DEF Booked, Accounted
    <2>5. Between(Append(records, r), row.cost + r.quote, row.amount + r.tokens)
      BY <1>1, <1>3, <1>6, <2>2, BuyBetween DEF Accounted
    <2>. QED BY <1>1, <1>2, <1>3, <2>1, <2>4, <2>5 DEF Accounted
  <1>. QED BY <1>2, <1>5, <1>6

LEMMA SellAccounted ==
  ASSUME Money, NEW t \in Fills, row.amount # 0, row' = Sold(t),
         records' = Append(records, [side |-> "sell", quote |-> t.quote, tokens |-> Cut(t, row.amount)])
  PROVE  /\ Money'
         /\ row'.profitLevel = IF t.reason = "profit_sell" THEN row.profitLevel + 1 ELSE row.profitLevel
         /\ Accounted => Accounted'
  <1>. DEFINE x == Cut(t, row.amount)
              r == [side |-> "sell", quote |-> t.quote, tokens |-> x]
              cost == OldCost - Allocated(OldCost, x, row.amount)
  <1>1. /\ x \in Nat /\ x <= row.amount
        /\ row' \in Row /\ row'.amount = row.amount - x
        /\ row'.quote = OldQuote - Allocated(OldQuote, x, row.amount)
        /\ row'.cost = cost /\ row'.average = AverageOf(cost, row.amount - x)
        /\ row'.profitLevel = IF t.reason = "profit_sell" THEN row.profitLevel + 1 ELSE row.profitLevel
        /\ row'.amount = 0 => ~row'.scheduled
    BY SoldRow DEF Money
  <1>2. r \in Record /\ r.side = "sell" /\ r.tokens = x
    BY <1>1 DEF Record, Fills, Sent
  <1>3. records' = Append(records, r) /\ records \in Seq(Record)
    BY DEF Money
  <1>. HIDE DEF x, r, cost
  <1>4. records' \in Seq(Record)
    BY <1>2, <1>3, AppendProperties
  <1>5. Money'
    BY <1>1, <1>4 DEF Money
  <1>6. ASSUME Accounted PROVE Accounted'
    <2>1. OldQuote = row.quote /\ OldCost = row.cost
      BY <1>6, OldKept DEF Money
    <2>2. row.amount \in Nat \ {0} /\ row.cost \in Nat /\ row.quote \in Nat
      BY DEF Money, Row
    <2>3. Replay(records') = Booked(Replay(records), r)
      BY <1>2, <1>3, ReplayIs
    <2>4. Cut(r, row.amount) = x
      BY <1>1, <1>2, <2>2 DEF Cut, Smaller
    <2>5. Booked([tokens |-> row.amount, quote |-> row.quote], r)
            = [tokens |-> row.amount - x, quote |-> row.quote - Allocated(row.quote, x, row.amount)]
      BY <1>2, <2>2, <2>4 DEF Booked
    <2>6. Replay(records') = [tokens |-> row'.amount, quote |-> row'.quote]
      BY <1>1, <1>6, <2>1, <2>3, <2>5 DEF Accounted
    <2>7. Between(Append(records, r), row.cost - Allocated(row.cost, x, row.amount), row.amount - x)
      BY <1>1, <1>2, <1>3, <1>6, <2>2, SellBetween DEF Accounted
    <2>8. Between(records', row'.cost, row'.amount)
      BY <1>1, <1>3, <2>1, <2>7 DEF cost
    <2>9. row'.amount = 0 => row'.cost = 0
      <3>1. SUFFICES ASSUME row'.amount = 0 PROVE row'.cost = 0
        OBVIOUS
      <3>2. x = row.amount
        BY <1>1, <2>2, <3>1
      <3>3. Allocated(row.cost, x, row.amount) = row.cost
        BY <1>1, <2>2, <3>2, Shares
      <3>. QED BY <1>1, <2>1, <2>2, <3>3 DEF cost
    <2>10. row'.average = AverageOf(row'.cost, row'.amount)
      BY <1>1
    <2>. QED BY <2>6, <2>8, <2>9, <2>10 DEF Accounted
  <1>. QED BY <1>1, <1>5, <1>6

\* What the synchronisation writes is a row.
LEMMA SyncedRow ==
  ASSUME Types, Money, ave.price \in Nat
  PROVE  /\ Synced(ave) \in Row /\ (Synced(ave).amount = 0 => ~Synced(ave).scheduled)
         /\ Synced(ave).profitLevel \in {0, row.profitLevel}
  <1>. DEFINE quote == IF row.amount > 0 THEN (row.quote * ave.balance) \div row.amount ELSE row.quote
              cost == IF ave.price = 0 THEN row.cost ELSE ave.price
              average == IF ave.price = 0 THEN row.average ELSE <<ave.price, 1>>
              r == [row EXCEPT !.amount = ave.balance, !.quote = quote, !.cost = cost, !.average = average]
  <1>0. row.amount \in Nat /\ row.quote \in Nat /\ row.cost \in Nat /\ row.average \in Nat \X (Nat \ {0})
    BY DEF Money, Row
  <1>1. ~(ave.balance < MinBalance) => ave.balance \in Nat \ {0}
    BY LedgerAssumption DEF LedgerAssumption, Types
  <1>2. Synced(ave) = row \/ Synced(ave) = EmptyRow \/ (Synced(ave) = r /\ ~(ave.balance < MinBalance))
    BY DEF Synced, SyncedAmount
  <1>3. CASE Synced(ave) = r /\ ~(ave.balance < MinBalance)
    <2>1. ave.balance \in Nat \ {0}
      BY <1>1, <1>3
    <2>2. quote \in Nat
      <3>1. row.quote * ave.balance \in Nat
        BY <1>0, <2>1
      <3>2. row.amount > 0 => (row.quote * ave.balance) \div row.amount \in Nat
        BY <1>0, <3>1, Quotient
      <3>. QED BY <1>0, <3>2
    <2>3. cost \in Nat /\ average \in Nat \X (Nat \ {0})
      BY <1>0
    <2>. HIDE DEF quote, cost, average
    <2>4. r \in Row /\ r.amount = ave.balance /\ r.profitLevel = row.profitLevel
      BY <2>1, <2>2, <2>3 DEF Money, Row
    <2>. HIDE DEF r
    <2>. QED BY <1>3, <2>1, <2>4
  <1>. QED BY <1>2, <1>3, EmptyRowTyped DEF Money

\* Bounds and clocks.
Small ==
  /\ trades \in 0 .. MaxTrades /\ lags \in 0 .. MaxLags /\ waiting \subseteq Clocks
  /\ ave.price \in Nat

LEMMA SmallStep == ASSUME Small, [Next]_vars PROVE Small'
  <1>0. MaxTrades \in Nat /\ MaxLags \in Nat /\ AvePrices \subseteq Nat
    BY LedgerAssumption DEF LedgerAssumption
  <1>1. ASSUME NEW side, NEW tokens, NEW quote, NEW reason, Send(side, tokens, quote, reason),
               waiting' \subseteq Clocks
        PROVE  Small'
    <2>1. trades' \in 0 .. MaxTrades
      BY <1>0, <1>1 DEF Send, Small
    <2>. QED BY <1>1, <2>1 DEF Send, Small, sync
  <1>2. {"intent", "cooldown", "interval", "lastBuy"} \subseteq Clocks
    BY DEF Clocks
  <1>3. ASSUME ClearRow PROVE Small'
    BY <1>3 DEF ClearRow, Small, sync
  <1>4. ASSUME NEW e \in Events, Buy(e) PROVE Small'
    <2>1. waiting' \subseteq Clocks
      BY <1>2, <1>4 DEF Buy, Small
    <2>. QED BY <1>1, <1>4, <2>1 DEF Buy
  <1>5. ASSUME NEW e \in Events, Sell(e) PROVE Small'
    <2>1. CASE Dust
      BY <1>3, <1>5, <2>1 DEF Sell
    <2>2. CASE ~Dust
      <3>1. waiting' \subseteq Clocks
        BY <1>2, <1>5, <2>2 DEF Sell, Small
      <3>. QED BY <1>1, <1>5, <2>2, <3>1 DEF Sell
    <2>. QED BY <2>1, <2>2
  <1>6. ASSUME ScheduledSell PROVE Small'
    <2>1. CASE Dust
      BY <1>3, <1>6, <2>1 DEF ScheduledSell
    <2>2. CASE ~Dust
      <3>1. waiting' \subseteq Clocks
        BY <1>2, <1>6, <2>2 DEF ScheduledSell, Small
      <3>. QED BY <1>1, <1>6, <2>2, <3>1 DEF ScheduledSell
    <2>. QED BY <2>1, <2>2
  <1>7. ASSUME NEW clock \in Clocks, TimePasses(clock) PROVE Small'
    BY <1>7 DEF TimePasses, Small, sync
  <1>8. ASSUME NEW t \in sent, Mine(t) \/ Drop(t) PROVE Small'
    BY <1>8 DEF Mine, Drop, Small, engine, sync
  <1>9. ASSUME Fill PROVE Small'
    <2>1. \A t, remain : ClocksAfter(t, remain) \subseteq waiting \cup Clocks
      BY <1>2 DEF ClocksAfter
    <2>2. waiting' \subseteq Clocks
      BY <1>9, <2>1 DEF Fill, Small
    <2>3. UNCHANGED <<trades, lags, ave>>
      BY <1>9 DEF Fill, sync
    <2>. QED BY <2>2, <2>3 DEF Small
  <1>10. ASSUME NEW lagging \in BOOLEAN, AveAnswers(lagging) PROVE Small'
    <2>1. ave'.price \in Nat /\ UNCHANGED <<trades, waiting>>
      BY <1>0, <1>10 DEF AveAnswers, engine
    <2>2. lags' \in 0 .. MaxLags
      BY <1>0, <1>10 DEF AveAnswers, Small
    <2>. QED BY <2>1, <2>2 DEF Small
  <1>11. ASSUME AveWrites PROVE Small'
    BY <1>11 DEF AveWrites, Small, NoAnswer
  <1>12. ASSUME UNCHANGED vars PROVE Small'
    BY <1>12 DEF vars, engine, sync, Small
  <1>. QED BY <1>4, <1>5, <1>6, <1>7, <1>8, <1>9, <1>10, <1>11, <1>12 DEF Next

BooksInv == Inv /\ Small /\ Money /\ Rungs /\ (~touched => Accounted)

LEMMA BooksInit == Init => BooksInv
  <1>. SUFFICES ASSUME Init PROVE BooksInv
    OBVIOUS
  <1>1. Inv
    BY InvInductive
  <1>2. row = EmptyRow /\ records = <<>> /\ sent = {} /\ mined = <<>> /\ waiting = {}
        /\ trades = 0 /\ lags = 0 /\ ave = NoAnswer
    BY DEF Init
  <1>3. Small
    BY <1>2, LedgerAssumption DEF Small, LedgerAssumption, NoAnswer
  <1>4. Money
    BY <1>2, EmptyRowTyped DEF Money
  <1>5. Rungs
    <2>1. Typed(c)
      BY ParsedTyped DEF Init
    <2>2. Len(c.levels) \in Nat
      BY <2>1 DEF Typed
    <2>3. OnTheirWay = {}
      BY <1>2 DEF OnTheirWay, Items
    <2>. QED BY <1>2, <2>2, <2>3, EmptyRowTyped DEF Rungs
  <1>6. Accounted
    <2>1. row.amount = 0 /\ row.quote = 0 /\ row.cost = 0 /\ row.average = <<0, 1>>
      BY <1>2 DEF EmptyRow
    <2>2. Replay(records) = NoBook
      BY <1>2, ReplayIs
    <2>. QED BY <2>1, <2>2 DEF Accounted, NoBook, AverageOf, Between
  <1>. QED BY <1>1, <1>3, <1>4, <1>5, <1>6 DEF BooksInv

LEMMA BooksStep == ASSUME BooksInv, [Next]_vars PROVE BooksInv'
  <1>0. Types /\ Apart /\ Inv /\ Small /\ Money /\ Rungs /\ (~touched => Accounted)
        /\ Typed(c) /\ Len(c.levels) \in Nat /\ row.profitLevel \in Nat
    BY DEF BooksInv, Inv, Types, Typed, Counted
  <1>1. Inv' /\ Small'
    BY <1>0, InvInductive, SmallStep
  <1>. DEFINE Kept == Money' /\ Rungs' /\ (~touched' => Accounted')
  <1>. SUFFICES Kept
    BY <1>1 DEF BooksInv
  <1>2. ASSUME UNCHANGED <<row, records>>, ~touched' => ~touched
        PROVE  Money' /\ (~touched' => Accounted')
    BY <1>0, <1>2 DEF Money, Accounted
  <1>3. ASSUME UNCHANGED c, row'.profitLevel \in {0, row.profitLevel}, ~(\E t \in Fills : Sends(t))
        PROVE  Rungs'
    <2>1. OnTheirWay' \subseteq OnTheirWay
      BY <1>0, <1>3, OnTheirWayStep
    <2>. QED BY <1>0, <1>3, <2>1 DEF Rungs
  <1>4. ASSUME NEW t \in Fills, Sends(t) PROVE Kept
    <2>1. /\ UNCHANGED <<c, row, records, touched>> /\ OnTheirWay' = OnTheirWay \cup {t}
          /\ t.reason = "profit_sell" => t.side = "sell" /\ row.profitLevel < Len(c.levels)
      BY <1>0, <1>4, OnTheirWayStep DEF Sends, history
    <2>2. Rungs'
      BY <1>0, <2>1 DEF Rungs
    <2>. QED BY <1>2, <2>1, <2>2
  <1>. HIDE DEF Kept
  <1>5. SUFFICES ASSUME ~(\E t \in Fills : Sends(t)) PROVE Kept
    BY <1>4
  <1>6. ASSUME Rests \/ (\E t \in sent : Mine(t) \/ Drop(t)) \/ (\E lagging \in BOOLEAN : AveAnswers(lagging))
        PROVE  Kept
    <2>1. UNCHANGED <<c, row, records, touched>>
      BY <1>6 DEF Rests, Mine, Drop, AveAnswers, engine, history
    <2>. QED BY <1>2, <1>3, <1>5, <2>1 DEF Kept
  <1>7. ASSUME ClearRow PROVE Kept
    <2>1. UNCHANGED <<c, records>> /\ row' = EmptyRow /\ touched'
      BY <1>7 DEF ClearRow
    <2>. QED BY <1>0, <1>3, <1>5, <2>1, EmptyRowTyped DEF Kept, Money
  <1>8. ASSUME AveWrites PROVE Kept
    <2>1. UNCHANGED <<c, records>> /\ row' = Synced(ave) /\ touched' = (touched \/ row' # row)
      BY <1>8 DEF AveWrites
    <2>2. /\ row' \in Row /\ (row'.amount = 0 => ~row'.scheduled)
          /\ row'.profitLevel \in {0, row.profitLevel}
      BY <1>0, <2>1, SyncedRow DEF Small
    <2>3. Money'
      BY <1>0, <2>1, <2>2 DEF Money
    <2>4. ~touched' => row' = row /\ ~touched
      BY <2>1
    <2>. QED BY <1>2, <1>3, <1>5, <2>1, <2>2, <2>3, <2>4 DEF Kept
  <1>9. ASSUME Fill PROVE Kept
    <2>. DEFINE t == Head(mined)
    <2>1. mined # <<>> /\ Queue(mined) /\ UNCHANGED <<c, touched>>
      BY <1>0, <1>9, FillIs DEF Types
    <2>2. t \in Fills /\ t.side \in {"buy", "sell"}
      BY <2>1, Queues DEF Fills, Sent
    <2>3. \/ t.side = "sell" /\ row.amount = 0 /\ UNCHANGED <<row, records>>
          \/ /\ t.side = "buy" /\ row' = Bought(t)
             /\ records' = Append(records, [side |-> "buy", quote |-> t.quote, tokens |-> t.tokens])
          \/ /\ t.side = "sell" /\ row.amount # 0 /\ row' = Sold(t)
             /\ records' = Append(records, [side |-> "sell", quote |-> t.quote, tokens |-> Cut(t, row.amount)])
      BY <1>9, <2>2, FillRecords
    <2>4. t \in OnTheirWay /\ OnTheirWay' \subseteq OnTheirWay /\ \A o \in OnTheirWay' : o.side # t.side
      BY <1>0, <1>5, <1>9, OnTheirWayStep
    <2>. HIDE DEF t
    <2>5. CASE t.side = "sell" /\ row.amount = 0 /\ UNCHANGED <<row, records>>
      BY <1>2, <1>3, <1>5, <2>1, <2>5 DEF Kept
    <2>6. CASE /\ t.side = "buy" /\ row' = Bought(t)
               /\ records' = Append(records, [side |-> "buy", quote |-> t.quote, tokens |-> t.tokens])
      BY <1>0, <1>3, <1>5, <2>1, <2>2, <2>6, BuyAccounted DEF Kept
    <2>7. CASE /\ t.side = "sell" /\ row.amount # 0 /\ row' = Sold(t)
               /\ records' = Append(records, [side |-> "sell", quote |-> t.quote, tokens |-> Cut(t, row.amount)])
      <3>1. /\ Money' /\ (Accounted => Accounted')
            /\ row'.profitLevel = IF t.reason = "profit_sell" THEN row.profitLevel + 1 ELSE row.profitLevel
        BY <1>0, <2>2, <2>7, SellAccounted
      <3>2. t.reason = "profit_sell" => row.profitLevel < Len(c.levels)
        BY <1>0, <2>4 DEF Rungs
      <3>3. \A o \in OnTheirWay' : o.reason # "profit_sell"
        BY <1>0, <2>4, <2>7 DEF Rungs
      <3>4. row'.profitLevel <= Len(c.levels)
        BY <1>0, <3>1, <3>2 DEF Rungs
      <3>5. Rungs'
        BY <2>1, <3>3, <3>4 DEF Rungs
      <3>. QED BY <1>0, <2>1, <3>1, <3>5 DEF Kept
    <2>. QED BY <2>3, <2>5, <2>6, <2>7
  <1>. QED BY <1>0, <1>5, <1>6, <1>7, <1>8, <1>9, StepIs

\* Types: of what the engine, the chain and the synchronisation write.  The level of
\* take profit never passes the configured ones, though the sell that raises it was
\* decided before the fills that came first (evaluate, applyOwnFill, syncAveWalletToken).
THEOREM TypesAlways == Spec => []TypeOK
  <1>1. BooksInv => TypeOK
    <2>. SUFFICES ASSUME BooksInv PROVE TypeOK
      OBVIOUS
    <2>1. Types /\ Apart /\ Small /\ Money /\ Rungs /\ Typed(c)
      BY DEF BooksInv, Inv, Types
    <2>2. row \in Row /\ row.profitLevel \in Nat /\ row.profitLevel <= Len(c.levels) /\ Len(c.levels) \in Nat
      BY <2>1 DEF Money, Row, Rungs, Typed
    <2>3. row \in [amount : Nat, quote : Nat, cost : Nat, average : Nat \X (Nat \ {0}),
                   firstPrice : Nat, lastPrice : Nat, buyCount : Nat,
                   sellCount : Nat, profitLevel : 0 .. Len(c.levels), scheduled : BOOLEAN]
      <3>1. row.profitLevel \in 0 .. Len(c.levels)
        BY <2>2
      <3>. QED BY <2>2, <3>1 DEF Row
    <2>4. sent \subseteq Sent /\ \A i \in DOMAIN mined : mined[i] \in Sent
      BY <2>1, Queues DEF Types, Fills
    <2>. QED BY <2>1, <2>3, <2>4 DEF TypeOK, Types, Apart, Small, Money
  <1>. QED BY <1>1, BooksInit, BooksStep, PTL DEF Spec

\* Whatever the rules, the prices and the order of the trades: as long as only fills
\* wrote the row, its tokens and what was spent on them are what reconstructQuoteSpent
\* replays from the records, and the average cost lies between the least and the
\* largest price a buy paid, but for one dollar of rounding for each sell
\* (applyOwnFill).
THEOREM AccountsAlways == Spec => []LedgerAccounts
  <1>1. BooksInv => LedgerAccounts
    BY WithinIs DEF BooksInv, Accounted, LedgerAccounts
  <1>. QED BY <1>1, BooksInit, BooksStep, PTL DEF Spec
=============================================================================
