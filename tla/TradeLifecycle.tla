--------------------------- MODULE TradeLifecycle ---------------------------
(***************************************************************************)
(* The life of the trades of one position: one user, one token, one pool.  *)
(*                                                                         *)
(* Two goroutines of strategy.Engine share the rows of the position: the   *)
(* shard worker that takes the position's chain events from the websocket  *)
(* (Run, processDecoded, Process), and the ticker (Tick), which every      *)
(* second expires pending trades, runs the sell scheduler and polls the    *)
(* chain for the events the websocket lost, handing them to Process too.   *)
(* Process holds a mutex per user and token; the other steps of the ticker *)
(* take no lock.  Every step below is one database statement (or one       *)
(* database transaction) or one call of the node.                          *)
(***************************************************************************)
EXTENDS Integers, FiniteSets, Totals

CONSTANTS
    Ext,            \* trades of other accounts, the events Process evaluates
    Wants,          \* Wants[e]: the rule of the strategy e satisfies on price
    Hashes,         \* hashes of the transactions the strategy may submit
    NoHash, NoEvent, ScheduledKey,
    V4,             \* a Uniswap V4 pool (TRUE) or a Pons curve (FALSE)
    LowValue,       \* whether a trade of the strategy's is below the value filter
    ReplacePending, ScheduledSell, Cooldown, ResetOnBuy,   \* configuration
    FullSellAfter,  \* sellPolicy.fullSellAfterSellCount, 0 when off
    Levels,         \* the number of profit levels
    BuyQty, SellQty,\* tokens a buy receives, tokens a partial sell offers
    MinSell,        \* the balance below which a position is untradeable
    PolledExt,      \* bound: the events in Ext that the poller reports as well
    MaxFaults       \* bound: failed calls, reverts and crashes in one behaviour

SellReasons == {"external_buy_signal", "profit_sell", "loss_protection",
                "sell_count_force_full", "scheduled_sell"}
Reasons == SellReasons \cup {"external_sell_signal"}
MaxPendingBuyReplacements == 1

ASSUME ConstantsAssumption ==
    /\ NoHash \notin Hashes
    /\ Ext \cap Hashes = {} /\ PolledExt \subseteq Ext
    /\ IsFiniteSet(Hashes)
    /\ ScheduledKey \notin Ext \cup Hashes
    /\ NoEvent \notin Ext \cup Hashes \cup {ScheduledKey}
    /\ Wants \in [Ext -> Reasons \cup {"none"}]
    /\ {V4, ReplacePending, ScheduledSell, Cooldown, ResetOnBuy} \cup LowValue \subseteq BOOLEAN
    /\ {FullSellAfter, Levels, MaxFaults} \subseteq Nat
    /\ {BuyQty, SellQty, MinSell} \subseteq Nat \ {0}

VARIABLES
    position,  \* strategy_positions, the row
    buyRow,    \* strategy_pending_buys, the row
    attempts,  \* strategy_buy_attempts: the status of each hash
    actions,   \* strategy_pending_actions, by hash
    failures,  \* strategy_sell_failures: the snapshot sealed for each reason
    recorded,  \* monitor_records: the hashes whose fill is accounted
    late,      \* history, from the ids of monitor_records: the buys accounted after
               \* a sell that the chain placed behind them
    seen,      \* strategy_events: the keys already acted upon
    own,       \* Engine.ownCache
    lock,      \* Engine.locks: who holds the mutex of the user and token
    pc, job,   \* where each goroutine is, and its local variables
    phase, todo, \* the step of the ticker's round, and the rows it selected
    heard, polled, \* events taken from the websocket, and from the poller
    tx, nextNonce, wallet, \* the chain: the wallet's transactions, the nonce its
                           \* next one takes, its token balance
    faults

tables == <<position, buyRow, attempts, actions, failures, recorded, late, seen>>
ticker == <<phase, todo>>
feeds == <<heard, polled>>
chain == <<tx, nextNonce, wallet>>
vars == <<tables, own, lock, pc, job, ticker, feeds, chain, faults>>

Threads == {"worker", "tick"}
Events == Ext \cup Hashes

Position == [amount : Nat, buys : Nat, sells : Nat, level : Nat,
             sched : {"none", "future", "due"}, cooling : BOOLEAN]
EmptyPosition == [amount |-> 0, buys |-> 0, sells |-> 0, level |-> 0,
                  sched |-> "none", cooling |-> FALSE]

\* The age of a row: 0 below a second, 1 past the replacement timeout, 2 past
\* pendingSellTimeout.  old: created more than pendingBuyExecutionTimeout ago.
Ages == 0 .. 2
BuyRow == [status : {"none", "pending", "confirmed"}, hash : Hashes \cup {NoHash},
           nonce : Nat, count : Nat, age : Ages, old : BOOLEAN]
NoRow == [status |-> "none", hash |-> NoHash, nonce |-> 0, count |-> 0,
          age |-> 0, old |-> FALSE]

Action == [status : {"none", "pending", "confirmed", "reverted"},
           reason : Reasons \cup {"none"}, age : Ages]
NoAction == [status |-> "none", reason |-> "none", age |-> 0]

Tx == [state : {"none", "pool", "mined", "reverted", "dropped"},
       side : {"buy", "sell"}, qty : Nat, nonce : Nat,
       key : Events \cup {NoEvent, ScheduledKey}]
NoTx == [state |-> "none", side |-> "buy", qty |-> 0, nonce |-> 0, key |-> NoEvent]

Job == [evt : Events \cup {NoEvent}, isOwn : BOOLEAN,
        reason : Reasons \cup {"none"}, snap : Position, full : BOOLEAN,
        bal : Nat, hash : Hashes \cup {NoHash}, filled : BOOLEAN]
NoJob == [evt |-> NoEvent, isOwn |-> FALSE, reason |-> "none",
          snap |-> EmptyPosition, full |-> FALSE, bal |-> 0,
          hash |-> NoHash, filled |-> FALSE]

PCs == {"idle", "arrived", "blocked", "preflight", "clear", "mark", "claim",
        "persist", "cooldown", "broadcast", "update", "save", "saveBack",
        "saveInsert", "record", "balance", "zero"}
Phases == {"sells", "expire", "buys", "dropBuy", "sched", "poll", "polling"}

TypeOK ==
    /\ position \in Position
    /\ buyRow \in BuyRow
    /\ attempts \in [Hashes -> {"none", "pending", "confirmed", "replaced", "failed"}]
    /\ actions \in [Hashes -> Action]
    /\ failures \in [SellReasons -> SUBSET (Nat \X Nat \X Nat)]
    /\ recorded \subseteq Hashes /\ late \subseteq Hashes
    /\ seen \subseteq Events
    /\ own \subseteq Hashes
    /\ lock \in Threads \cup {"free"}
    /\ pc \in [Threads -> PCs]
    /\ job \in [Threads -> Job]
    /\ phase \in Phases
    /\ todo \subseteq Events
    /\ heard \subseteq Events /\ polled \subseteq Events
    /\ tx \in [Hashes -> Tx]
    /\ nextNonce \in Nat \ {0} /\ wallet \in Nat
    /\ faults \in 0 .. MaxFaults

Init ==
    /\ position = EmptyPosition
    /\ buyRow = NoRow
    /\ attempts = [h \in Hashes |-> "none"]
    /\ actions = [h \in Hashes |-> NoAction]
    /\ failures = [r \in SellReasons |-> {}]
    /\ recorded = {} /\ late = {} /\ seen = {} /\ own = {}
    /\ lock = "free"
    /\ pc = [t \in Threads |-> "idle"]
    /\ job = [t \in Threads |-> NoJob]
    /\ phase = "sells" /\ todo = {}
    /\ heard = {} /\ polled = {}
    /\ tx = [h \in Hashes |-> NoTx]
    /\ nextNonce = 1 /\ wallet = 0
    /\ faults = 0

-----------------------------------------------------------------------------
(* Readings of the state.                                                  *)

Lesser(a, b) == IF a <= b THEN a ELSE b
IsBuy(reason) == reason = "external_sell_signal"
PendingSells == {h \in Hashes : tx[h].side = "sell" /\ actions[h].status = "pending"}
PendingSellBriefly == \E h \in PendingSells : actions[h].age < 1
\* loadPosition's PendingSell: a pending sell written less than five seconds ago.
PendingSell == \E h \in PendingSells : actions[h].age < 2
\* loadPosition's RecentBuyIntent within buySellTriggerCooldown.
RecentBuyIntent ==
    \/ buyRow.status # "none" /\ buyRow.age = 0
    \/ \E h \in Hashes : /\ tx[h].side = "buy" /\ actions[h].age = 0
                         /\ actions[h].status \in {"pending", "confirmed"}
Snapshot(p) == <<p.amount, p.buys, p.sells>>
SellFailureBlocked(p, reason) == p.amount > 0 /\ Snapshot(p) \in failures[reason]

\* The sell that reaches the configured count is the full exit.
ForceFull(p) == FullSellAfter > 0 /\ p.sells + 1 >= FullSellAfter

\* The rule an event satisfies on price alone.  A trade of the strategy that is
\* not recognised as its own is evaluated like anyone else's.
Want(x) == IF x \in Ext THEN Wants[x]
           ELSE IF tx[x].side = "sell" THEN "external_sell_signal"
           ELSE "external_buy_signal"

\* The reason evaluate returns, "none" when it decides nothing.
Evaluate(want, p) ==
    LET forced == IF ForceFull(p) THEN "sell_count_force_full" ELSE "none" IN
    IF IsBuy(want) THEN want
    ELSE IF p.amount = 0 \/ RecentBuyIntent THEN "none"
    ELSE IF \/ p.cooling \/ want = "none"
            \/ want = "profit_sell" /\ p.level >= Levels
         THEN forced ELSE want

\* Whether that sell takes the whole position.
FullSell(reason, p) ==
    ForceFull(p) \/ reason = "loss_protection" \/ SellQty >= p.amount

\* Ownership of a V4 swap is known from the cache; a curve event names the
\* wallet.  A low-value event falls back to the database.
CachedOwn(h) == ~V4 \/ h \in own
KnownInDatabase(h) ==
    \/ actions[h].status \in {"pending", "confirmed"}
    \/ buyRow.hash = h /\ buyRow.status # "none"
    \/ attempts[h] \in {"pending", "confirmed"}

\* The mutex of the user and token.
EnterFreely == TRUE
MayEnter == lock = "free"

Mined == {h \in Hashes : tx[h].state = "mined"}
\* One buy attempt becomes the winner, the other pending attempts lost to it.
Resolve(att, h) == [g \in Hashes |-> IF att[g] # "pending" THEN att[g]
                                     ELSE IF g = h THEN "confirmed" ELSE "replaced"]
KeepRow(row) == row
ConfirmRow(row) == IF row.status # "pending" THEN row
                   ELSE [row EXCEPT !.status = "confirmed", !.age = 0]

-----------------------------------------------------------------------------
(* Helpers of the steps.                                                   *)

Goto(t, label) == pc' = [pc EXCEPT ![t] = label]
\* Return from Process, from one row of the scheduler or from a reconciliation.
\* The mutex is released by the deferred unlock if this goroutine holds it.
Return(t) ==
    /\ Goto(t, "idle")
    /\ job' = [job EXCEPT ![t] = NoJob]
    /\ lock' = IF lock = t THEN "free" ELSE lock
Fault == faults < MaxFaults /\ faults' = faults + 1
ZeroPosition ==
    /\ position' = EmptyPosition
    /\ failures' = [r \in SellReasons |-> {}]

-----------------------------------------------------------------------------
(* Process: an event reaches the worker or the poller.                     *)

\* processForMonitors classifies the event before Process takes the lock.  An
\* event of the strategy's own that the cache misses is looked up, and dropped
\* or not, when its value is low; otherwise it passes for foreign.
Recognised(x, low) == x \in Hashes /\ (CachedOwn(x) \/ (low /\ KnownInDatabase(x)))
Arrive(t, x) ==
    /\ pc[t] = "idle"
    /\ \E low \in LowValue :
        IF x \in Hashes /\ low /\ ~Recognised(x, low)
        THEN UNCHANGED <<pc, job>>
        ELSE /\ Goto(t, "arrived")
             /\ job' = [job EXCEPT ![t] = [NoJob EXCEPT !.evt = x, !.isOwn = Recognised(x, low)]]
    /\ UNCHANGED <<tables, own, lock, chain, faults, phase>>

\* The websocket delivers the swaps of the wallet in chain order, and may lose
\* some: what was skipped comes only from the poller.
Hear ==
    \E x \in (Ext \cup Mined) \ heard :
        /\ x \in Hashes => \A y \in heard \cap Hashes : tx[y].nonce < tx[x].nonce
        /\ Arrive("worker", x)
        /\ heard' = heard \cup {x}
        /\ UNCHANGED <<polled, todo>>

\* A fill seen by the websocket and by the poller is recorded once.
NeverRecorded(h) == FALSE
AlreadyRecorded(h) == h \in recorded

\* The websocket and the poller each deliver in chain order, but a fill that only the
\* poller delivers meets the later ones of the websocket.
Overtaken(h) ==
    /\ tx[h].side = "buy"
    /\ \E g \in recorded : tx[g].side = "sell" /\ tx[g].nonce > tx[h].nonce

\* A sell takes no more than the position holds.
AllOfIt(h) == tx[h].qty
Sold(h) == Lesser(tx[h].qty, position.amount)

\* The position after a buy, or a sell with its pending reason, is accounted.
AfterBuy(p, qty) ==
    [p EXCEPT !.amount = @ + qty, !.buys = @ + 1,
              !.sells = IF ResetOnBuy THEN 0 ELSE @,
              !.level = IF ResetOnBuy THEN 0 ELSE @,
              !.sched = IF ScheduledSell /\ (ResetOnBuy \/ @ = "none")
                        THEN "future" ELSE @]
AfterSell(p, sold, reason) ==
    [p EXCEPT !.amount = @ - sold, !.buys = 0, !.sells = @ + 1,
              !.level = IF reason = "profit_sell" THEN @ + 1 ELSE @,
              !.sched = IF sold = p.amount THEN "none"
                        ELSE IF reason = "scheduled_sell" /\ ScheduledSell
                        THEN "future" ELSE @]

\* applyOwnFill: one database transaction, under the mutex.
ApplyOwnFill(t) ==
    LET h == job[t].evt
        reason == IF actions[h].status = "pending" THEN actions[h].reason ELSE "confirmed_fill"
        confirmed == IF actions[h].status # "pending" THEN actions
                     ELSE [actions EXCEPT ![h].status = "confirmed", ![h].age = 0]
    IN
    /\ pc[t] = "arrived" /\ job[t].isOwn
    /\ MayEnter
    /\ \/ /\ AlreadyRecorded(h)
          /\ actions' = confirmed
          /\ UNCHANGED <<position, buyRow, attempts, failures, recorded, late, faults>>
       \/ /\ ~AlreadyRecorded(h)
          /\ tx[h].side = "buy" \/ position.amount > 0
          /\ position' = IF tx[h].side = "buy" THEN AfterBuy(position, tx[h].qty)
                         ELSE AfterSell(position, Sold(h), reason)
          /\ recorded' = recorded \cup {h}
          /\ late' = IF Overtaken(h) THEN late \cup {h} ELSE late
          /\ actions' = confirmed
          /\ failures' = [r \in SellReasons |-> {}]
          /\ buyRow' = IF tx[h].side = "buy" THEN ConfirmRow(buyRow) ELSE buyRow
          /\ attempts' = IF tx[h].side = "buy" THEN Resolve(attempts, h) ELSE attempts
          /\ UNCHANGED faults
       \* A sell of a position that holds nothing is not recorded, and neither
       \* is a fill whose database transaction fails.
       \/ /\ \/ ~AlreadyRecorded(h) /\ tx[h].side = "sell" /\ position.amount = 0 /\ UNCHANGED faults
             \/ Fault
          /\ UNCHANGED <<position, buyRow, attempts, actions, failures, recorded, late>>
    /\ Return(t)
    /\ UNCHANGED <<seen, own, ticker, feeds, chain>>

\* Process loads the position, evaluates the event and checks what forbids a
\* sell: another one in flight, or a failure sealed for the same condition.
Decide(t) ==
    LET reason == Evaluate(Want(job[t].evt), position) IN
    /\ pc[t] = "arrived" /\ ~job[t].isOwn
    /\ MayEnter
    /\ IF \/ reason = "none"
          \/ ~IsBuy(reason) /\ PendingSell
       THEN Return(t)
       ELSE /\ lock' = t
            /\ Goto(t, IF IsBuy(reason) THEN "mark"
                       ELSE IF SellFailureBlocked(position, reason) THEN "blocked"
                       ELSE "preflight")
            /\ job' = IF IsBuy(reason) THEN [job EXCEPT ![t].reason = reason]
                      ELSE [job EXCEPT ![t].reason = reason, ![t].snap = position,
                                       ![t].full = FullSell(reason, position)]
    /\ UNCHANGED <<tables, own, ticker, feeds, chain, faults>>

\* prepareSellBalance reads the wallet.  A position or a wallet below the
\* minimum is cleared; a sealed sell ends here either way.
Preflight(t) ==
    /\ pc[t] \in {"blocked", "preflight"}
    /\ \/ /\ IF job[t].snap.amount < MinSell \/ wallet < MinSell
             THEN Goto(t, "clear") /\ UNCHANGED <<job, lock>>
             ELSE IF pc[t] = "blocked" THEN Return(t)
             ELSE /\ Goto(t, IF job[t].evt = NoEvent THEN "claim" ELSE "mark")
                  /\ job' = [job EXCEPT ![t].bal = wallet]
                  /\ UNCHANGED lock
          /\ UNCHANGED faults
       \/ Fault /\ Return(t)
    /\ UNCHANGED <<tables, own, ticker, feeds, chain>>

ClearUntradeable(t) ==
    /\ pc[t] = "clear"
    /\ ZeroPosition
    /\ Return(t)
    /\ UNCHANGED <<buyRow, attempts, actions, recorded, late, seen, own, ticker,
                   feeds, chain, faults>>

\* The insert into strategy_events finds the key of an event already taken.
NeverMarked(x) == FALSE
AlreadyMarked(x) == x \in seen

\* markStrategyEvent: the same source event is acted upon once.
MarkStrategyEvent(t) ==
    LET j == job[t] IN
    /\ pc[t] = "mark"
    /\ IF AlreadyMarked(j.evt)
       THEN Return(t) /\ UNCHANGED seen
       ELSE /\ seen' = seen \cup {j.evt}
            /\ Goto(t, IF IsBuy(j.reason) THEN "persist"
                       ELSE IF Cooldown /\ j.reason = "external_buy_signal" THEN "cooldown"
                       ELSE "broadcast")
            /\ UNCHANGED <<job, lock>>
    /\ UNCHANGED <<position, buyRow, attempts, actions, failures, recorded, late,
                   own, ticker, feeds, chain, faults>>

MayReplaceAgain(row) == row.age >= 1
MayReplace(row) == row.age >= 1 /\ row.count < MaxPendingBuyReplacements

\* persistPendingBuy, the buy that replaces a pending one (V4 only) included.
PersistPendingBuy(t) ==
    LET replace == V4 /\ ReplacePending
        pending == buyRow.status = "pending"
        timedOut == replace /\ pending /\ buyRow.age >= 1
        reverted == timedOut /\ buyRow.hash # NoHash /\ tx[buyRow.hash].state = "reverted"
        fresh == [NoRow EXCEPT !.status = "pending", !.old = buyRow.old]
    IN
    /\ pc[t] = "persist"
    /\ \/ /\ reverted                     \* the receipt answers: never retried
          /\ buyRow' = NoRow
          /\ attempts' = [attempts EXCEPT ![buyRow.hash] =
                             IF @ = "pending" THEN "failed" ELSE @]
          /\ Return(t)
       \/ /\ ~pending                     \* a new intent
          /\ buyRow' = fresh
          /\ Goto(t, "broadcast") /\ UNCHANGED <<attempts, job, lock>>
       \/ /\ timedOut /\ MayReplace(buyRow)
          /\ buyRow' = [buyRow EXCEPT !.count = @ + 1, !.age = 0]
          /\ Goto(t, "broadcast") /\ UNCHANGED <<attempts, job, lock>>
       \/ /\ pending                      \* not accepted
          /\ ~timedOut \/ ~MayReplace(buyRow)
          /\ Return(t) /\ UNCHANGED <<buyRow, attempts>>
    /\ UNCHANGED <<position, actions, failures, recorded, late, seen, own, ticker,
                   feeds, chain, faults>>

\* The cooldown of an external-buy sell is written with the position as it was
\* loaded before the balance check.
SaveCooldown(t) ==
    /\ pc[t] = "cooldown"
    /\ position' = [job[t].snap EXCEPT !.cooling = TRUE]
    /\ Goto(t, "broadcast")
    /\ UNCHANGED <<buyRow, attempts, actions, failures, recorded, late, seen, own,
                   lock, job, ticker, feeds, chain, faults>>

-----------------------------------------------------------------------------
(* Broadcast, and what is written about it.  The scheduler shares it.      *)

\* A V4 buy reuses the nonce its pending row holds, and so replaces its bid.
NonceFor(reason) ==
    IF IsBuy(reason) /\ V4 /\ buyRow.status = "pending" /\ buyRow.nonce > 0
    THEN buyRow.nonce ELSE nextNonce
Quantity(j) == IF IsBuy(j.reason) THEN BuyQty
               ELSE IF j.full THEN j.bal ELSE Lesser(SellQty, j.snap.amount)
Submitted(h, j) ==
    [tx EXCEPT ![h] = [state |-> "pool", side |-> IF IsBuy(j.reason) THEN "buy" ELSE "sell",
                       qty |-> Quantity(j), nonce |-> NonceFor(j.reason),
                       key |-> IF j.evt = NoEvent THEN ScheduledKey ELSE j.evt]]
\* After a failed broadcast: clearUnbroadcastPendingBuy, or reconcileFailedSell.
Failed(t) ==
    IF IsBuy(job[t].reason)
    THEN /\ buyRow' = IF buyRow.status = "pending" /\ buyRow.hash = NoHash
                      THEN NoRow ELSE buyRow
         /\ Return(t)
    ELSE Goto(t, "record") /\ UNCHANGED <<buyRow, job, lock>>
\* The node refuses a bid for a nonce that a mined transaction has used.
NonceUsed(n) == \E h \in Hashes : tx[h].nonce = n /\ tx[h].state \in {"mined", "reverted"}

Broadcast(t) ==
    LET j == job[t] IN
    /\ pc[t] = "broadcast"
    /\ \/ \E h \in Hashes :
            /\ tx[h].state = "none" /\ ~NonceUsed(NonceFor(j.reason))
            /\ tx' = Submitted(h, j)
            /\ nextNonce' = IF NonceFor(j.reason) = nextNonce THEN nextNonce + 1 ELSE nextNonce
            /\ \/ /\ Goto(t, IF IsBuy(j.reason) THEN "update" ELSE "save")
                  /\ job' = [job EXCEPT ![t].hash = h]
                  /\ UNCHANGED <<lock, buyRow, faults>>
               \/ Fault /\ Failed(t)      \* accepted, and the answer is lost
       \/ /\ \/ Fault
             \/ /\ \/ \A h \in Hashes : tx[h].state # "none"
                   \/ NonceUsed(NonceFor(j.reason))
                /\ UNCHANGED faults
          /\ Failed(t)
          /\ UNCHANGED <<tx, nextNonce>>
    /\ UNCHANGED <<position, attempts, actions, failures, recorded, late, seen, own,
                   ticker, feeds, wallet>>

\* UpdatePendingBroadcast: the row may have been deleted meanwhile.
UpdatePendingBroadcast(t) ==
    LET h == job[t].hash IN
    /\ pc[t] = "update"
    /\ IF buyRow.status = "pending"
       THEN /\ buyRow' = [buyRow EXCEPT !.hash = h, !.nonce = tx[h].nonce, !.age = 0]
            /\ attempts' = [attempts EXCEPT ![h] = IF @ = "none" THEN "pending" ELSE @]
            /\ own' = own \cup {h}
            /\ Goto(t, "save") /\ UNCHANGED <<job, lock>>
       ELSE Return(t) /\ UNCHANGED <<buyRow, attempts, own>>
    /\ UNCHANGED <<position, actions, failures, recorded, late, seen, ticker, feeds,
                   chain, faults>>

\* savePendingAction first asks whether the fill is already recorded, and then
\* loads the position of a filled sell ...
SavePendingAction(t) ==
    LET j == job[t]
        filled == j.hash \in recorded IN
    /\ pc[t] = "save"
    /\ Goto(t, IF filled /\ ~IsBuy(j.reason) THEN "saveBack" ELSE "saveInsert")
    /\ job' = [job EXCEPT ![t].filled = filled,
                          ![t].snap = IF filled /\ ~IsBuy(j.reason) THEN position
                                      ELSE EmptyPosition]
    /\ UNCHANGED <<tables, own, lock, ticker, feeds, chain, faults>>

\* ... writes it back with what the fill could not know, its reason ...
RearmAlways(p, reason) ==
    [p EXCEPT !.sched = IF reason = "scheduled_sell" THEN "future" ELSE @]
WithReason(p, reason) ==
    [p EXCEPT !.level = IF reason = "profit_sell" THEN @ + 1 ELSE @,
              !.sched = IF reason = "scheduled_sell" /\ p.amount > 0 THEN "future" ELSE @]

SaveFilledSell(t) ==
    /\ pc[t] = "saveBack"
    /\ position' = WithReason(job[t].snap, job[t].reason)
    /\ Goto(t, "saveInsert")
    /\ UNCHANGED <<buyRow, attempts, actions, failures, recorded, late, seen, own,
                   lock, job, ticker, feeds, chain, faults>>

\* ... and at last inserts the action.
InsertPendingAction(t) ==
    LET j == job[t]
        filledBuy == j.filled /\ IsBuy(j.reason) IN
    /\ pc[t] = "saveInsert"
    /\ \/ /\ actions' = [actions EXCEPT ![j.hash] =
                [status |-> IF j.filled THEN "confirmed" ELSE "pending",
                 reason |-> j.reason, age |-> 0]]
          /\ buyRow' = IF filledBuy THEN ConfirmRow(buyRow) ELSE buyRow
          /\ attempts' = IF filledBuy THEN Resolve(attempts, j.hash) ELSE attempts
          /\ own' = IF j.filled THEN own ELSE own \cup {j.hash}
          /\ Return(t)
          /\ UNCHANGED faults
       \/ /\ Fault
          /\ IF IsBuy(j.reason) THEN Return(t)
             ELSE Goto(t, "record") /\ UNCHANGED <<job, lock>>
          /\ UNCHANGED <<actions, buyRow, attempts, own>>
    /\ UNCHANGED <<position, failures, recorded, late, seen, ticker, feeds, chain>>

-----------------------------------------------------------------------------
(* reconcileFailedSell, after a failed, unsaved or expired sell.           *)

RecordSellFailure(t) ==
    /\ pc[t] = "record"
    /\ failures' = IF position.amount = 0 THEN failures
                   ELSE [failures EXCEPT ![job[t].reason] = {Snapshot(position)}]
    /\ Goto(t, "balance")
    /\ UNCHANGED <<position, buyRow, attempts, actions, recorded, late, seen, own,
                   lock, job, ticker, feeds, chain, faults>>

ReadWalletAfterFailure(t) ==
    /\ pc[t] = "balance"
    /\ \/ /\ IF wallet > 0
             THEN /\ position' = IF job[t].reason = "scheduled_sell"
                                 THEN [position EXCEPT !.sched = "none"] ELSE position
                  /\ Return(t)
             ELSE Goto(t, "zero") /\ UNCHANGED <<position, job, lock>>
          /\ UNCHANGED faults
       \/ Fault /\ Return(t) /\ UNCHANGED position
    /\ UNCHANGED <<buyRow, attempts, actions, failures, recorded, late, seen, own,
                   ticker, feeds, chain>>

ResetPosition(t) ==
    /\ pc[t] = "zero"
    /\ ZeroPosition
    /\ actions' = [h \in Hashes |-> IF h \in PendingSells
                                    THEN [actions[h] EXCEPT !.status = "reverted", !.age = 0]
                                    ELSE actions[h]]
    /\ Return(t)
    /\ UNCHANGED <<buyRow, attempts, recorded, late, seen, own, ticker, feeds, chain,
                   faults>>

-----------------------------------------------------------------------------
(* Tick: a round expires sells, then buys, runs the scheduler and polls.   *)

Expired(h) == actions[h].status = "pending" /\ actions[h].age = 2

ExpiredSells == {h \in PendingSells : Expired(h)}
ExpiredRows == {h \in Hashes : Expired(h)}

SelectExpired ==
    /\ phase = "sells" /\ pc["tick"] = "idle"
    /\ todo' = ExpiredRows
    /\ phase' = IF todo' = {} THEN "buys" ELSE "expire"
    /\ UNCHANGED <<tables, own, lock, pc, job, feeds, chain, faults>>

\* The delete repeats the condition of the select.  An expired sell counts as
\* failed, an expired buy leaves only its row in strategy_pending_buys.
ExpirePendingAction ==
    /\ phase = "expire" /\ pc["tick"] = "idle"
    /\ \E h \in todo :
        /\ todo' = todo \ {h}
        /\ IF Expired(h)
           THEN /\ actions' = [actions EXCEPT ![h] = NoAction]
                /\ IF tx[h].side = "sell"
                   THEN /\ Goto("tick", "record")
                        /\ job' = [job EXCEPT !["tick"].reason = actions[h].reason]
                   ELSE UNCHANGED <<pc, job>>
           ELSE UNCHANGED <<actions, pc, job>>
    /\ UNCHANGED <<position, buyRow, attempts, failures, recorded, late, seen, own,
                   lock, phase, feeds, chain, faults>>

ExpireDone ==
    /\ phase = "expire" /\ pc["tick"] = "idle" /\ todo = {}
    /\ phase' = "buys"
    /\ UNCHANGED <<tables, own, lock, pc, job, todo, feeds, chain, faults>>

\* expirePendingBuys reads the row, and the receipt of its hash unless the buy
\* is a replacement.  It keeps a row without an answer for 90 seconds.
Asked(row) == row.count < MaxPendingBuyReplacements /\ row.hash # NoHash
KeepUnsent(row) == row.hash = NoHash
KeepBuyRow(row) ==
    \/ row.hash = NoHash /\ ~row.old
    \/ Asked(row) /\ tx[row.hash].state \in {"pool", "dropped"} /\ ~row.old
    \/ Asked(row) /\ tx[row.hash].state = "mined"

SelectExpiredBuy ==
    /\ phase = "buys" /\ pc["tick"] = "idle"
    /\ IF buyRow.status = "pending" /\ buyRow.age = 2 /\ ~KeepBuyRow(buyRow)
       THEN /\ phase' = "dropBuy"
            /\ job' = [job EXCEPT !["tick"].hash = buyRow.hash]
       ELSE phase' = "sched" /\ UNCHANGED job
    /\ UNCHANGED <<tables, own, lock, pc, todo, feeds, chain, faults>>

\* The delete names the position only, not the hash or the age that was read.
DeleteExpiredBuy ==
    LET h == job["tick"].hash IN
    /\ phase = "dropBuy" /\ pc["tick"] = "idle"
    /\ buyRow' = IF buyRow.status = "pending" THEN NoRow ELSE buyRow
    /\ attempts' = [g \in Hashes |-> IF g = h /\ attempts[g] = "pending"
                                     THEN "failed" ELSE attempts[g]]
    /\ phase' = "sched"
    /\ job' = [job EXCEPT !["tick"] = NoJob]
    /\ UNCHANGED <<position, actions, failures, recorded, late, seen, own, lock, pc,
                   todo, feeds, chain, faults>>

\* checkScheduled reads the due positions, without the mutex of Process.
SelectDue ==
    /\ phase = "sched" /\ pc["tick"] = "idle"
    /\ phase' = "poll"
    /\ IF /\ ScheduledSell /\ position.sched = "due" /\ position.amount > 0
          /\ ~RecentBuyIntent
       THEN /\ Goto("tick", "preflight")
            /\ job' = [job EXCEPT !["tick"].reason = "scheduled_sell",
                                  !["tick"].snap = position,
                                  !["tick"].full = ForceFull(position)]
       ELSE UNCHANGED <<pc, job>>
    /\ UNCHANGED <<tables, own, lock, todo, feeds, chain, faults>>

\* The claim of the due slot is one conditional update.
ClaimDue ==
    /\ pc["tick"] = "claim"
    /\ IF position.sched = "due" /\ position.amount > 0 /\ ~PendingSell
       THEN /\ position' = [position EXCEPT !.sched = "future"]
            /\ Goto("tick", "broadcast") /\ UNCHANGED <<job, lock>>
       ELSE Return("tick") /\ UNCHANGED position
    /\ UNCHANGED <<buyRow, attempts, actions, failures, recorded, late, seen, own,
                   ticker, feeds, chain, faults>>

PolledSells == {h \in Mined \ polled : tx[h].side = "sell"}
PolledFills == Mined \ polled

\* pollCurves, pollV4Pools: the logs up to the head, in chain order.  A failed
\* request leaves the block cursor, and so the events, for the next round.
Poll ==
    /\ phase = "poll" /\ pc["tick"] = "idle"
    /\ \/ \E occurred \in SUBSET (PolledExt \ polled) :
            /\ heard \cap PolledExt \subseteq occurred \cup polled
            /\ todo' = occurred \cup PolledFills
          /\ UNCHANGED faults
       \/ Fault /\ UNCHANGED todo
    /\ phase' = IF todo' = {} THEN "sells" ELSE "polling"
    /\ UNCHANGED <<tables, own, lock, pc, job, feeds, chain>>

PollEvent ==
    /\ phase = "polling"
    /\ \E x \in todo :
        /\ x \in Hashes => \A y \in todo \cap Hashes : tx[x].nonce <= tx[y].nonce
        /\ Arrive("tick", x)
        /\ todo' = todo \ {x}
        /\ polled' = polled \cup {x}
    /\ UNCHANGED heard

PollDone ==
    /\ phase = "polling" /\ pc["tick"] = "idle" /\ todo = {}
    /\ phase' = "sells"
    /\ UNCHANGED <<tables, own, lock, pc, job, todo, feeds, chain, faults>>

-----------------------------------------------------------------------------
(* The environment: time, the chain and crashes.                           *)

\* Time passes: four seconds, during which a call may be outstanding, or more
\* than ninety, which no call takes.
Elapse(long) ==
    LET older(row) == LET bound == IF row.status = "pending" THEN 2 ELSE 1
                      IN  [row EXCEPT !.age = IF long THEN bound ELSE Lesser(@ + 1, bound)]
    IN
    /\ long => \A t \in Threads : pc[t] \in {"idle", "arrived"}
    /\ actions' = [h \in Hashes |-> IF actions[h].status = "none" THEN NoAction
                                    ELSE older(actions[h])]
    /\ buyRow' = IF buyRow.status = "none" THEN NoRow
                 ELSE [older(buyRow) EXCEPT !.old = @ \/ long]
    /\ position' = [position EXCEPT !.cooling = FALSE,
                                    !.sched = IF @ = "future" THEN "due" ELSE @]
    /\ UNCHANGED <<attempts, failures, recorded, late, seen, own, lock, pc, job,
                   ticker, feeds, chain, faults>>

\* The node includes the wallet's transactions in nonce order, one per nonce.
\* A sell of tokens the wallet lacks reverts; any other transaction may.
Included(h, state) ==
    [g \in Hashes |->
        IF g = h THEN [tx[g] EXCEPT !.state = state]
        ELSE IF tx[g].state = "pool" /\ tx[g].nonce = tx[h].nonce
        THEN [tx[g] EXCEPT !.state = "dropped"] ELSE tx[g]]

Mine ==
    \E h \in Hashes :
        LET covered == tx[h].side = "buy" \/ tx[h].qty <= wallet IN
        /\ tx[h].state = "pool"
        /\ \A n \in 1 .. tx[h].nonce - 1 : NonceUsed(n)
        /\ \/ /\ covered
              /\ tx' = Included(h, "mined")
              /\ wallet' = IF tx[h].side = "buy" THEN wallet + tx[h].qty
                           ELSE wallet - tx[h].qty
           \/ tx' = Included(h, "reverted") /\ UNCHANGED wallet
        /\ UNCHANGED <<tables, own, lock, pc, job, ticker, feeds, nextNonce, faults>>

\* preloadOwnTransactionCache.
PendingActionsOnly == {h \in Hashes : actions[h].status = "pending"}
EvenUnsent == {h \in Hashes : actions[h].status = "pending" \/ attempts[h] = "pending"}
                \cup (IF buyRow.status = "pending" THEN {buyRow.hash} ELSE {})
Preloaded == {h \in Hashes : \/ actions[h].status = "pending"
                             \/ buyRow.status = "pending" /\ buyRow.hash = h
                             \/ attempts[h] = "pending"}

\* A crash leaves the tables.  The restarted process primes its ownership cache
\* with the pending rows, and polls from two blocks behind the head: only the
\* recent part of what has occurred is seen again.
Crash ==
    LET occurred == (heard \cup polled) \cup Mined IN
    /\ Fault
    /\ lock' = "free"
    /\ pc' = [t \in Threads |-> "idle"]
    /\ job' = [t \in Threads |-> NoJob]
    /\ phase' = "sells" /\ todo' = {}
    /\ own' = Preloaded
    /\ heard' = occurred
    /\ \E recent \in SUBSET occurred :
        /\ \A x \in recent \cap Hashes, y \in Mined :
                tx[x].nonce <= tx[y].nonce => y \in recent
        /\ polled' = occurred \ recent
    /\ UNCHANGED <<tables, chain>>

-----------------------------------------------------------------------------

ProcessStep(t) ==
    \/ ApplyOwnFill(t) \/ Decide(t) \/ Preflight(t) \/ ClearUntradeable(t)
    \/ MarkStrategyEvent(t) \/ PersistPendingBuy(t) \/ SaveCooldown(t)
    \/ Broadcast(t) \/ UpdatePendingBroadcast(t)
    \/ SavePendingAction(t) \/ SaveFilledSell(t) \/ InsertPendingAction(t)
    \/ RecordSellFailure(t) \/ ReadWalletAfterFailure(t) \/ ResetPosition(t)

TickStep ==
    \/ SelectExpired \/ ExpirePendingAction \/ ExpireDone
    \/ SelectExpiredBuy \/ DeleteExpiredBuy
    \/ SelectDue \/ ClaimDue
    \/ Poll \/ PollEvent \/ PollDone

Next ==
    \/ \E t \in Threads : ProcessStep(t)
    \/ Hear
    \/ TickStep
    \/ (\E long \in BOOLEAN : Elapse(long)) \/ Mine \/ Crash

Spec == Init /\ [][Next]_vars

\* The goroutines run, a second tick always comes, and time passes, at some
\* point ninety seconds of it between two calls.
Fairness ==
    /\ \A t \in Threads : WF_vars(ProcessStep(t))
    /\ WF_vars(TickStep)
    /\ WF_vars(Elapse(FALSE))
    /\ SF_vars(Elapse(TRUE))
FairSpec == Spec /\ Fairness

-----------------------------------------------------------------------------
(* Properties.                                                             *)

Sent == {h \in Hashes : tx[h].state # "none"}

\* An event of another account leads to one transaction at most, although the
\* websocket and the poller both deliver it, answers are lost and the process
\* restarts.  markStrategyEvent decides it, before the broadcast.
EventSubmittedOnce ==
    \A g, h \in Sent : tx[g].key = tx[h].key /\ tx[g].key \in Events => g = h

\* A nonce is bid for by the original buy and by one replacement at most:
\* persistPendingBuy counts the bids in a row that the expiry deletes, a fill
\* confirms and a new intent takes over.
BoundedReplacement ==
    \A n \in 1 .. nextNonce - 1 :
        Cardinality({h \in Sent : tx[h].nonce = n}) <= 1 + MaxPendingBuyReplacements

\* The pending row never names a buy whose fill is recorded: its nonce is used,
\* so a replacement would never land (the comment in savePendingAction).
NoStaleReplacementCandidate ==
    buyRow.status = "pending" => buyRow.hash \notin recorded

\* A restart or an expiry forgets no trade that the tables still call pending:
\* its fill is classified as the strategy's own.
PendingTradesRecognised ==
    \A h \in Hashes :
        \/ actions[h].status = "pending" \/ attempts[h] = "pending"
        \/ buyRow.status = "pending" /\ buyRow.hash = h
        => h \in own

\* An empty position has no scheduled sell, whichever of the fill, the claim,
\* the reconciliation and the late write of a filled sell came last.
NoOrphanSchedule == position.amount = 0 => position.sched = "none"

\* One sell in flight per position, whatever rule asked for it: a sell in the
\* mempool that is either about to be saved or saved less than five seconds ago.
BeingSaved(h) == \E t \in Threads : /\ pc[t] \in {"save", "saveBack", "saveInsert"}
                                    /\ job[t].hash = h
InFlightSells ==
    {h \in Sent : /\ tx[h].side = "sell" /\ tx[h].state = "pool"
                  /\ \/ actions[h].status = "pending" /\ actions[h].age < 2
                     \/ BeingSaved(h)}
OneInFlightSell == Cardinality(InFlightSells) <= 1

\* The tokens of a set of transactions.
Tokens(S) == Total([h \in Hashes |-> tx[h].qty], S)
MinedOf(side) == {h \in Mined : tx[h].side = side}

\* The position claims no token that neither the wallet holds nor a sell, mined
\* and not accounted yet, has taken: no fill is counted twice, none is lost in
\* a write of an older position.  The exception are the late buys.  The sell that
\* overtook one sold its tokens too, of which the position knew nothing then: it
\* takes no more than the position holds, and the tokens it took beyond that
\* are never subtracted.
Outstanding == MinedOf("sell") \ recorded
NoPhantomTokens == position.amount <= wallet + Tokens(Outstanding) + Tokens(late)

\* The fills of a position are accounted in chain order (FUNCTIONAL_SPEC.md): the
\* nonces are the order in which the chain placed the trades of the wallet.
FillsInChainOrder ==
    [][\A h \in recorded' \ recorded, g \in recorded : tx[g].nonce < tx[h].nonce]_vars

\* Only a fill changes the amount of the position (README): a write of the whole
\* row undoes no fill.  What it may undo is a clearing, which the reconciliation
\* of an expired sell makes without the mutex of Process.
PositionFollowsFills ==
    [][\/ position'.amount \in {position.amount, 0}
       \/ recorded' # recorded
       \/ position = EmptyPosition]_vars

\* No sell is broadcast for a reason that is sealed for the position as it is (the
\* comment in checkScheduled).
SealedSellNotRetried ==
    [][\A t \in Threads :
          pc[t] = "broadcast" /\ ~IsBuy(job[t].reason) /\ tx' # tx /\ job'[t] # job[t]
          => ~SellFailureBlocked(position, job[t].reason)]_vars

\* Every bought token is accounted in the end: the poller finds what the websocket
\* lost, provided that the trade is recognised by then.  A failed transaction of
\* applyOwnFill is not tried again, so the promise is that of the behaviours
\* without a fault.
EveryBuyAccounted ==
    \A h \in Hashes :
        (h \in Mined \ polled /\ tx[h].side = "buy" /\ CachedOwn(h))
            ~> (h \in recorded \/ faults > 0)

\* An action without a fill is dropped or confirmed, and cannot block sells for
\* ever.
StaleActionResolved ==
    \A h \in Hashes : Expired(h) ~> actions[h].status # "pending"

\* A buy intent that was never broadcast, because the process died, is dropped
\* and cannot block the buys of the position for ever.
UnsentBuyResolved ==
    LET unsent == buyRow.status = "pending" /\ buyRow.hash = NoHash
    IN  unsent ~> ~unsent
=============================================================================
