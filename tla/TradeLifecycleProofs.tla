------------------------ MODULE TradeLifecycleProofs ------------------------
(* Theorems about TradeLifecycle and its history, for every value of the   *)
(* constants.                                                              *)
EXTENDS TradeLifecycle, FoldProofs

-----------------------------------------------------------------------------
(* Type correctness: every action keeps every variable in its set.         *)

\* The initial state is typed.
LEMMA TypeInit == Init => TypeOK
  BY ConstantsAssumption
  DEF Init, TypeOK, Position, EmptyPosition, BuyRow, NoRow, Ages, Action, NoAction,
      Tx, NoTx, Job, NoJob, PCs, Phases, Threads, Events, ConstantsAssumption

\* What the local variables of a goroutine hold at each of its steps: an own
\* event is a mined transaction of the wallet, a goroutine inside Process holds
\* the mutex, and the scheduler, which does not, never buys.
Local(t) ==
  /\ pc[t] = "idle" => job[t].evt = NoEvent
  /\ pc[t] \in {"arrived", "mark", "persist", "cooldown"} => job[t].evt \in Events
  /\ job[t].isOwn => job[t].evt \in Hashes /\ tx[job[t].evt].state = "mined"
  /\ pc[t] = "claim" => job[t].evt = NoEvent
  /\ pc[t] \in {"update", "save", "saveBack", "saveInsert"} => job[t].hash \in Hashes
  /\ pc[t] \notin {"idle", "arrived"} /\ job[t].evt # NoEvent => lock = t
  /\ pc[t] \in {"blocked", "preflight", "claim", "broadcast", "update"} /\ IsBuy(job[t].reason)
        => job[t].evt # NoEvent
LocalsOK ==
  /\ phase \notin {"expire", "polling"} => todo = {}
  /\ phase = "expire" => todo \subseteq Hashes
  /\ phase = "polling" => \A h \in todo \cap Hashes : tx[h].state = "mined"
  /\ \A t \in Threads : Local(t)

\* The constants the steps assign have the types of their variables.
LEMMA FixedTyped ==
  NoJob \in Job /\ EmptyPosition \in Position /\ NoRow \in BuyRow /\ 0 \in Ages
  BY DEF NoJob, Job, EmptyPosition, Position, NoRow, BuyRow, Ages

\* Return and Goto assign values of the right sets.
LEMMA ReturnTyped ==
  ASSUME TypeOK, NEW t \in Threads, Return(t)
  PROVE  /\ pc' \in [Threads -> PCs]
         /\ job' \in [Threads -> Job]
         /\ lock' \in Threads \cup {"free"}
  BY FixedTyped DEF Return, Goto, TypeOK, PCs

\* A goroutine moves among the named points of the code.
LEMMA GotoTyped ==
  ASSUME TypeOK, NEW t \in Threads, NEW label \in PCs, Goto(t, label)
  PROVE  pc' \in [Threads -> PCs]
  BY DEF Goto, TypeOK

\* The count of faults stays within its bound.
LEMMA FaultTyped == ASSUME TypeOK, Fault PROVE faults' \in 0 .. MaxFaults
  BY ConstantsAssumption DEF Fault, TypeOK, ConstantsAssumption

\* An update of one field keeps a record in its set.
LEMMA JobField ==
  ASSUME NEW f \in [Threads -> Job], NEW t \in Threads
  PROVE  /\ \A r \in Reasons \cup {"none"} : [f EXCEPT ![t].reason = r] \in [Threads -> Job]
         /\ \A p \in Position : [f EXCEPT ![t].snap = p] \in [Threads -> Job]
         /\ \A b \in BOOLEAN : [f EXCEPT ![t].full = b] \in [Threads -> Job]
         /\ \A b \in BOOLEAN : [f EXCEPT ![t].filled = b] \in [Threads -> Job]
         /\ \A n \in Nat : [f EXCEPT ![t].bal = n] \in [Threads -> Job]
         /\ \A h \in Hashes \cup {NoHash} : [f EXCEPT ![t].hash = h] \in [Threads -> Job]
  BY DEF Job

\* The same of the position, field by field.
LEMMA PositionField ==
  ASSUME NEW p \in Position
  PROVE  /\ \A n \in Nat : [p EXCEPT !.amount = n] \in Position
         /\ \A n \in Nat : [p EXCEPT !.buys = n] \in Position
         /\ \A n \in Nat : [p EXCEPT !.sells = n] \in Position
         /\ \A n \in Nat : [p EXCEPT !.level = n] \in Position
         /\ \A s \in {"none", "future", "due"} : [p EXCEPT !.sched = s] \in Position
         /\ \A b \in BOOLEAN : [p EXCEPT !.cooling = b] \in Position
  BY DEF Position

\* The same of the pending buy row.
LEMMA RowField ==
  ASSUME NEW r \in BuyRow
  PROVE  /\ \A s \in {"pending", "confirmed"} : [r EXCEPT !.status = s] \in BuyRow
         /\ \A h \in Hashes \cup {NoHash} : [r EXCEPT !.hash = h] \in BuyRow
         /\ \A n \in Nat : [r EXCEPT !.nonce = n] \in BuyRow
         /\ \A n \in Nat : [r EXCEPT !.count = n] \in BuyRow
         /\ \A a \in Ages : [r EXCEPT !.age = a] \in BuyRow
         /\ \A b \in BOOLEAN : [r EXCEPT !.old = b] \in BuyRow
  BY DEF BuyRow

\* The same of a pending action.
LEMMA ActionField ==
  ASSUME NEW a \in Action
  PROVE  /\ \A s \in {"confirmed", "reverted"} : [a EXCEPT !.status = s] \in Action
         /\ \A n \in Ages : [a EXCEPT !.age = n] \in Action
  BY DEF Action

\* What the fill of a buy and of a sell makes of a position.
LEMMA AfterBuyTyped ==
  ASSUME NEW p \in Position, NEW q \in Nat PROVE AfterBuy(p, q) \in Position
  <1>. DEFINE p1 == [p EXCEPT !.amount = p.amount + q]
              p2 == [p1 EXCEPT !.buys = p.buys + 1]
              p3 == [p2 EXCEPT !.sells = IF ResetOnBuy THEN 0 ELSE p.sells]
              p4 == [p3 EXCEPT !.level = IF ResetOnBuy THEN 0 ELSE p.level]
              p5 == [p4 EXCEPT !.sched = IF ScheduledSell /\ (ResetOnBuy \/ p.sched = "none")
                                         THEN "future" ELSE p.sched]
  <1>1. /\ {p.amount + q, p.buys + 1, p.sells, p.level} \subseteq Nat
        /\ p.sched \in {"none", "future", "due"}
    BY DEF Position
  <1>2. p1 \in Position
    BY <1>1, PositionField
  <1>3. p2 \in Position
    BY <1>1, <1>2, PositionField
  <1>4. p3 \in Position
    BY <1>1, <1>3, PositionField
  <1>5. p4 \in Position
    BY <1>1, <1>4, PositionField
  <1>6. p5 \in Position
    BY <1>1, <1>5, PositionField
  <1>7. AfterBuy(p, q) = p5
    BY DEF AfterBuy, Position
  <1>8. QED
    BY <1>6, <1>7

\* The clamp of applyOwnFill keeps the amount a natural number.
LEMMA AfterSellTyped ==
  ASSUME NEW p \in Position, NEW q \in 0 .. p.amount, NEW r
  PROVE  AfterSell(p, q, r) \in Position
  <1>. DEFINE p1 == [p EXCEPT !.amount = p.amount - q]
              p2 == [p1 EXCEPT !.buys = 0]
              p3 == [p2 EXCEPT !.sells = p.sells + 1]
              p4 == [p3 EXCEPT !.level = IF r = "profit_sell" THEN p.level + 1 ELSE p.level]
              p5 == [p4 EXCEPT !.sched = IF q = p.amount THEN "none"
                                         ELSE IF r = "scheduled_sell" /\ ScheduledSell
                                         THEN "future" ELSE p.sched]
  <1>1. /\ {p.amount - q, p.sells + 1, p.level, p.level + 1} \subseteq Nat
        /\ p.sched \in {"none", "future", "due"}
    BY DEF Position
  <1>2. p1 \in Position
    BY <1>1, PositionField
  <1>3. p2 \in Position
    BY <1>1, <1>2, PositionField
  <1>4. p3 \in Position
    BY <1>1, <1>3, PositionField
  <1>5. p4 \in Position
    BY <1>1, <1>4, PositionField
  <1>6. p5 \in Position
    BY <1>1, <1>5, PositionField
  <1>7. AfterSell(p, q, r) = p5
    BY DEF AfterSell, Position
  <1>8. QED
    BY <1>6, <1>7

\* The reason a decision returns is a reason.
LEMMA EvaluateTyped ==
  ASSUME TypeOK, NEW x, NEW p
  PROVE  /\ Want(x) \in Reasons \cup {"none"}
         /\ Evaluate(Want(x), p) \in Reasons \cup {"none"}
  <1>1. Want(x) \in Reasons \cup {"none"}
    BY ConstantsAssumption DEF Want, Reasons, SellReasons, ConstantsAssumption
  <1>2. QED
    BY <1>1 DEF Evaluate, Reasons, SellReasons

\* The buy rows that a fill leaves.
LEMMA ResolveTyped ==
  ASSUME TypeOK, NEW h
  PROVE  /\ Resolve(attempts, h) \in
              [Hashes -> {"none", "pending", "confirmed", "replaced", "failed"}]
         /\ ConfirmRow(buyRow) \in BuyRow
  <1>1. ConfirmRow(buyRow) \in BuyRow
    <2>1. [buyRow EXCEPT !.status = "confirmed"] \in BuyRow
      BY RowField DEF TypeOK
    <2>2. [buyRow EXCEPT !.status = "confirmed", !.age = 0] \in BuyRow
      BY <2>1, RowField, FixedTyped
    <2>3. QED
      BY <2>2 DEF ConfirmRow, TypeOK
  <1>2. QED
    BY <1>1 DEF Resolve, TypeOK

\* ApplyOwnFill keeps every variable in its type.
LEMMA TypeApplyOwnFill ==
  ASSUME TypeOK, LocalsOK, NEW t \in Threads, ApplyOwnFill(t) PROVE TypeOK'
  <1>. DEFINE h == job[t].evt
  <1>1. h \in Hashes
    BY DEF ApplyOwnFill, LocalsOK, Local
  <1>2. pc' \in [Threads -> PCs] /\ job' \in [Threads -> Job] /\ lock' \in Threads \cup {"free"}
    BY ReturnTyped DEF ApplyOwnFill
  <1>3. position' \in Position
    <2>1. tx[h].qty \in Nat /\ position \in Position
      BY <1>1 DEF TypeOK, Tx
    <2>2. Sold(h) \in 0 .. position.amount
      BY <2>1 DEF Sold, Lesser, Position
    <2>3. QED
      BY <2>1, <2>2, AfterBuyTyped, AfterSellTyped DEF ApplyOwnFill
  <1>4. actions' \in [Hashes -> Action]
    <2>1. actions[h] \in Action
      BY <1>1 DEF TypeOK
    <2>2. [actions[h] EXCEPT !.status = "confirmed"] \in Action
      BY <2>1, ActionField
    <2>3. [actions[h] EXCEPT !.status = "confirmed", !.age = 0] \in Action
      BY <2>2, ActionField, FixedTyped
    <2>4. [actions EXCEPT ![h].status = "confirmed", ![h].age = 0] \in [Hashes -> Action]
      BY <1>1, <2>3 DEF TypeOK
    <2>5. QED
      BY <2>4 DEF ApplyOwnFill, TypeOK
  <1>5. failures' \in [SellReasons -> SUBSET (Nat \X Nat \X Nat)]
    BY DEF ApplyOwnFill, TypeOK
  <1>6. buyRow' \in BuyRow /\ attempts' \in [Hashes -> {"none", "pending", "confirmed", "replaced", "failed"}]
    BY ResolveTyped DEF ApplyOwnFill, TypeOK
  <1>7. recorded' \subseteq Hashes
    BY <1>1 DEF ApplyOwnFill, TypeOK
  <1>8. faults' \in 0 .. MaxFaults
    BY FaultTyped DEF ApplyOwnFill, TypeOK
  <1>9. QED
    BY <1>2, <1>3, <1>4, <1>5, <1>6, <1>7, <1>8 DEF ApplyOwnFill, TypeOK, ticker, feeds, chain

\* Decide keeps every variable in its type.
LEMMA TypeDecide ==
  ASSUME TypeOK, NEW t \in Threads, Decide(t) PROVE TypeOK'
  <1>. DEFINE reason == Evaluate(Want(job[t].evt), position)
  <1>1. reason \in Reasons \cup {"none"} /\ position \in Position
    BY EvaluateTyped DEF TypeOK
  <1>2. lock' \in Threads \cup {"free"}
    BY ReturnTyped DEF Decide
  <1>3. pc' \in [Threads -> PCs]
    BY ReturnTyped, GotoTyped DEF Decide, PCs
  <1>4. job' \in [Threads -> Job]
    <2>1. FullSell(reason, position) \in BOOLEAN
      BY DEF FullSell, ForceFull
    <2>. HIDE DEF reason
    <2>2. [job EXCEPT ![t].reason = reason] \in [Threads -> Job]
      BY <1>1, JobField DEF TypeOK
    <2>3. [job EXCEPT ![t].reason = reason, ![t].snap = position] \in [Threads -> Job]
      BY <1>1, <2>2, JobField
    <2>4. [job EXCEPT ![t].reason = reason, ![t].snap = position,
                      ![t].full = FullSell(reason, position)] \in [Threads -> Job]
      BY <2>1, <2>3, JobField
    <2>5. QED
      BY <2>2, <2>4, ReturnTyped DEF Decide, reason
  <1>5. QED
    BY <1>2, <1>3, <1>4 DEF Decide, TypeOK, tables, ticker, feeds, chain

\* Preflight keeps every variable in its type.
LEMMA TypePreflight ==
  ASSUME TypeOK, NEW t \in Threads, Preflight(t) PROVE TypeOK'
  <1>1. faults' \in 0 .. MaxFaults
    BY FaultTyped DEF Preflight, TypeOK
  <1>2. lock' \in Threads \cup {"free"}
    BY ReturnTyped DEF Preflight, TypeOK
  <1>3. pc' \in [Threads -> PCs]
    BY ReturnTyped, GotoTyped DEF Preflight, PCs
  <1>4. job' \in [Threads -> Job]
    BY ReturnTyped, JobField DEF Preflight, TypeOK
  <1>5. QED
    BY <1>1, <1>2, <1>3, <1>4 DEF Preflight, TypeOK, tables, ticker, feeds, chain

\* ClearUntradeable keeps every variable in its type.
LEMMA TypeClearUntradeable ==
  ASSUME TypeOK, NEW t \in Threads, ClearUntradeable(t) PROVE TypeOK'
  <1>1. position' \in Position /\ failures' \in [SellReasons -> SUBSET (Nat \X Nat \X Nat)]
    BY FixedTyped DEF ClearUntradeable, ZeroPosition
  <1>2. QED
    BY <1>1, ReturnTyped DEF ClearUntradeable, TypeOK, ticker, feeds, chain

\* MarkStrategyEvent keeps every variable in its type.
LEMMA TypeMarkStrategyEvent ==
  ASSUME TypeOK, LocalsOK, NEW t \in Threads, MarkStrategyEvent(t) PROVE TypeOK'
  <1>1. pc' \in [Threads -> PCs] /\ job' \in [Threads -> Job] /\ lock' \in Threads \cup {"free"}
    BY ReturnTyped, GotoTyped DEF MarkStrategyEvent, TypeOK, PCs
  <1>2. seen' \subseteq Events
    BY DEF MarkStrategyEvent, LocalsOK, Local, TypeOK
  <1>3. QED
    BY <1>1, <1>2 DEF MarkStrategyEvent, TypeOK, ticker, feeds, chain

\* PersistPendingBuy keeps every variable in its type.
LEMMA TypePersistPendingBuy ==
  ASSUME TypeOK, NEW t \in Threads, PersistPendingBuy(t) PROVE TypeOK'
  <1>1. pc' \in [Threads -> PCs] /\ job' \in [Threads -> Job] /\ lock' \in Threads \cup {"free"}
    BY ReturnTyped, GotoTyped DEF PersistPendingBuy, TypeOK, PCs
  <1>2. attempts' \in [Hashes -> {"none", "pending", "confirmed", "replaced", "failed"}]
    BY DEF PersistPendingBuy, TypeOK
  <1>3. buyRow' \in BuyRow
    <2>1. [NoRow EXCEPT !.status = "pending"] \in BuyRow
      BY FixedTyped, RowField
    <2>2. [NoRow EXCEPT !.status = "pending", !.old = buyRow.old] \in BuyRow
      BY <2>1, RowField DEF TypeOK, BuyRow
    <2>3. buyRow.count + 1 \in Nat
      BY DEF TypeOK, BuyRow
    <2>4. [buyRow EXCEPT !.count = buyRow.count + 1] \in BuyRow
      BY <2>3, RowField DEF TypeOK
    <2>5. [buyRow EXCEPT !.count = buyRow.count + 1, !.age = 0] \in BuyRow
      BY <2>4, RowField, FixedTyped
    <2>6. QED
      BY <2>2, <2>5, FixedTyped DEF PersistPendingBuy, TypeOK
  <1>4. QED
    BY <1>1, <1>2, <1>3 DEF PersistPendingBuy, TypeOK, ticker, feeds, chain

\* SaveCooldown keeps every variable in its type.
LEMMA TypeSaveCooldown ==
  ASSUME TypeOK, NEW t \in Threads, SaveCooldown(t) PROVE TypeOK'
  <1>1. position' \in Position
    <2>1. job[t].snap \in Position
      BY DEF TypeOK, Job
    <2>2. QED
      BY <2>1, PositionField DEF SaveCooldown
  <1>2. pc' \in [Threads -> PCs]
    BY GotoTyped DEF SaveCooldown, PCs
  <1>3. QED
    BY <1>1, <1>2 DEF SaveCooldown, TypeOK, ticker, feeds, chain

\* What follows a failed broadcast is typed.
LEMMA FailedTyped ==
  ASSUME TypeOK, NEW t \in Threads, Failed(t)
  PROVE  /\ pc' \in [Threads -> PCs] /\ job' \in [Threads -> Job]
         /\ lock' \in Threads \cup {"free"} /\ buyRow' \in BuyRow
  BY ReturnTyped, GotoTyped, FixedTyped DEF Failed, TypeOK, PCs

\* The transaction a goroutine submits, and the nonce it takes.
LEMMA SubmittedTyped ==
  ASSUME TypeOK, NEW t \in Threads, NEW h \in Hashes
  PROVE  /\ NonceFor(job[t].reason) \in Nat \ {0}
         /\ Submitted(h, job[t]) \in [Hashes -> Tx]
  <1>1. NonceFor(job[t].reason) \in Nat \ {0}
    BY DEF NonceFor, TypeOK, BuyRow
  <1>2. job[t] \in Job
    BY DEF TypeOK
  <1>3. Quantity(job[t]) \in Nat
    BY <1>2, ConstantsAssumption DEF Quantity, Lesser, Job, Position, ConstantsAssumption
  <1>4. [state |-> "pool", side |-> IF IsBuy(job[t].reason) THEN "buy" ELSE "sell",
         qty |-> Quantity(job[t]), nonce |-> NonceFor(job[t].reason),
         key |-> IF job[t].evt = NoEvent THEN ScheduledKey ELSE job[t].evt] \in Tx
    BY <1>1, <1>2, <1>3 DEF Tx, Job
  <1>5. QED
    BY <1>1, <1>4 DEF Submitted, TypeOK

\* Broadcast keeps every variable in its type.
LEMMA TypeBroadcast ==
  ASSUME TypeOK, NEW t \in Threads, Broadcast(t) PROVE TypeOK'
  <1>1. faults' \in 0 .. MaxFaults
    BY FaultTyped DEF Broadcast, TypeOK
  <1>2. tx' \in [Hashes -> Tx]
    BY SubmittedTyped DEF Broadcast, TypeOK
  <1>3. nextNonce' \in Nat \ {0}
    BY DEF Broadcast, TypeOK
  <1>4. pc' \in [Threads -> PCs]
    BY FailedTyped, GotoTyped DEF Broadcast, PCs
  <1>5. job' \in [Threads -> Job]
    BY FailedTyped, JobField DEF Broadcast, TypeOK
  <1>6. lock' \in Threads \cup {"free"} /\ buyRow' \in BuyRow
    BY FailedTyped DEF Broadcast, TypeOK
  <1>7. QED
    BY <1>1, <1>2, <1>3, <1>4, <1>5, <1>6 DEF Broadcast, TypeOK, ticker, feeds

\* UpdatePendingBroadcast keeps every variable in its type.
LEMMA TypeUpdatePendingBroadcast ==
  ASSUME TypeOK, LocalsOK, NEW t \in Threads, UpdatePendingBroadcast(t) PROVE TypeOK'
  <1>. DEFINE h == job[t].hash
  <1>1. h \in Hashes /\ tx[h].nonce \in Nat
    BY DEF UpdatePendingBroadcast, LocalsOK, Local, TypeOK, Tx
  <1>2. pc' \in [Threads -> PCs] /\ job' \in [Threads -> Job] /\ lock' \in Threads \cup {"free"}
    BY ReturnTyped, GotoTyped DEF UpdatePendingBroadcast, TypeOK, PCs
  <1>3. buyRow' \in BuyRow
    <2>1. [buyRow EXCEPT !.hash = h] \in BuyRow
      BY <1>1, RowField DEF TypeOK
    <2>2. [buyRow EXCEPT !.hash = h, !.nonce = tx[h].nonce] \in BuyRow
      BY <1>1, <2>1, RowField
    <2>3. [buyRow EXCEPT !.hash = h, !.nonce = tx[h].nonce, !.age = 0] \in BuyRow
      BY <2>2, RowField, FixedTyped
    <2>4. QED
      BY <2>3 DEF UpdatePendingBroadcast, TypeOK
  <1>4. attempts' \in [Hashes -> {"none", "pending", "confirmed", "replaced", "failed"}]
    BY DEF UpdatePendingBroadcast, TypeOK
  <1>5. own' \subseteq Hashes
    BY <1>1 DEF UpdatePendingBroadcast, TypeOK
  <1>6. QED
    BY <1>2, <1>3, <1>4, <1>5 DEF UpdatePendingBroadcast, TypeOK, ticker, feeds, chain

\* SavePendingAction keeps every variable in its type.
LEMMA TypeSavePendingAction ==
  ASSUME TypeOK, NEW t \in Threads, SavePendingAction(t) PROVE TypeOK'
  <1>. DEFINE filled == job[t].hash \in recorded
              snap == IF filled /\ ~IsBuy(job[t].reason) THEN position ELSE EmptyPosition
  <1>1. [job EXCEPT ![t].filled = filled] \in [Threads -> Job]
    <2>1. filled \in BOOLEAN
      OBVIOUS
    <2>2. QED
      BY <2>1, JobField DEF TypeOK
  <1>2. snap \in Position
    BY FixedTyped DEF TypeOK
  <1>3. job' \in [Threads -> Job]
    <2>. HIDE DEF snap, filled
    <2>1. [job EXCEPT ![t].filled = filled, ![t].snap = snap] \in [Threads -> Job]
      BY <1>1, <1>2, JobField
    <2>2. QED
      BY <2>1 DEF SavePendingAction, snap, filled
  <1>4. pc' \in [Threads -> PCs]
    BY GotoTyped DEF SavePendingAction, PCs
  <1>5. QED
    BY <1>3, <1>4 DEF SavePendingAction, TypeOK, tables, ticker, feeds, chain

\* SaveFilledSell keeps every variable in its type.
LEMMA TypeSaveFilledSell ==
  ASSUME TypeOK, NEW t \in Threads, SaveFilledSell(t) PROVE TypeOK'
  <1>. DEFINE p == job[t].snap
              r == job[t].reason
              level == IF r = "profit_sell" THEN p.level + 1 ELSE p.level
              sched == IF r = "scheduled_sell" /\ p.amount > 0 THEN "future" ELSE p.sched
  <1>1. /\ p \in Position /\ level \in Nat
        /\ sched \in {"none", "future", "due"}
    BY DEF TypeOK, Job, Position
  <1>2. [p EXCEPT !.level = level] \in Position
    BY <1>1, PositionField
  <1>3. [p EXCEPT !.level = level, !.sched = sched] \in Position
    <2>. HIDE DEF sched, level, p
    <2>. QED
      BY <1>1, <1>2, PositionField
  <1>4. position' \in Position
    BY <1>3 DEF SaveFilledSell, WithReason, Position
  <1>5. pc' \in [Threads -> PCs]
    BY GotoTyped DEF SaveFilledSell, PCs
  <1>6. QED
    BY <1>4, <1>5 DEF SaveFilledSell, TypeOK, ticker, feeds, chain

\* InsertPendingAction keeps every variable in its type.
LEMMA TypeInsertPendingAction ==
  ASSUME TypeOK, LocalsOK, NEW t \in Threads, InsertPendingAction(t) PROVE TypeOK'
  <1>1. job[t].hash \in Hashes /\ job[t] \in Job
    BY DEF InsertPendingAction, LocalsOK, Local, TypeOK
  <1>2. pc' \in [Threads -> PCs] /\ job' \in [Threads -> Job] /\ lock' \in Threads \cup {"free"}
    BY ReturnTyped, GotoTyped DEF InsertPendingAction, TypeOK, PCs
  <1>3. actions' \in [Hashes -> Action]
    BY <1>1 DEF InsertPendingAction, TypeOK, Action, Ages, Job
  <1>4. buyRow' \in BuyRow /\ attempts' \in [Hashes -> {"none", "pending", "confirmed", "replaced", "failed"}]
    BY ResolveTyped DEF InsertPendingAction, TypeOK
  <1>5. own' \subseteq Hashes
    BY <1>1 DEF InsertPendingAction, TypeOK
  <1>6. faults' \in 0 .. MaxFaults
    BY FaultTyped DEF InsertPendingAction, TypeOK
  <1>7. QED
    BY <1>2, <1>3, <1>4, <1>5, <1>6 DEF InsertPendingAction, TypeOK, ticker, feeds, chain

\* RecordSellFailure keeps every variable in its type.
LEMMA TypeRecordSellFailure ==
  ASSUME TypeOK, NEW t \in Threads, RecordSellFailure(t) PROVE TypeOK'
  <1>1. Snapshot(position) \in Nat \X Nat \X Nat
    BY DEF Snapshot, TypeOK, Position
  <1>2. failures' \in [SellReasons -> SUBSET (Nat \X Nat \X Nat)]
    BY <1>1 DEF RecordSellFailure, TypeOK
  <1>3. pc' \in [Threads -> PCs]
    BY GotoTyped DEF RecordSellFailure, PCs
  <1>4. QED
    BY <1>2, <1>3 DEF RecordSellFailure, TypeOK, ticker, feeds, chain

\* ReadWalletAfterFailure keeps every variable in its type.
LEMMA TypeReadWalletAfterFailure ==
  ASSUME TypeOK, NEW t \in Threads, ReadWalletAfterFailure(t) PROVE TypeOK'
  <1>1. position' \in Position
    BY PositionField DEF ReadWalletAfterFailure, TypeOK
  <1>2. pc' \in [Threads -> PCs] /\ job' \in [Threads -> Job] /\ lock' \in Threads \cup {"free"}
    BY ReturnTyped, GotoTyped DEF ReadWalletAfterFailure, TypeOK, PCs
  <1>3. faults' \in 0 .. MaxFaults
    BY FaultTyped DEF ReadWalletAfterFailure, TypeOK
  <1>4. QED
    BY <1>1, <1>2, <1>3 DEF ReadWalletAfterFailure, TypeOK, ticker, feeds, chain

\* ResetPosition keeps every variable in its type.
LEMMA TypeResetPosition ==
  ASSUME TypeOK, NEW t \in Threads, ResetPosition(t) PROVE TypeOK'
  <1>1. position' \in Position /\ failures' \in [SellReasons -> SUBSET (Nat \X Nat \X Nat)]
    BY FixedTyped DEF ResetPosition, ZeroPosition
  <1>2. actions' \in [Hashes -> Action]
    <2>1. ASSUME NEW h \in Hashes
          PROVE  [actions[h] EXCEPT !.status = "reverted", !.age = 0] \in Action
      <3>1. [actions[h] EXCEPT !.status = "reverted"] \in Action
        BY ActionField DEF TypeOK
      <3>2. QED
        BY <3>1, ActionField, FixedTyped
    <2>2. QED
      BY <2>1 DEF ResetPosition, TypeOK
  <1>3. QED
    BY <1>1, <1>2, ReturnTyped DEF ResetPosition, TypeOK, ticker, feeds, chain

\* Arrive keeps every variable in its type.
LEMMA TypeArrive ==
  ASSUME TypeOK, NEW t \in Threads, NEW x \in Events, Arrive(t, x)
  PROVE  pc' \in [Threads -> PCs] /\ job' \in [Threads -> Job]
  <1>0. PICK low \in LowValue :
            UNCHANGED <<pc, job>> \/
            (Goto(t, "arrived") /\
             job' = [job EXCEPT ![t] = [NoJob EXCEPT !.evt = x, !.isOwn = Recognised(x, low)]])
    BY DEF Arrive
  <1>. DEFINE mine == Recognised(x, low)
  <1>1. mine \in BOOLEAN
    BY DEF Recognised
  <1>2. [NoJob EXCEPT !.evt = x] \in Job
    BY FixedTyped DEF Job
  <1>3. [NoJob EXCEPT !.evt = x, !.isOwn = mine] \in Job
    <2>. HIDE DEF mine
    <2>. QED
      BY <1>1, <1>2 DEF Job
  <1>4. pc' \in [Threads -> PCs]
    BY <1>0, GotoTyped DEF TypeOK, PCs
  <1>5. job' \in [Threads -> Job]
    BY <1>0, <1>3 DEF TypeOK
  <1>6. QED
    BY <1>4, <1>5

\* Hear keeps every variable in its type.
LEMMA TypeHear == ASSUME TypeOK, Hear PROVE TypeOK'
  <1>1. PICK x \in (Ext \cup Mined) \ heard : Arrive("worker", x) /\ heard' = heard \cup {x}
    BY DEF Hear
  <1>2. x \in Events /\ "worker" \in Threads
    BY DEF Mined, Events, Threads
  <1>3. pc' \in [Threads -> PCs] /\ job' \in [Threads -> Job]
    BY <1>1, <1>2, TypeArrive
  <1>4. QED
    BY <1>1, <1>2, <1>3 DEF Hear, Arrive, TypeOK, tables, chain

\* ExpirePendingAction keeps every variable in its type.
LEMMA TypeExpirePendingAction == ASSUME TypeOK, LocalsOK, ExpirePendingAction PROVE TypeOK'
  <1>1. "tick" \in Threads
    BY DEF Threads
  <1>2. todo' \subseteq Events
    BY DEF ExpirePendingAction, TypeOK
  <1>3. actions' \in [Hashes -> Action]
    <2>1. NoAction \in Action
      BY DEF NoAction, Action, Ages
    <2>2. QED
      BY <2>1 DEF ExpirePendingAction, TypeOK
  <1>4. pc' \in [Threads -> PCs]
    BY <1>1, GotoTyped DEF ExpirePendingAction, TypeOK, PCs
  <1>5. job' \in [Threads -> Job]
    <2>1. PICK h \in todo : \/ job' = job
                            \/ /\ Expired(h)
                               /\ job' = [job EXCEPT !["tick"].reason = actions[h].reason]
      BY Zenon DEF ExpirePendingAction
    <2>2. actions[h].reason \in Reasons \cup {"none"}
      BY DEF TypeOK, Action, LocalsOK, ExpirePendingAction
    <2>3. [job EXCEPT !["tick"].reason = actions[h].reason] \in [Threads -> Job]
      BY <1>1, <2>2, JobField DEF TypeOK
    <2>4. QED
      BY <2>1, <2>3 DEF TypeOK
  <1>6. QED
    BY <1>2, <1>3, <1>4, <1>5 DEF ExpirePendingAction, TypeOK, feeds, chain

\* The queries of the ticker that select nothing, or end a list.
LEMMA TypeTickQueries ==
  ASSUME TypeOK, SelectExpired \/ ExpireDone \/ PollDone PROVE TypeOK'
  <1>1. todo' \subseteq Events /\ phase' \in Phases
    BY DEF SelectExpired, ExpireDone, PollDone, ExpiredRows, Events, TypeOK, Phases
  <1>2. QED
    BY <1>1 DEF SelectExpired, ExpireDone, PollDone, TypeOK, tables, feeds, chain

\* SelectExpiredBuy keeps every variable in its type.
LEMMA TypeSelectExpiredBuy == ASSUME TypeOK, SelectExpiredBuy PROVE TypeOK'
  <1>1. buyRow.hash \in Hashes \cup {NoHash} /\ "tick" \in Threads
    BY DEF TypeOK, BuyRow, Threads
  <1>2. job' \in [Threads -> Job]
    <2>1. job \in [Threads -> Job]
      BY DEF TypeOK
    <2>2. [job EXCEPT !["tick"].hash = buyRow.hash] \in [Threads -> Job]
      BY <1>1, <2>1, JobField
    <2>3. job' = [job EXCEPT !["tick"].hash = buyRow.hash] \/ job' = job
      BY DEF SelectExpiredBuy
    <2>4. QED
      BY <2>1, <2>2, <2>3
  <1>3. phase' \in Phases
    BY DEF SelectExpiredBuy, Phases
  <1>4. QED
    BY <1>2, <1>3 DEF SelectExpiredBuy, TypeOK, tables, feeds, chain

\* DeleteExpiredBuy keeps every variable in its type.
LEMMA TypeDeleteExpiredBuy == ASSUME TypeOK, DeleteExpiredBuy PROVE TypeOK'
  <1>1. job' \in [Threads -> Job] /\ buyRow' \in BuyRow
    BY FixedTyped DEF DeleteExpiredBuy, TypeOK
  <1>2. attempts' \in [Hashes -> {"none", "pending", "confirmed", "replaced", "failed"}]
    BY DEF DeleteExpiredBuy, TypeOK
  <1>3. phase' \in Phases
    BY DEF DeleteExpiredBuy, Phases
  <1>4. QED
    BY <1>1, <1>2, <1>3 DEF DeleteExpiredBuy, TypeOK, feeds, chain

\* SelectDue keeps every variable in its type.
LEMMA TypeSelectDue == ASSUME TypeOK, SelectDue PROVE TypeOK'
  <1>1. "tick" \in Threads /\ "scheduled_sell" \in Reasons /\ position \in Position
        /\ ForceFull(position) \in BOOLEAN
    BY DEF Threads, Reasons, SellReasons, TypeOK, ForceFull
  <1>2. job' \in [Threads -> Job]
    <2>1. [job EXCEPT !["tick"].reason = "scheduled_sell"] \in [Threads -> Job]
      BY <1>1, JobField DEF TypeOK
    <2>2. [job EXCEPT !["tick"].reason = "scheduled_sell", !["tick"].snap = position]
            \in [Threads -> Job]
      BY <1>1, <2>1, JobField
    <2>3. [job EXCEPT !["tick"].reason = "scheduled_sell", !["tick"].snap = position,
                      !["tick"].full = ForceFull(position)] \in [Threads -> Job]
      BY <1>1, <2>2, JobField
    <2>4. QED
      BY <2>3 DEF SelectDue, TypeOK
  <1>3. pc' \in [Threads -> PCs]
    BY <1>1, GotoTyped DEF SelectDue, TypeOK, PCs
  <1>4. phase' \in Phases
    BY DEF SelectDue, Phases
  <1>5. QED
    BY <1>2, <1>3, <1>4 DEF SelectDue, TypeOK, tables, feeds, chain

\* ClaimDue keeps every variable in its type.
LEMMA TypeClaimDue == ASSUME TypeOK, ClaimDue PROVE TypeOK'
  <1>1. "tick" \in Threads
    BY DEF Threads
  <1>2. position' \in Position
    BY PositionField DEF ClaimDue, TypeOK
  <1>3. pc' \in [Threads -> PCs] /\ job' \in [Threads -> Job] /\ lock' \in Threads \cup {"free"}
    BY <1>1, ReturnTyped, GotoTyped DEF ClaimDue, TypeOK, PCs
  <1>4. QED
    BY <1>2, <1>3 DEF ClaimDue, TypeOK, ticker, feeds, chain

\* Poll keeps every variable in its type.
LEMMA TypePoll == ASSUME TypeOK, Poll PROVE TypeOK'
  <1>1. todo' \subseteq Events
    BY ConstantsAssumption DEF Poll, TypeOK, PolledFills, Mined, Events, ConstantsAssumption
  <1>2. faults' \in 0 .. MaxFaults
    BY FaultTyped DEF Poll, TypeOK
  <1>3. phase' \in Phases
    BY DEF Poll, Phases
  <1>4. QED
    BY <1>1, <1>2, <1>3 DEF Poll, TypeOK, tables, feeds, chain

\* PollEvent keeps every variable in its type.
LEMMA TypePollEvent == ASSUME TypeOK, PollEvent PROVE TypeOK'
  <1>1. PICK x \in todo : Arrive("tick", x) /\ todo' = todo \ {x} /\ polled' = polled \cup {x}
    BY DEF PollEvent
  <1>2. x \in Events /\ "tick" \in Threads
    BY DEF TypeOK, Threads
  <1>3. pc' \in [Threads -> PCs] /\ job' \in [Threads -> Job]
    BY <1>1, <1>2, TypeArrive
  <1>4. QED
    BY <1>1, <1>2, <1>3 DEF PollEvent, Arrive, TypeOK, tables, chain

\* Elapse keeps every variable in its type.
LEMMA TypeElapse == ASSUME TypeOK, NEW long \in BOOLEAN, Elapse(long) PROVE TypeOK'
  <1>1. position' \in Position
    BY DEF Elapse, TypeOK, Position
  <1>2. actions' \in [Hashes -> Action]
    BY DEF Elapse, TypeOK, Action, Ages, Lesser, NoAction
  <1>3. buyRow' \in BuyRow
    <2>1. ASSUME NEW a \in Ages
          PROVE  [buyRow EXCEPT !.age = a, !.old = @ \/ long] \in BuyRow
      <3>1. [buyRow EXCEPT !.age = a] \in BuyRow
        BY RowField DEF TypeOK
      <3>2. QED
        BY <3>1, RowField DEF BuyRow
    <2>2. QED
      <3>1. Lesser(buyRow.age + 1, 2) \in Ages /\ Lesser(buyRow.age + 1, 1) \in Ages
            /\ 2 \in Ages /\ 1 \in Ages
        BY DEF TypeOK, BuyRow, Lesser, Ages
      <3>2. PICK a \in Ages : buyRow' = IF buyRow.status = "none" THEN NoRow
                                        ELSE [buyRow EXCEPT !.age = a, !.old = @ \/ long]
        BY <3>1 DEF Elapse
      <3>3. QED
        BY <2>1, <3>2, FixedTyped
  <1>4. QED
    BY <1>1, <1>2, <1>3 DEF Elapse, TypeOK, ticker, feeds, chain

\* Mine keeps every variable in its type.
LEMMA TypeMine == ASSUME TypeOK, Mine PROVE TypeOK'
  <1>1. ASSUME NEW h \in Hashes, NEW s \in {"mined", "reverted"}
        PROVE  Included(h, s) \in [Hashes -> Tx]
    BY DEF Included, TypeOK, Tx
  <1>2. tx' \in [Hashes -> Tx]
    BY <1>1 DEF Mine
  <1>3. wallet' \in Nat
    BY DEF Mine, TypeOK, Tx
  <1>4. faults' \in 0 .. MaxFaults
    BY FaultTyped DEF Mine, TypeOK
  <1>5. QED
    BY <1>2, <1>3, <1>4 DEF Mine, TypeOK, tables, ticker, feeds

\* Crash keeps every variable in its type.
LEMMA TypeCrash == ASSUME TypeOK, Crash PROVE TypeOK'
  <1>1. pc' \in [Threads -> PCs] /\ job' \in [Threads -> Job] /\ lock' \in Threads \cup {"free"}
    BY FixedTyped DEF Crash, PCs
  <1>2. own' \subseteq Hashes /\ heard' \subseteq Events /\ polled' \subseteq Events
    BY DEF Crash, Preloaded, TypeOK, Mined, Events
  <1>3. faults' \in 0 .. MaxFaults
    BY FaultTyped DEF Crash
  <1>4. phase' \in Phases /\ todo' \subseteq Events
    BY DEF Crash, Phases
  <1>5. QED
    BY <1>1, <1>2, <1>3, <1>4 DEF Crash, TypeOK, tables, chain

\* Each action keeps every variable in its set.
LEMMA TypeStep == ASSUME TypeOK, LocalsOK, [Next]_vars PROVE TypeOK'
  <1>1. ASSUME NEW t \in Threads, ProcessStep(t) PROVE TypeOK'
    BY <1>1, TypeApplyOwnFill, TypeDecide, TypePreflight, TypeClearUntradeable,
       TypeMarkStrategyEvent, TypePersistPendingBuy, TypeSaveCooldown, TypeBroadcast,
       TypeUpdatePendingBroadcast, TypeSavePendingAction, TypeSaveFilledSell,
       TypeInsertPendingAction, TypeRecordSellFailure, TypeReadWalletAfterFailure,
       TypeResetPosition
    DEF ProcessStep
  <1>2. ASSUME TickStep PROVE TypeOK'
    BY <1>2, TypeTickQueries, TypeExpirePendingAction, TypeSelectExpiredBuy,
       TypeDeleteExpiredBuy, TypeSelectDue, TypeClaimDue, TypePoll, TypePollEvent
    DEF TickStep
  <1>3. CASE UNCHANGED vars
    BY <1>3 DEF vars, TypeOK, tables, ticker, feeds, chain
  <1>4. QED
    BY <1>1, <1>2, <1>3, TypeHear, TypeElapse, TypeMine, TypeCrash DEF Next

-----------------------------------------------------------------------------
(* The local variables of the two goroutines.                              *)

\* Only a broadcast and the chain change the transactions.
LEMMA TxChange ==
  ASSUME [Next]_vars PROVE UNCHANGED tx \/ (\E t \in Threads : Broadcast(t)) \/ Mine
  <1>1. ASSUME NEW t \in Threads, ProcessStep(t) PROVE UNCHANGED tx \/ Broadcast(t)
    BY <1>1 DEF ProcessStep, chain,
       ApplyOwnFill, Decide, Preflight, ClearUntradeable, MarkStrategyEvent,
       PersistPendingBuy, SaveCooldown, UpdatePendingBroadcast, SavePendingAction,
       SaveFilledSell, InsertPendingAction, RecordSellFailure, ReadWalletAfterFailure,
       ResetPosition
  <1>2. ASSUME TickStep PROVE UNCHANGED tx
    BY <1>2 DEF TickStep, chain, SelectExpired, ExpirePendingAction, ExpireDone,
       SelectExpiredBuy, DeleteExpiredBuy, SelectDue, ClaimDue, Poll, PollEvent, PollDone,
       Arrive
  <1>3. UNCHANGED vars \/ Hear \/ Crash \/ (\E long \in BOOLEAN : Elapse(long)) => UNCHANGED tx
    BY DEF vars, chain, Hear, Arrive, Crash, Elapse
  <1>4. QED
    BY <1>1, <1>2, <1>3 DEF Next

\* A transaction once sent stays sent and keeps its side, its key and its
\* quantity; a mined one stays mined.
LEMMA TxStable ==
  ASSUME TypeOK, [Next]_vars, NEW h \in Hashes, tx[h].state # "none"
  PROVE  /\ tx'[h].state # "none" /\ tx'[h].side = tx[h].side
         /\ tx'[h].key = tx[h].key /\ tx'[h].qty = tx[h].qty
         /\ tx[h].state = "mined" => tx'[h].state = "mined"
  <1>1. CASE UNCHANGED tx
    BY <1>1
  <1>2. ASSUME NEW t \in Threads, Broadcast(t), tx' # tx PROVE tx'[h] = tx[h]
    <2>1. PICK g \in Hashes : tx[g].state = "none" /\ tx' = Submitted(g, job[t])
      BY <1>2 DEF Broadcast
    <2>2. QED
      BY <2>1 DEF Submitted, TypeOK
  <1>3. CASE Mine
    <2>1. PICK g \in Hashes, s \in {"mined", "reverted"} :
             tx[g].state = "pool" /\ tx' = Included(g, s)
      BY <1>3 DEF Mine
    <2>2. tx \in [Hashes -> Tx]
      BY DEF TypeOK
    <2>3. QED
      BY <2>1, <2>2 DEF Included, Tx
  <1>4. QED
    BY <1>1, <1>2, <1>3, TxChange

\* A mined transaction stays mined.
LEMMA MinedStable ==
  ASSUME TypeOK, [Next]_vars, NEW h \in Hashes, tx[h].state = "mined"
  PROVE  tx'[h].state = "mined"
  BY TxStable

\* A step of one goroutine leaves the locals and the mutex of the other alone.
LEMMA ProcessFrame ==
  ASSUME TypeOK, NEW t \in Threads, ProcessStep(t)
  PROVE  /\ \A u \in Threads \ {t} : pc'[u] = pc[u] /\ job'[u] = job[u]
         /\ \/ lock' = lock
            \/ lock = "free" /\ lock' = t
            \/ lock = t /\ lock' = "free"
         /\ UNCHANGED <<phase, todo>>
  <1>0. pc \in [Threads -> PCs] /\ job \in [Threads -> Job]
    BY DEF TypeOK
  <1>1. ASSUME Return(t)
        PROVE  /\ \A u \in Threads \ {t} : pc'[u] = pc[u] /\ job'[u] = job[u]
               /\ lock' = IF lock = t THEN "free" ELSE lock
    BY <1>0, <1>1 DEF Return, Goto
  <1>2. ASSUME NEW label, Goto(t, label) PROVE \A u \in Threads \ {t} : pc'[u] = pc[u]
    BY <1>2 DEF Goto, TypeOK
  <1>3. CASE ApplyOwnFill(t) \/ Preflight(t) \/ ClearUntradeable(t) \/ MarkStrategyEvent(t)
             \/ PersistPendingBuy(t)
    BY <1>1, <1>2, <1>3
    DEF TypeOK, ApplyOwnFill, Preflight, ClearUntradeable, MarkStrategyEvent,
        PersistPendingBuy, ticker
  <1>4. CASE SaveCooldown(t) \/ Broadcast(t) \/ UpdatePendingBroadcast(t) \/ SavePendingAction(t)
             \/ SaveFilledSell(t) \/ InsertPendingAction(t)
    BY <1>1, <1>2, <1>4
    DEF TypeOK, SaveCooldown, Broadcast, Failed, UpdatePendingBroadcast, SavePendingAction,
        SaveFilledSell, InsertPendingAction, ticker
  <1>5. CASE RecordSellFailure(t) \/ ReadWalletAfterFailure(t) \/ ResetPosition(t)
    BY <1>1, <1>2, <1>5
    DEF TypeOK, RecordSellFailure, ReadWalletAfterFailure, ResetPosition, ticker
  <1>6. CASE Decide(t)
    BY <1>1, <1>2, <1>6 DEF TypeOK, Decide, MayEnter, ticker
  <1>7. QED
    BY <1>3, <1>4, <1>5, <1>6 DEF ProcessStep

\* What a goroutine knows holds while the other one moves.
LEMMA LocalOther ==
  ASSUME TypeOK, LocalsOK, NEW t \in Threads, ProcessStep(t), NEW u \in Threads \ {t}
  PROVE  Local(u)'
  <1>1. pc'[u] = pc[u] /\ job'[u] = job[u] /\ (lock = u => lock' = u)
    BY ProcessFrame DEF Threads
  <1>2. job[u].isOwn => tx'[job[u].evt].state = "mined"
    BY MinedStable DEF LocalsOK, Local, Next
  <1>3. QED
    BY <1>1, <1>2 DEF LocalsOK, Local

\* Each step keeps what its goroutine knows.
LEMMA LocalReturn ==
  ASSUME TypeOK, NEW t \in Threads, Return(t) PROVE Local(t)'
  BY DEF Return, Goto, Local, NoJob, TypeOK, Threads

\* A step of Process keeps what the goroutine that takes it relies on.
LEMMA LocalSelf ==
  ASSUME TypeOK, LocalsOK, NEW t \in Threads, ProcessStep(t) PROVE Local(t)'
  <1>0. pc \in [Threads -> PCs] /\ job \in [Threads -> Job] /\ Local(t)
    BY DEF TypeOK, LocalsOK
  <1>00. NoEvent \notin Events
    BY ConstantsAssumption DEF ConstantsAssumption, Events
  <1>1. job[t].isOwn => tx'[job[t].evt].state = "mined"
    BY MinedStable DEF LocalsOK, Local, Next
  <1>2. CASE Return(t)
    BY <1>2, LocalReturn
  <1>3. CASE Decide(t) /\ ~Return(t)
    BY <1>0, <1>1, <1>3 DEF Decide, Local, Goto, Job
  <1>4. CASE Preflight(t) /\ ~Return(t)
    BY <1>0, <1>1, <1>4 DEF Preflight, Local, Goto, Job
  <1>5. CASE MarkStrategyEvent(t) /\ ~Return(t)
    BY <1>0, <1>1, <1>5 DEF MarkStrategyEvent, Local, Goto
  <1>6. CASE PersistPendingBuy(t) /\ ~Return(t)
    BY <1>0, <1>00, <1>1, <1>6 DEF PersistPendingBuy, Local, Goto
  <1>7. CASE SaveCooldown(t) /\ ~Return(t)
    BY <1>0, <1>00, <1>1, <1>7 DEF SaveCooldown, Local, Goto
  <1>8. CASE Broadcast(t) /\ ~Return(t)
    BY <1>0, <1>1, <1>8 DEF Broadcast, Failed, Local, Goto, Job
  <1>9. CASE UpdatePendingBroadcast(t) /\ ~Return(t)
    BY <1>0, <1>1, <1>9 DEF UpdatePendingBroadcast, Local, Goto
  <1>10. CASE SavePendingAction(t) \/ SaveFilledSell(t)
    BY <1>0, <1>1, <1>10 DEF SavePendingAction, SaveFilledSell, Local, Goto, Job
  <1>11. CASE InsertPendingAction(t) /\ ~Return(t)
    BY <1>0, <1>1, <1>11 DEF InsertPendingAction, Local, Goto
  <1>12. CASE RecordSellFailure(t) \/ (ReadWalletAfterFailure(t) /\ ~Return(t))
    BY <1>0, <1>1, <1>12 DEF RecordSellFailure, ReadWalletAfterFailure, Local, Goto
  <1>13. QED
    BY <1>2, <1>3, <1>4, <1>5, <1>6, <1>7, <1>8, <1>9, <1>10, <1>11, <1>12
    DEF ProcessStep, ApplyOwnFill, ClearUntradeable, ResetPosition

\* A step of Process keeps what both goroutines rely on.
LEMMA LocalsProcess ==
  ASSUME TypeOK, LocalsOK, NEW t \in Threads, ProcessStep(t) PROVE LocalsOK'
  <1>1. UNCHANGED <<phase, todo>>
    BY ProcessFrame
  <1>2. \A h \in Hashes : tx[h].state = "mined" => tx'[h].state = "mined"
    BY MinedStable DEF Next
  <1>3. \A u \in Threads : Local(u)'
    BY LocalOther, LocalSelf
  <1>4. QED
    BY <1>1, <1>2, <1>3 DEF LocalsOK

\* The ticker and the websocket take up an event, or go on with the round.
LEMMA LocalArrive ==
  ASSUME TypeOK, LocalsOK, NEW t \in Threads, NEW x \in Events, Arrive(t, x),
         x \in Hashes => tx[x].state = "mined"
  PROVE  \A u \in Threads : Local(u)'
  <1>0. pc \in [Threads -> PCs] /\ job \in [Threads -> Job] /\ \A u \in Threads : Local(u)
    BY DEF TypeOK, LocalsOK
  <1>1. tx' = tx /\ lock' = lock
    BY DEF Arrive, chain
  <1>2. CASE UNCHANGED <<pc, job>>
    BY <1>0, <1>1, <1>2 DEF Local
  <1>3. CASE ~UNCHANGED <<pc, job>>
    <2>0. PICK low \in LowValue :
              /\ Goto(t, "arrived")
              /\ job' = [job EXCEPT ![t] = [NoJob EXCEPT !.evt = x, !.isOwn = Recognised(x, low)]]
      BY <1>3 DEF Arrive
    <2>. DEFINE j == [NoJob EXCEPT !.evt = x, !.isOwn = Recognised(x, low)]
    <2>1. pc' = [pc EXCEPT ![t] = "arrived"] /\ job' = [job EXCEPT ![t] = j]
      BY <2>0 DEF Goto
    <2>2. j.evt = x /\ (j.isOwn => x \in Hashes)
      BY DEF NoJob, Recognised
    <2>3. Local(t)'
      <3>. HIDE DEF j
      <3>. QED
        BY <1>0, <1>1, <2>1, <2>2 DEF Local
    <2>4. ASSUME NEW u \in Threads \ {t} PROVE Local(u)'
      BY <1>0, <1>1, <2>1 DEF Local
    <2>5. QED
      BY <2>3, <2>4
  <1>4. QED
    BY <1>2, <1>3

\* The ticker's queries and the arrival of an event keep it too.
LEMMA LocalsOther ==
  ASSUME TypeOK, LocalsOK, TickStep \/ Hear PROVE LocalsOK'
  <1>0. /\ pc \in [Threads -> PCs] /\ job \in [Threads -> Job]
        /\ \A u \in Threads : Local(u)
        /\ {"tick", "worker"} \subseteq Threads /\ todo \subseteq Events
    BY DEF TypeOK, LocalsOK, Threads
  <1>1. CASE Hear
    <2>1. PICK x \in (Ext \cup Mined) \ heard : Arrive("worker", x)
      BY <1>1 DEF Hear
    <2>2. x \in Events /\ (x \in Hashes => tx[x].state = "mined")
      BY ConstantsAssumption DEF Mined, Events, ConstantsAssumption
    <2>3. \A u \in Threads : Local(u)'
      BY <1>0, <2>1, <2>2, LocalArrive
    <2>4. UNCHANGED <<phase, todo, tx>>
      BY <1>1 DEF Hear, Arrive, chain
    <2>5. QED
      BY <2>3, <2>4 DEF LocalsOK
  <1>2. CASE PollEvent
    <2>1. PICK x \in todo : Arrive("tick", x) /\ todo' = todo \ {x}
      BY <1>2 DEF PollEvent
    <2>2. x \in Events /\ (x \in Hashes => tx[x].state = "mined")
      BY <1>0, <1>2 DEF PollEvent, LocalsOK
    <2>3. \A u \in Threads : Local(u)'
      BY <1>0, <2>1, <2>2, LocalArrive
    <2>4. UNCHANGED <<phase, tx>> /\ phase = "polling"
      BY <1>2 DEF PollEvent, Arrive, chain
    <2>5. QED
      BY <2>1, <2>3, <2>4 DEF LocalsOK
  <1>3. CASE SelectExpired \/ ExpireDone \/ Poll \/ PollDone
    <2>1. /\ phase' \notin {"expire", "polling"} => todo' = {}
          /\ phase' = "expire" => todo' \subseteq Hashes
          /\ phase' = "polling" => \A h \in todo' \cap Hashes : tx[h].state = "mined"
      BY <1>3, ConstantsAssumption
      DEF SelectExpired, ExpireDone, Poll, PollDone, ExpiredRows, PolledFills, Mined,
          ConstantsAssumption, LocalsOK
    <2>2. UNCHANGED <<pc, job, lock, tx>>
      BY <1>3 DEF SelectExpired, ExpireDone, Poll, PollDone, chain
    <2>3. QED
      BY <1>0, <2>1, <2>2 DEF LocalsOK, Local
  <1>4. CASE ExpirePendingAction
    <2>1. UNCHANGED <<lock, tx, phase>> /\ phase = "expire" /\ todo' \subseteq todo
      BY <1>4 DEF ExpirePendingAction, chain
    <2>2. \A u \in Threads : Local(u)'
      <3>1. /\ \A u \in Threads \ {"tick"} : pc'[u] = pc[u] /\ job'[u] = job[u]
            /\ UNCHANGED <<pc, job>> \/ /\ pc'["tick"] = "record"
                                        /\ job'["tick"].evt = job["tick"].evt
                                        /\ job'["tick"].isOwn = job["tick"].isOwn
            /\ pc["tick"] = "idle"
        BY <1>0, <1>4 DEF ExpirePendingAction, Goto, Job
      <3>2. QED
        BY <1>0, <2>1, <3>1 DEF Local
    <2>3. QED
      BY <2>1, <2>2 DEF LocalsOK
  <1>5. CASE SelectExpiredBuy \/ DeleteExpiredBuy
    <2>1. /\ UNCHANGED <<lock, tx, pc, todo>> /\ pc["tick"] = "idle"
          /\ phase \in {"buys", "dropBuy"} /\ phase' \in {"dropBuy", "sched"}
      BY <1>5 DEF SelectExpiredBuy, DeleteExpiredBuy, chain
    <2>2. /\ \A u \in Threads \ {"tick"} : job'[u] = job[u]
          /\ \/ job'["tick"].evt = NoEvent /\ job'["tick"].isOwn = FALSE
             \/ job'["tick"].evt = job["tick"].evt /\ job'["tick"].isOwn = job["tick"].isOwn
      BY <1>0, <1>5 DEF SelectExpiredBuy, DeleteExpiredBuy, NoJob, Job
    <2>3. \A u \in Threads : Local(u)'
      BY <1>0, <2>1, <2>2 DEF Local
    <2>4. QED
      BY <2>1, <2>3 DEF LocalsOK
  <1>6. CASE SelectDue
    <2>1. /\ UNCHANGED <<lock, tx, todo>> /\ pc["tick"] = "idle"
          /\ phase = "sched" /\ phase' = "poll"
      BY <1>6 DEF SelectDue, chain
    <2>2. /\ \A u \in Threads \ {"tick"} : pc'[u] = pc[u] /\ job'[u] = job[u]
          /\ UNCHANGED <<pc, job>> \/ /\ pc'["tick"] = "preflight"
                                      /\ job'["tick"].evt = job["tick"].evt
                                      /\ job'["tick"].isOwn = job["tick"].isOwn
                                      /\ job'["tick"].reason = "scheduled_sell"
      BY <1>0, <1>6 DEF SelectDue, Goto, Job
    <2>3. \A u \in Threads : Local(u)'
      BY <1>0, <2>1, <2>2 DEF Local, IsBuy
    <2>4. QED
      BY <2>1, <2>3 DEF LocalsOK
  <1>7. CASE ClaimDue
    <2>1. UNCHANGED <<tx, todo, phase>>
      BY <1>7 DEF ClaimDue, ticker, chain
    <2>2. CASE Return("tick")
      <3>1. Local("tick")' /\ Local("worker")'
        BY <1>0, <2>1, <2>2, LocalReturn DEF Return, Goto, Local, Threads
      <3>2. QED
        BY <2>1, <3>1 DEF LocalsOK, Threads
    <2>3. CASE ~Return("tick")
      <3>1. UNCHANGED <<lock, job>> /\ pc["tick"] = "claim" /\ pc' = [pc EXCEPT !["tick"] = "broadcast"]
        BY <1>7, <2>3 DEF ClaimDue, Goto
      <3>2. \A u \in Threads : Local(u)'
        BY <1>0, <2>1, <3>1 DEF Local
      <3>3. QED
        BY <2>1, <3>2 DEF LocalsOK
    <2>4. QED
      BY <2>2, <2>3
  <1>8. QED
    BY <1>1, <1>2, <1>3, <1>4, <1>5, <1>6, <1>7 DEF TickStep

\* Every step keeps it.
LEMMA LocalsStep ==
  ASSUME TypeOK, LocalsOK, [Next]_vars PROVE LocalsOK'
  <1>1. \A h \in Hashes : tx[h].state = "mined" => tx'[h].state = "mined"
    BY MinedStable
  <1>2. CASE Crash
    BY <1>2 DEF Crash, LocalsOK, Local, NoJob
  <1>3. CASE Mine \/ (\E long \in BOOLEAN : Elapse(long)) \/ UNCHANGED vars
    <2>1. UNCHANGED <<pc, job, lock, phase, todo>>
      BY <1>3 DEF Mine, Elapse, vars, ticker
    <2>2. QED
      BY <1>1, <2>1 DEF LocalsOK, Local
  <1>4. QED
    BY <1>2, <1>3, LocalsProcess, LocalsOther DEF Next

\* The type invariant: every variable keeps to its set.
THEOREM TypeCorrect == Spec => []TypeOK
  <1>1. Init => TypeOK /\ LocalsOK
    <2>1. Init => LocalsOK
      BY DEF Init, LocalsOK, Local, NoJob
    <2>2. QED
      BY <2>1, TypeInit
  <1>2. TypeOK /\ LocalsOK /\ [Next]_vars => TypeOK' /\ LocalsOK'
    BY TypeStep, LocalsStep
  <1>3. QED
    BY <1>1, <1>2, PTL DEF Spec

-----------------------------------------------------------------------------
(* An event is acted upon once.                                            *)

\* A goroutine between markStrategyEvent and the answer of the node.
Acting(t) == pc[t] \in {"persist", "cooldown", "broadcast"} /\ job[t].evt \in Events

\* An event has its key in strategy_events from before the broadcast on, and the
\* two goroutines never act upon the same one.
OnceInv ==
  /\ EventSubmittedOnce
  /\ \A h \in Sent : tx[h].key \in Events => tx[h].key \in seen
  /\ \A t \in Threads : Acting(t) => /\ job[t].evt \in seen
                                     /\ \A h \in Sent : tx[h].key # job[t].evt
  /\ \A t, u \in Threads : t # u /\ Acting(t) /\ Acting(u) => job[t].evt # job[u].evt

\* A step that submits nothing and starts no action.
LEMMA OnceFrame ==
  ASSUME OnceInv, Sent' = Sent, \A h \in Sent : tx'[h].key = tx[h].key,
         seen \subseteq seen',
         \A t \in Threads : Acting(t)' => Acting(t) /\ job'[t].evt = job[t].evt
  PROVE  OnceInv'
  BY DEF OnceInv, EventSubmittedOnce

\* markStrategyEvent admits the first goroutine that brings an event.
LEMMA OnceMark ==
  ASSUME TypeOK, LocalsOK, OnceInv, NEW t \in Threads, MarkStrategyEvent(t) PROVE OnceInv'
  <1>0. pc \in [Threads -> PCs] /\ job \in [Threads -> Job]
    BY DEF TypeOK
  <1>1. tx' = tx /\ Sent' = Sent
    BY DEF MarkStrategyEvent, chain, Sent
  <1>2. CASE Return(t)
    <2>1. \A u \in Threads : Acting(u)' => Acting(u) /\ job'[u].evt = job[u].evt
      BY <1>0, <1>2 DEF Return, Goto, Acting
    <2>2. seen \subseteq seen'
      BY DEF MarkStrategyEvent
    <2>3. QED
      BY <1>1, <2>1, <2>2, OnceFrame
  <1>3. CASE ~Return(t)
    <2>1. job[t].evt \notin seen /\ seen' = seen \cup {job[t].evt} /\ UNCHANGED job
      BY <1>3 DEF MarkStrategyEvent, AlreadyMarked
    <2>2. \A u \in Threads \ {t} : Acting(u)' => Acting(u)
      BY <1>0, <1>3, <2>1 DEF MarkStrategyEvent, Goto, Acting
    <2>3. EventSubmittedOnce'
      BY <1>1 DEF OnceInv, EventSubmittedOnce
    <2>4. \A u \in Threads : Acting(u)' => /\ job'[u].evt \in seen'
                                           /\ \A h \in Sent' : tx'[h].key # job'[u].evt
      <3>1. ASSUME Acting(t)', NEW h \in Sent PROVE tx[h].key # job[t].evt
        BY <2>1, <3>1 DEF OnceInv, Acting
      <3>2. QED
        BY <1>1, <2>1, <2>2, <3>1 DEF OnceInv
    <2>5. \A u \in Threads \ {t} : Acting(u)' => job'[u].evt # job'[t].evt
      BY <2>1, <2>2 DEF OnceInv
    <2>6. \A u, v \in Threads : u # v /\ Acting(u)' /\ Acting(v)' => job'[u].evt # job'[v].evt
      BY <2>1, <2>2, <2>5 DEF OnceInv
    <2>7. QED
      BY <1>1, <2>1, <2>3, <2>4, <2>6 DEF OnceInv
  <1>4. QED
    BY <1>2, <1>3

\* The one broadcast of a marked event is the first of its key.
LEMMA OnceBroadcast ==
  ASSUME TypeOK, LocalsOK, OnceInv, NEW t \in Threads, Broadcast(t) PROVE OnceInv'
  <1>0. pc \in [Threads -> PCs] /\ job \in [Threads -> Job] /\ tx \in [Hashes -> Tx]
    BY DEF TypeOK
  <1>1. pc[t] = "broadcast" /\ pc'[t] \in {"idle", "record", "update", "save"}
    BY <1>0 DEF Broadcast, Failed, Return, Goto
  <1>2. \A u \in Threads \ {t} : pc'[u] = pc[u] /\ job'[u] = job[u]
    BY ProcessFrame DEF ProcessStep
  <1>3. \A u \in Threads : Acting(u)' => u # t /\ Acting(u) /\ job'[u].evt = job[u].evt
    BY <1>1, <1>2 DEF Acting
  <1>4. UNCHANGED seen
    BY DEF Broadcast
  <1>5. CASE UNCHANGED tx
    <2>1. Sent' = Sent
      BY <1>5 DEF Sent
    <2>2. QED
      BY <1>3, <1>4, <1>5, <2>1, OnceFrame
  <1>6. CASE tx' # tx
    <2>. DEFINE key == IF job[t].evt = NoEvent THEN ScheduledKey ELSE job[t].evt
    <2>1. PICK h \in Hashes : tx[h].state = "none" /\ tx' = Submitted(h, job[t])
      BY <1>6 DEF Broadcast
    <2>2. /\ Sent' = Sent \cup {h} /\ h \notin Sent /\ tx'[h].key = key
          /\ \A g \in Sent : tx'[g] = tx[g]
      BY <1>0, <2>1 DEF Sent, Submitted
    <2>3. key \in Events => key = job[t].evt /\ Acting(t)
      BY <1>1, ConstantsAssumption DEF ConstantsAssumption, Events, Acting
    <2>4. key \in Events => key \in seen /\ \A g \in Sent : tx[g].key # key
      BY <2>3 DEF OnceInv
    <2>5. EventSubmittedOnce'
      <3>. HIDE DEF key
      <3>. QED
        BY <2>2, <2>4 DEF OnceInv, EventSubmittedOnce
    <2>6. \A u \in Threads : Acting(u)' => \A g \in Sent' : tx'[g].key # job'[u].evt
      <3>1. ASSUME NEW u \in Threads, Acting(u)' PROVE key # job[u].evt
        BY <1>3, <3>1, <2>3 DEF OnceInv, Acting
      <3>. HIDE DEF key
      <3>. QED
        BY <1>3, <2>2, <3>1 DEF OnceInv
    <2>. HIDE DEF key
    <2>7. QED
      BY <1>3, <1>4, <2>2, <2>4, <2>5, <2>6 DEF OnceInv
  <1>7. QED
    BY <1>5, <1>6

\* The other steps of a goroutine.
LEMMA OnceProcess ==
  ASSUME TypeOK, LocalsOK, OnceInv, NEW t \in Threads, ProcessStep(t) PROVE OnceInv'
  <1>0. pc \in [Threads -> PCs] /\ job \in [Threads -> Job]
    BY DEF TypeOK
  <1>1. CASE MarkStrategyEvent(t) \/ Broadcast(t)
    BY <1>1, OnceMark, OnceBroadcast
  <1>2. CASE ~(MarkStrategyEvent(t) \/ Broadcast(t))
    <2>1. UNCHANGED <<tx, seen>>
      BY <1>2 DEF ProcessStep, chain, tables,
         ApplyOwnFill, Decide, Preflight, ClearUntradeable,
         PersistPendingBuy, SaveCooldown, UpdatePendingBroadcast, SavePendingAction,
         SaveFilledSell, InsertPendingAction, RecordSellFailure, ReadWalletAfterFailure,
         ResetPosition
    <2>2. Acting(t)' => Acting(t) /\ job'[t].evt = job[t].evt
      <3>1. CASE Return(t)
        BY <1>0, <3>1 DEF Return, Goto, Acting
      <3>2. CASE PersistPendingBuy(t) /\ ~Return(t)
        BY <1>0, <3>2 DEF PersistPendingBuy, Goto, Acting
      <3>3. CASE SaveCooldown(t)
        BY <1>0, <3>3 DEF SaveCooldown, Goto, Acting
      <3>4. CASE Decide(t) /\ ~Return(t)
        BY <1>0, <3>4 DEF Decide, Goto, Acting
      <3>5. CASE Preflight(t) /\ ~Return(t)
        BY <1>0, <3>5 DEF Preflight, Goto, Acting
      <3>6. CASE /\ ~Return(t)
                 /\ \/ UpdatePendingBroadcast(t) \/ SavePendingAction(t) \/ SaveFilledSell(t)
                    \/ InsertPendingAction(t) \/ RecordSellFailure(t)
                    \/ ReadWalletAfterFailure(t)
        BY <1>0, <3>6
        DEF UpdatePendingBroadcast, SavePendingAction, SaveFilledSell, InsertPendingAction,
            RecordSellFailure, ReadWalletAfterFailure, Goto, Acting
      <3>7. QED
        BY <1>2, <3>1, <3>2, <3>3, <3>4, <3>5, <3>6
        DEF ProcessStep, ApplyOwnFill, ClearUntradeable, ResetPosition
    <2>3. \A u \in Threads : Acting(u)' => Acting(u) /\ job'[u].evt = job[u].evt
      BY <2>2, ProcessFrame DEF Acting
    <2>4. Sent' = Sent
      BY <2>1 DEF Sent
    <2>5. QED
      BY <2>1, <2>3, <2>4, OnceFrame
  <1>3. QED
    BY <1>1, <1>2

\* The ticker, the websocket and the environment start no action either.
LEMMA OnceOther ==
  ASSUME TypeOK, LocalsOK, OnceInv,
         TickStep \/ Hear \/ (\E long \in BOOLEAN : Elapse(long)) \/ Mine \/ Crash
  PROVE  OnceInv'
  <1>0. /\ pc \in [Threads -> PCs] /\ job \in [Threads -> Job] /\ tx \in [Hashes -> Tx]
        /\ {"tick", "worker"} \subseteq Threads
    BY DEF TypeOK, Threads
  <1>1. UNCHANGED seen
    BY DEF TickStep, Hear, Elapse, Mine, Crash, tables, Arrive, SelectExpired,
       ExpirePendingAction, ExpireDone, SelectExpiredBuy, DeleteExpiredBuy, SelectDue,
       ClaimDue, Poll, PollEvent, PollDone
  <1>2. Sent' = Sent /\ \A h \in Sent : tx'[h].key = tx[h].key
    <2>1. CASE Mine
      <3>1. PICK g \in Hashes, s \in {"mined", "reverted"} :
               tx[g].state = "pool" /\ tx' = Included(g, s)
        BY <2>1 DEF Mine
      <3>2. \A h \in Hashes : /\ tx'[h].key = tx[h].key
                              /\ tx'[h].state = "none" <=> tx[h].state = "none"
        BY <1>0, <3>1 DEF Included, Tx
      <3>3. QED
        BY <3>2 DEF Sent
    <2>2. CASE UNCHANGED tx
      BY <2>2 DEF Sent
    <2>3. QED
      BY <2>1, <2>2
      DEF TickStep, Hear, Elapse, Crash, chain, Arrive, SelectExpired,
          ExpirePendingAction, ExpireDone, SelectExpiredBuy, DeleteExpiredBuy, SelectDue,
          ClaimDue, Poll, PollEvent, PollDone
  <1>3. \A t \in Threads : Acting(t)' => Acting(t) /\ job'[t].evt = job[t].evt
    <2>1. CASE UNCHANGED pc /\ (Elapse(TRUE) \/ Elapse(FALSE) \/ Mine \/ SelectExpired \/ ExpireDone
                                \/ Poll \/ PollDone)
      BY <2>1 DEF Acting, Elapse, Mine, SelectExpired, ExpireDone, Poll, PollDone
    <2>2. CASE SelectExpiredBuy \/ DeleteExpiredBuy
      BY <1>0, <2>2 DEF Acting, SelectExpiredBuy, DeleteExpiredBuy
    <2>3. CASE Crash
      BY <2>3 DEF Crash, Acting
    <2>4. ASSUME NEW t \in Threads, NEW x, Arrive(t, x)
          PROVE  \A u \in Threads : Acting(u)' => Acting(u) /\ job'[u].evt = job[u].evt
      BY <1>0, <2>4 DEF Arrive, Goto, Acting
    <2>5. CASE Hear \/ PollEvent
      BY <1>0, <2>4, <2>5 DEF Hear, PollEvent
    <2>6. CASE ExpirePendingAction
      BY <1>0, <2>6 DEF ExpirePendingAction, Goto, Acting
    <2>7. CASE SelectDue
      BY <1>0, <2>7 DEF SelectDue, Goto, Acting
    <2>8. CASE ClaimDue
      <3>1. job["tick"].evt = NoEvent /\ NoEvent \notin Events
        BY <1>0, <2>8, ConstantsAssumption
        DEF ClaimDue, LocalsOK, Local, ConstantsAssumption, Events
      <3>2. QED
        BY <1>0, <2>8, <3>1 DEF ClaimDue, Return, Goto, Acting
    <2>9. QED
      BY <2>1, <2>2, <2>3, <2>5, <2>6, <2>7, <2>8
      DEF TickStep, Elapse, Mine, SelectExpired, ExpireDone, Poll, PollDone
  <1>4. QED
    BY <1>1, <1>2, <1>3, OnceFrame

\* An event of another account, or of the strategy, leads to one transaction at
\* most (markStrategyEvent), whatever is delivered twice, fails or crashes.
THEOREM SubmittedOnce == Spec => []EventSubmittedOnce
  <1>1. Init => TypeOK /\ LocalsOK /\ OnceInv
    <2>1. Init => LocalsOK
      BY DEF Init, LocalsOK, Local, NoJob
    <2>2. Init => OnceInv
      BY DEF Init, OnceInv, EventSubmittedOnce, Sent, Acting, NoTx
    <2>3. QED
      BY <2>1, <2>2, TypeInit
  <1>2. TypeOK /\ LocalsOK /\ OnceInv /\ [Next]_vars => OnceInv'
    <2>1. ASSUME OnceInv, UNCHANGED vars PROVE OnceInv'
      BY <2>1 DEF vars, tables, chain, OnceInv, EventSubmittedOnce, Sent, Acting
    <2>2. QED
      BY <2>1, OnceProcess, OnceOther DEF Next
  <1>3. TypeOK /\ LocalsOK /\ [Next]_vars => TypeOK' /\ LocalsOK'
    BY TypeStep, LocalsStep
  <1>4. OnceInv => EventSubmittedOnce
    BY DEF OnceInv
  <1>5. QED
    BY <1>1, <1>2, <1>3, <1>4, PTL DEF Spec

-----------------------------------------------------------------------------
(* Pending trades stay in the ownership cache.                             *)

\* What the tables call pending.
PendingTrade(h) ==
  \/ actions[h].status = "pending" \/ attempts[h] = "pending"
  \/ buyRow.status = "pending" /\ buyRow.hash = h

\* A step that writes no new pending row, or caches its hash, is safe.
LEMMA PendingFrame ==
  ASSUME PendingTradesRecognised, own \subseteq own',
         \A h \in Hashes : PendingTrade(h)' => PendingTrade(h) \/ h \in own'
  PROVE  PendingTradesRecognised'
  BY DEF PendingTradesRecognised, PendingTrade

\* The steps that write a pending row, or resolve one.
LEMMA PendingProcess ==
  ASSUME TypeOK, LocalsOK, PendingTradesRecognised, NEW t \in Threads, ProcessStep(t)
  PROVE  PendingTradesRecognised'
  <1>0. /\ job \in [Threads -> Job] /\ buyRow \in BuyRow
        /\ actions \in [Hashes -> Action]
        /\ attempts \in [Hashes -> {"none", "pending", "confirmed", "replaced", "failed"}]
    BY DEF TypeOK
  <1>00. NoHash \notin Hashes
    BY ConstantsAssumption DEF ConstantsAssumption
  <1>1. ASSUME NEW g
        PROVE  /\ \A h \in Hashes : Resolve(attempts, g)[h] = "pending" => attempts[h] = "pending"
               /\ ConfirmRow(buyRow).status # "pending"
    BY <1>0 DEF Resolve, ConfirmRow, BuyRow
  <1>2. CASE ApplyOwnFill(t)
    <2>1. own' = own
      BY <1>2 DEF ApplyOwnFill
    <2>2. \A h \in Hashes : actions'[h].status = "pending" => actions[h].status = "pending"
      BY <1>0, <1>2 DEF ApplyOwnFill, Action
    <2>3. \A h \in Hashes : attempts'[h] = "pending" => attempts[h] = "pending"
      BY <1>1, <1>2 DEF ApplyOwnFill
    <2>4. buyRow'.status = "pending" => buyRow' = buyRow
      BY <1>1, <1>2 DEF ApplyOwnFill
    <2>5. QED
      BY <2>1, <2>2, <2>3, <2>4, PendingFrame DEF PendingTrade
  <1>3. CASE PersistPendingBuy(t)
    <2>1. UNCHANGED <<own, actions>>
      BY <1>3 DEF PersistPendingBuy
    <2>2. \A h \in Hashes : attempts'[h] = "pending" => attempts[h] = "pending"
      BY <1>0, <1>3 DEF PersistPendingBuy
    <2>3. buyRow'.status = "pending" /\ buyRow'.hash # NoHash
          => buyRow.status = "pending" /\ buyRow'.hash = buyRow.hash
      <3>. DEFINE fresh == [NoRow EXCEPT !.status = "pending", !.old = buyRow.old]
                  again == [buyRow EXCEPT !.count = @ + 1, !.age = 0]
      <3>1. \/ buyRow' \in {buyRow, NoRow, fresh}
            \/ buyRow.status = "pending" /\ buyRow' = again
        BY <1>3 DEF PersistPendingBuy
      <3>2. again.hash = buyRow.hash
        BY <1>0 DEF BuyRow
      <3>3. fresh.hash = NoHash /\ NoRow.hash = NoHash
        BY DEF NoRow
      <3>. HIDE DEF fresh, again
      <3>4. QED
        BY <3>1, <3>2, <3>3
    <2>4. QED
      BY <1>00, <2>1, <2>2, <2>3, PendingFrame DEF PendingTrade
  <1>4. CASE Broadcast(t)
    <2>1. UNCHANGED <<own, actions, attempts>>
      BY <1>4 DEF Broadcast
    <2>2. buyRow'.status = "pending" => buyRow' = buyRow
      BY <1>4 DEF Broadcast, Failed, NoRow
    <2>3. QED
      BY <2>1, <2>2, PendingFrame DEF PendingTrade
  <1>5. CASE UpdatePendingBroadcast(t)
    <2>1. UNCHANGED actions /\ own \subseteq own'
      BY <1>5 DEF UpdatePendingBroadcast
    <2>2. \A h \in Hashes : attempts'[h] = "pending" => attempts[h] = "pending" \/ h \in own'
      BY <1>0, <1>5 DEF UpdatePendingBroadcast
    <2>3. buyRow' = buyRow \/ buyRow'.hash \in own'
      BY <1>0, <1>5 DEF UpdatePendingBroadcast, BuyRow
    <2>4. QED
      BY <2>1, <2>2, <2>3, PendingFrame DEF PendingTrade
  <1>6. CASE InsertPendingAction(t)
    <2>1. own \subseteq own'
      BY <1>6 DEF InsertPendingAction
    <2>2. \A h \in Hashes : actions'[h].status = "pending"
                            => actions[h].status = "pending" \/ h \in own'
      BY <1>0, <1>6 DEF InsertPendingAction
    <2>3. \A h \in Hashes : attempts'[h] = "pending" => attempts[h] = "pending"
      BY <1>1, <1>6 DEF InsertPendingAction
    <2>4. buyRow'.status = "pending" => buyRow' = buyRow
      BY <1>1, <1>6 DEF InsertPendingAction
    <2>5. QED
      BY <2>1, <2>2, <2>3, <2>4, PendingFrame DEF PendingTrade
  <1>7. CASE ResetPosition(t)
    <2>1. \A h \in Hashes : actions'[h].status = "pending" => actions[h].status = "pending"
      BY <1>0, <1>7 DEF ResetPosition, Action
    <2>2. UNCHANGED <<own, attempts, buyRow>>
      BY <1>7 DEF ResetPosition
    <2>3. QED
      BY <2>1, <2>2, PendingFrame DEF PendingTrade
  <1>8. CASE UNCHANGED <<own, actions, attempts, buyRow>>
    BY <1>8 DEF PendingTradesRecognised
  <1>9. QED
    BY <1>2, <1>3, <1>4, <1>5, <1>6, <1>7, <1>8
    DEF ProcessStep, tables, Decide, Preflight, ClearUntradeable, MarkStrategyEvent,
        SaveCooldown, SavePendingAction, SaveFilledSell, RecordSellFailure,
        ReadWalletAfterFailure

\* The ticker deletes rows only, and a restart reads them back.
LEMMA PendingOther ==
  ASSUME TypeOK, LocalsOK, PendingTradesRecognised,
         TickStep \/ Hear \/ (\E long \in BOOLEAN : Elapse(long)) \/ Mine \/ Crash
  PROVE  PendingTradesRecognised'
  <1>0. /\ buyRow \in BuyRow /\ actions \in [Hashes -> Action]
        /\ attempts \in [Hashes -> {"none", "pending", "confirmed", "replaced", "failed"}]
    BY DEF TypeOK
  <1>1. CASE ExpirePendingAction
    <2>1. UNCHANGED <<own, attempts, buyRow>>
      BY <1>1 DEF ExpirePendingAction
    <2>2. \A h \in Hashes : actions'[h].status = "pending" => actions[h].status = "pending"
      BY <1>0, <1>1 DEF ExpirePendingAction, NoAction
    <2>3. QED
      BY <2>1, <2>2, PendingFrame DEF PendingTrade
  <1>2. CASE DeleteExpiredBuy
    <2>1. UNCHANGED <<own, actions>> /\ (buyRow'.status = "pending" => buyRow' = buyRow)
      BY <1>2 DEF DeleteExpiredBuy, NoRow
    <2>2. \A h \in Hashes : attempts'[h] = "pending" => attempts[h] = "pending"
      BY <1>0, <1>2 DEF DeleteExpiredBuy
    <2>3. QED
      BY <2>1, <2>2, PendingFrame DEF PendingTrade
  <1>3. ASSUME NEW long \in BOOLEAN, Elapse(long) PROVE PendingTradesRecognised'
    <2>1. UNCHANGED <<own, attempts>>
      BY <1>3 DEF Elapse
    <2>2. \A h \in Hashes : actions'[h].status = "pending" => actions[h].status = "pending"
      BY <1>0, <1>3 DEF Elapse, NoAction, Action
    <2>3. buyRow'.status = "pending" => buyRow.status = "pending" /\ buyRow'.hash = buyRow.hash
      BY <1>0, <1>3 DEF Elapse, NoRow, BuyRow
    <2>4. QED
      BY <2>1, <2>2, <2>3, PendingFrame DEF PendingTrade
  <1>4. CASE Crash
    BY <1>4 DEF Crash, Preloaded, PendingTradesRecognised, tables
  <1>5. CASE UNCHANGED <<own, actions, attempts, buyRow>>
    BY <1>5 DEF PendingTradesRecognised
  <1>6. QED
    BY <1>1, <1>2, <1>3, <1>4, <1>5
    DEF TickStep, Hear, Mine, Arrive, tables, SelectExpired, ExpireDone, SelectExpiredBuy,
        SelectDue, ClaimDue, Poll, PollEvent, PollDone

\* No pending trade is forgotten, after a crash included: the restarted process
\* reads back every table that can name one (preloadOwnTransactionCache).
THEOREM PendingRecognised == Spec => []PendingTradesRecognised
  <1>1. Init => TypeOK /\ LocalsOK /\ PendingTradesRecognised
    <2>1. Init => LocalsOK
      BY DEF Init, LocalsOK, Local, NoJob
    <2>2. Init => PendingTradesRecognised
      BY DEF Init, PendingTradesRecognised, NoAction, NoRow
    <2>3. QED
      BY <2>1, <2>2, TypeInit
  <1>2. TypeOK /\ LocalsOK /\ PendingTradesRecognised /\ [Next]_vars => PendingTradesRecognised'
    <2>1. ASSUME PendingTradesRecognised, UNCHANGED vars PROVE PendingTradesRecognised'
      BY <2>1 DEF vars, tables, PendingTradesRecognised
    <2>2. QED
      BY <2>1, PendingProcess, PendingOther DEF Next
  <1>3. TypeOK /\ LocalsOK /\ [Next]_vars => TypeOK' /\ LocalsOK'
    BY TypeStep, LocalsStep
  <1>4. QED
    BY <1>1, <1>2, <1>3, PTL DEF Spec

-----------------------------------------------------------------------------
(* The pending row never names a recorded buy.                             *)

\* The row names a buy; so does the goroutine about to write it, and no fill is
\* accounted meanwhile because it holds the mutex.
StaleInv ==
  /\ NoStaleReplacementCandidate
  /\ \A h \in recorded : tx[h].state = "mined"
  /\ buyRow.hash \in Hashes => tx[buyRow.hash].side = "buy" /\ tx[buyRow.hash].state # "none"
  /\ \A t \in Threads : pc[t] = "update" =>
        /\ IsBuy(job[t].reason) /\ job[t].hash \notin recorded
        /\ tx[job[t].hash].side = "buy" /\ tx[job[t].hash].state # "none"

\* A step that records nothing and names no other hash in the row.
LEMMA StaleFrame ==
  ASSUME TypeOK, LocalsOK, StaleInv, [Next]_vars, UNCHANGED recorded,
         \/ buyRow'.hash = NoHash
         \/ buyRow'.hash = buyRow.hash /\ (buyRow'.status = "pending" => buyRow.status = "pending"),
         \A t \in Threads : pc'[t] = "update" =>
            /\ pc[t] = "update" /\ job'[t].hash = job[t].hash
            /\ job'[t].reason = job[t].reason
  PROVE  StaleInv'
  <1>1. recorded \subseteq Hashes /\ NoHash \notin Hashes
    BY ConstantsAssumption DEF TypeOK, ConstantsAssumption
  <1>2. NoStaleReplacementCandidate'
    BY <1>1 DEF StaleInv, NoStaleReplacementCandidate
  <1>3. \A h \in recorded' : tx'[h].state = "mined"
    BY <1>1, MinedStable DEF StaleInv
  <1>4. buyRow'.hash \in Hashes => tx'[buyRow'.hash].side = "buy" /\ tx'[buyRow'.hash].state # "none"
    BY <1>1, TxStable DEF StaleInv
  <1>5. ASSUME NEW t \in Threads, pc'[t] = "update"
        PROVE  /\ IsBuy(job'[t].reason) /\ job'[t].hash \notin recorded'
               /\ tx'[job'[t].hash].side = "buy" /\ tx'[job'[t].hash].state # "none"
    <2>1. job[t].hash \in Hashes
      BY <1>5 DEF LocalsOK, Local
    <2>2. QED
      BY <1>5, <2>1, TxStable DEF StaleInv
  <1>6. QED
    BY <1>2, <1>3, <1>4, <1>5 DEF StaleInv

\* The fill of a buy confirms the row it may name.
LEMMA StaleApplyOwnFill ==
  ASSUME TypeOK, LocalsOK, StaleInv, NEW t \in Threads, ApplyOwnFill(t) PROVE StaleInv'
  <1>0. pc \in [Threads -> PCs] /\ job \in [Threads -> Job] /\ buyRow \in BuyRow
    BY DEF TypeOK
  <1>. DEFINE h == job[t].evt
  <1>1. h \in Hashes /\ tx[h].state = "mined" /\ lock = "free" /\ tx' = tx
    BY DEF ApplyOwnFill, MayEnter, LocalsOK, Local, chain
  <1>2. \A u \in Threads : pc'[u] # "update"
    <2>1. \A u \in Threads : pc[u] # "update"
      BY <1>1 DEF LocalsOK, Local, StaleInv, Threads
    <2>2. QED
      BY <1>0, <2>1 DEF ApplyOwnFill, Return, Goto
  <1>3. recorded' \subseteq recorded \cup {h}
    BY DEF ApplyOwnFill
  <1>4. ConfirmRow(buyRow).hash = buyRow.hash /\ ConfirmRow(buyRow).status # "pending"
    BY <1>0 DEF ConfirmRow, BuyRow
  <1>5. buyRow'.hash = buyRow.hash
    BY <1>4 DEF ApplyOwnFill
  <1>6. NoStaleReplacementCandidate'
    <2>1. CASE tx[h].side = "buy" /\ recorded' # recorded
      <3>1. buyRow' = ConfirmRow(buyRow)
        BY <2>1 DEF ApplyOwnFill
      <3>2. QED
        BY <1>4, <3>1 DEF NoStaleReplacementCandidate
    <2>2. CASE recorded' = recorded
      BY <1>4, <1>5, <2>2 DEF ApplyOwnFill, StaleInv, NoStaleReplacementCandidate
    <2>3. CASE tx[h].side # "buy" /\ recorded' # recorded
      <3>1. buyRow' = buyRow /\ (buyRow.hash \in Hashes => buyRow.hash # h)
        BY <2>3 DEF ApplyOwnFill, StaleInv
      <3>2. QED
        BY <1>1, <1>3, <3>1 DEF StaleInv, NoStaleReplacementCandidate
    <2>4. QED
      BY <2>1, <2>2, <2>3
  <1>7. QED
    BY <1>1, <1>2, <1>3, <1>5, <1>6 DEF StaleInv

\* A new transaction is not recorded yet.
LEMMA StaleBroadcast ==
  ASSUME TypeOK, LocalsOK, StaleInv, NEW t \in Threads, Broadcast(t) PROVE StaleInv'
  <1>0. /\ pc \in [Threads -> PCs] /\ job \in [Threads -> Job] /\ buyRow \in BuyRow
        /\ tx \in [Hashes -> Tx] /\ recorded \subseteq Hashes
    BY DEF TypeOK
  <1>1. \A u \in Threads \ {t} : pc'[u] = pc[u] /\ job'[u] = job[u]
    BY ProcessFrame DEF ProcessStep
  <1>2. UNCHANGED recorded /\ (buyRow'.hash = NoHash \/ buyRow' = buyRow)
    BY DEF Broadcast, Failed, NoRow
  <1>3. CASE pc'[t] # "update"
    <2>1. \A u \in Threads : pc'[u] = "update" => /\ pc[u] = "update" /\ job'[u].hash = job[u].hash
                                                  /\ job'[u].reason = job[u].reason
      BY <1>1, <1>3
    <2>2. QED
      BY <1>2, <2>1, StaleFrame DEF Next, ProcessStep
  <1>4. CASE pc'[t] = "update"
    <2>1. PICK h \in Hashes : /\ tx[h].state = "none" /\ tx' = Submitted(h, job[t])
                              /\ IsBuy(job[t].reason) /\ job' = [job EXCEPT ![t].hash = h]
                              /\ buyRow' = buyRow
      BY <1>0, <1>4 DEF Broadcast, Failed, Return, Goto
    <2>2. /\ job'[t].hash = h /\ job'[t].reason = job[t].reason /\ h \notin recorded
          /\ tx'[h].side = "buy" /\ tx'[h].state # "none"
      BY <1>0, <2>1 DEF Submitted, Job, StaleInv
    <2>3. \A g \in Hashes : tx[g].state # "none" => tx'[g] = tx[g]
      BY <1>0, <2>1 DEF Submitted
    <2>4. ASSUME NEW u \in Threads \ {t}, pc'[u] = "update"
          PROVE  /\ IsBuy(job'[u].reason) /\ job'[u].hash \notin recorded'
                 /\ tx'[job'[u].hash].side = "buy" /\ tx'[job'[u].hash].state # "none"
      BY <1>1, <1>2, <2>3, <2>4 DEF StaleInv, LocalsOK, Local
    <2>5. \A g \in recorded' : tx'[g].state = "mined"
      BY <1>0, <1>2, <2>3 DEF StaleInv
    <2>6. NoStaleReplacementCandidate'
      BY <1>2, <2>1 DEF StaleInv, NoStaleReplacementCandidate
    <2>7. QED
      BY <1>2, <2>1, <2>2, <2>3, <2>4, <2>5, <2>6 DEF StaleInv
  <1>5. QED
    BY <1>3, <1>4

\* The hash written into the row is of an unrecorded buy: the mutex is held.
LEMMA StaleUpdate ==
  ASSUME TypeOK, LocalsOK, StaleInv, NEW t \in Threads, UpdatePendingBroadcast(t) PROVE StaleInv'
  <1>0. pc \in [Threads -> PCs] /\ job \in [Threads -> Job] /\ buyRow \in BuyRow
    BY DEF TypeOK
  <1>1. pc'[t] # "update" /\ \A u \in Threads \ {t} : pc'[u] = pc[u] /\ job'[u] = job[u]
    BY <1>0 DEF UpdatePendingBroadcast, Return, Goto
  <1>2. UNCHANGED <<recorded, tx>>
    BY DEF UpdatePendingBroadcast, chain
  <1>3. buyRow' = buyRow \/ buyRow'.hash = job[t].hash
    BY <1>0 DEF UpdatePendingBroadcast, BuyRow
  <1>4. /\ job[t].hash \notin recorded /\ tx[job[t].hash].side = "buy"
        /\ tx[job[t].hash].state # "none"
    BY DEF UpdatePendingBroadcast, StaleInv
  <1>5. QED
    BY <1>1, <1>2, <1>3, <1>4 DEF StaleInv, NoStaleReplacementCandidate

\* No step of Process leaves a recorded buy in a pending row.
LEMMA StaleProcess ==
  ASSUME TypeOK, LocalsOK, StaleInv, NEW t \in Threads, ProcessStep(t) PROVE StaleInv'
  <1>0. pc \in [Threads -> PCs] /\ job \in [Threads -> Job] /\ buyRow \in BuyRow
    BY DEF TypeOK
  <1>1. \A u \in Threads \ {t} : pc'[u] = pc[u] /\ job'[u] = job[u]
    BY ProcessFrame
  <1>2. CASE ApplyOwnFill(t) \/ Broadcast(t) \/ UpdatePendingBroadcast(t)
    BY <1>2, StaleApplyOwnFill, StaleBroadcast, StaleUpdate
  <1>3. CASE ~(ApplyOwnFill(t) \/ Broadcast(t) \/ UpdatePendingBroadcast(t))
    <2>1. UNCHANGED recorded
      BY <1>3 DEF ProcessStep, tables,
         Decide, Preflight, ClearUntradeable, MarkStrategyEvent,
         PersistPendingBuy, SaveCooldown, SavePendingAction,
         SaveFilledSell, InsertPendingAction, RecordSellFailure, ReadWalletAfterFailure,
         ResetPosition
    <2>2. pc'[t] # "update"
      <3>1. CASE Return(t)
        BY <1>0, <3>1 DEF Return, Goto
      <3>2. CASE Decide(t) \/ Preflight(t) \/ MarkStrategyEvent(t) \/ PersistPendingBuy(t)
                 \/ SaveCooldown(t)
        BY <1>0, <3>1, <3>2
        DEF Decide, Preflight, MarkStrategyEvent, PersistPendingBuy, SaveCooldown, Goto
      <3>3. CASE SavePendingAction(t) \/ SaveFilledSell(t) \/ InsertPendingAction(t)
                 \/ RecordSellFailure(t) \/ ReadWalletAfterFailure(t)
        BY <1>0, <3>1, <3>3
        DEF SavePendingAction, SaveFilledSell, InsertPendingAction, RecordSellFailure,
            ReadWalletAfterFailure, Goto
      <3>4. QED
        BY <1>3, <3>1, <3>2, <3>3 DEF ProcessStep, ClearUntradeable, ResetPosition
    <2>3. \/ buyRow'.hash = NoHash
          \/ buyRow'.hash = buyRow.hash /\ (buyRow'.status = "pending" => buyRow.status = "pending")
      <3>1. CASE PersistPendingBuy(t)
        <4>. DEFINE fresh == [NoRow EXCEPT !.status = "pending", !.old = buyRow.old]
                    again == [buyRow EXCEPT !.count = @ + 1, !.age = 0]
        <4>1. \/ buyRow' \in {buyRow, NoRow, fresh}
              \/ buyRow.status = "pending" /\ buyRow' = again
          BY <3>1 DEF PersistPendingBuy
        <4>2. again.hash = buyRow.hash
          BY <1>0 DEF BuyRow
        <4>3. fresh.hash = NoHash /\ NoRow.hash = NoHash
          BY DEF NoRow
        <4>. HIDE DEF fresh, again
        <4>4. QED
          BY <4>1, <4>2, <4>3
      <3>2. CASE InsertPendingAction(t)
        <4>1. ConfirmRow(buyRow).hash = buyRow.hash /\ ConfirmRow(buyRow).status # "pending"
          BY <1>0 DEF ConfirmRow, BuyRow
        <4>2. QED
          BY <3>2, <4>1 DEF InsertPendingAction
      <3>3. CASE UNCHANGED buyRow
        BY <3>3
      <3>4. QED
        BY <1>3, <3>1, <3>2, <3>3
        DEF ProcessStep, tables, Decide, Preflight, ClearUntradeable, MarkStrategyEvent,
            SaveCooldown, SavePendingAction, SaveFilledSell, RecordSellFailure,
            ReadWalletAfterFailure, ResetPosition
    <2>4. QED
      BY <1>1, <2>1, <2>2, <2>3, StaleFrame DEF Next
  <1>4. QED
    BY <1>2, <1>3

\* Nor does a step of the ticker, of the chain or of time.
LEMMA StaleOther ==
  ASSUME TypeOK, LocalsOK, StaleInv,
         TickStep \/ Hear \/ (\E long \in BOOLEAN : Elapse(long)) \/ Mine \/ Crash
  PROVE  StaleInv'
  <1>0. /\ pc \in [Threads -> PCs] /\ job \in [Threads -> Job] /\ buyRow \in BuyRow
        /\ {"tick", "worker"} \subseteq Threads
    BY DEF TypeOK, Threads
  <1>1. UNCHANGED recorded
    BY DEF TickStep, Hear, Elapse, Mine, Crash, tables, Arrive, SelectExpired,
       ExpirePendingAction, ExpireDone, SelectExpiredBuy, DeleteExpiredBuy, SelectDue,
       ClaimDue, Poll, PollEvent, PollDone
  <1>2. \/ buyRow'.hash = NoHash
        \/ buyRow'.hash = buyRow.hash /\ (buyRow'.status = "pending" => buyRow.status = "pending")
    <2>1. CASE UNCHANGED buyRow
      BY <2>1
    <2>2. CASE DeleteExpiredBuy
      BY <2>2 DEF DeleteExpiredBuy, NoRow
    <2>3. ASSUME NEW long \in BOOLEAN, Elapse(long)
          PROVE  \/ buyRow'.hash = NoHash
                 \/ buyRow'.hash = buyRow.hash /\ (buyRow'.status = "pending" => buyRow.status = "pending")
      BY <1>0, <2>3 DEF Elapse, NoRow, BuyRow
    <2>4. QED
      BY <2>1, <2>2, <2>3
      DEF TickStep, Hear, Mine, Crash, tables, Arrive, SelectExpired,
          ExpirePendingAction, ExpireDone, SelectExpiredBuy, SelectDue,
          ClaimDue, Poll, PollEvent, PollDone
  <1>3. \A t \in Threads : pc'[t] = "update" =>
           /\ pc[t] = "update" /\ job'[t].hash = job[t].hash /\ job'[t].reason = job[t].reason
    <2>1. ASSUME NEW t \in Threads, NEW x, Arrive(t, x)
          PROVE  \A u \in Threads : pc'[u] = "update" => pc[u] = "update" /\ job'[u] = job[u]
      BY <1>0, <2>1 DEF Arrive, Goto
    <2>2. CASE Hear \/ PollEvent
      BY <1>0, <2>1, <2>2 DEF Hear, PollEvent
    <2>3. CASE ExpirePendingAction \/ SelectDue
      BY <1>0, <2>3 DEF ExpirePendingAction, SelectDue, Goto
    <2>4. CASE SelectExpiredBuy \/ DeleteExpiredBuy
      BY <1>0, <2>4 DEF SelectExpiredBuy, DeleteExpiredBuy
    <2>5. CASE ClaimDue
      BY <1>0, <2>5 DEF ClaimDue, Return, Goto
    <2>6. CASE Crash
      BY <2>6 DEF Crash
    <2>7. CASE UNCHANGED <<pc, job>>
      BY <2>7
    <2>8. QED
      BY <2>2, <2>3, <2>4, <2>5, <2>6, <2>7
      DEF TickStep, Elapse, Mine, SelectExpired, ExpireDone, Poll, PollDone
  <1>4. QED
    BY <1>1, <1>2, <1>3, StaleFrame DEF Next

\* A replacement never bids for the nonce of a buy whose fill is recorded: the
\* row that names it is confirmed in the database transaction that records it.
THEOREM NoStaleCandidate == Spec => []NoStaleReplacementCandidate
  <1>1. Init => TypeOK /\ LocalsOK /\ StaleInv
    <2>1. Init => LocalsOK
      BY DEF Init, LocalsOK, Local, NoJob
    <2>2. Init => StaleInv
      BY ConstantsAssumption
      DEF Init, StaleInv, NoStaleReplacementCandidate, NoRow, ConstantsAssumption
    <2>3. QED
      BY <2>1, <2>2, TypeInit
  <1>2. TypeOK /\ LocalsOK /\ StaleInv /\ [Next]_vars => StaleInv'
    <2>1. ASSUME StaleInv, UNCHANGED vars PROVE StaleInv'
      BY <2>1 DEF vars, tables, chain, StaleInv, NoStaleReplacementCandidate
    <2>2. QED
      BY <2>1, StaleProcess, StaleOther DEF Next
  <1>3. TypeOK /\ LocalsOK /\ [Next]_vars => TypeOK' /\ LocalsOK'
    BY TypeStep, LocalsStep
  <1>4. StaleInv => NoStaleReplacementCandidate
    BY DEF StaleInv
  <1>5. QED
    BY <1>1, <1>2, <1>3, <1>4, PTL DEF Spec

-----------------------------------------------------------------------------
(* An empty position has no scheduled sell.                                *)

NoOrphan(p) == p.amount = 0 => p.sched = "none"

\* The copies of the position in the local variables are written back, and a
\* buy adds something.
OrphanInv ==
  /\ NoOrphan(position)
  /\ \A t \in Threads : NoOrphan(job[t].snap)
  /\ \A h \in Hashes : tx[h].state # "none" /\ tx[h].side = "buy" => tx[h].qty > 0

\* What each write of the position makes of its schedule.
LEMMA OrphanFields ==
  ASSUME NEW p \in Position
  PROVE  /\ \A q \in Nat : q > 0 => NoOrphan(AfterBuy(p, q))
         /\ \A q \in 0 .. p.amount : \A r : NoOrphan(p) => NoOrphan(AfterSell(p, q, r))
         /\ NoOrphan(p) => NoOrphan([p EXCEPT !.cooling = TRUE])
         /\ NoOrphan([p EXCEPT !.sched = "none"])
         /\ \A r : NoOrphan(p) => NoOrphan(WithReason(p, r))
         /\ p.amount > 0 => NoOrphan([p EXCEPT !.sched = "future"])
         /\ NoOrphan(EmptyPosition)
  <1>1. ASSUME NEW q \in Nat, q > 0 PROVE AfterBuy(p, q).amount # 0
    BY <1>1 DEF AfterBuy, Position
  <1>2. ASSUME NEW q \in 0 .. p.amount, NEW r
        PROVE  AfterSell(p, q, r).amount = 0 => AfterSell(p, q, r).sched = "none"
    BY DEF AfterSell, Position
  <1>3. ASSUME NEW r, NoOrphan(p) PROVE NoOrphan(WithReason(p, r))
    BY <1>3 DEF WithReason, NoOrphan, Position
  <1>4. QED
    BY <1>1, <1>2, <1>3 DEF NoOrphan, EmptyPosition, Position

\* A buy receives some tokens.
LEMMA OrphanQuantity ==
  ASSUME TypeOK, OrphanInv, [Next]_vars, NEW h \in Hashes,
         tx'[h].state # "none", tx'[h].side = "buy"
  PROVE  tx'[h].qty > 0
  <1>1. CASE tx[h].state # "none"
    BY <1>1, TxStable DEF OrphanInv
  <1>2. CASE tx[h].state = "none"
    <2>0. tx \in [Hashes -> Tx]
      BY DEF TypeOK
    <2>1. CASE Mine
      BY <1>2, <2>0, <2>1 DEF Mine, Included, Tx
    <2>2. ASSUME NEW t \in Threads, Broadcast(t) PROVE tx'[h].qty > 0
      <3>1. PICK g \in Hashes : tx' = Submitted(g, job[t])
        BY <1>2, <2>2 DEF Broadcast
      <3>2. g = h /\ tx'[h].side = IF IsBuy(job[t].reason) THEN "buy" ELSE "sell"
        BY <1>2, <2>0, <3>1 DEF Submitted
      <3>3. tx'[h].qty = BuyQty
        BY <2>0, <3>1, <3>2 DEF Submitted, Quantity
      <3>4. QED
        BY <3>3, ConstantsAssumption DEF ConstantsAssumption
    <2>3. QED
      BY <1>2, <2>1, <2>2, TxChange
  <1>3. QED
    BY <1>1, <1>2

\* A fill that empties the position clears its schedule.
LEMMA OrphanFill ==
  ASSUME TypeOK, LocalsOK, OrphanInv, NEW t \in Threads, ApplyOwnFill(t)
  PROVE  NoOrphan(position')
  <1>. DEFINE h == job[t].evt
  <1>1. h \in Hashes /\ tx[h].state = "mined" /\ tx[h] \in Tx
    BY DEF ApplyOwnFill, LocalsOK, Local, TypeOK
  <1>2. position \in Position /\ Sold(h) \in 0 .. position.amount
    BY <1>1 DEF TypeOK, Position, Tx, Sold, Lesser
  <1>3. tx[h].side = "buy" => tx[h].qty > 0 /\ tx[h].qty \in Nat
    BY <1>1 DEF OrphanInv, Tx
  <1>4. \/ UNCHANGED position
        \/ tx[h].side = "buy" /\ position' = AfterBuy(position, tx[h].qty)
        \/ \E r : position' = AfterSell(position, Sold(h), r)
    BY DEF ApplyOwnFill
  <1>5. CASE UNCHANGED position
    BY <1>5 DEF OrphanInv
  <1>6. CASE tx[h].side = "buy" /\ position' = AfterBuy(position, tx[h].qty)
    BY <1>2, <1>3, <1>6, OrphanFields
  <1>7. ASSUME NEW r, position' = AfterSell(position, Sold(h), r) PROVE NoOrphan(position')
    BY <1>2, <1>7, OrphanFields DEF OrphanInv
  <1>8. QED
    BY <1>4, <1>5, <1>6, <1>7

\* No step of Process writes, or loads, an empty position with a schedule.
LEMMA OrphanProcess ==
  ASSUME TypeOK, LocalsOK, OrphanInv, NEW t \in Threads, ProcessStep(t)
  PROVE  NoOrphan(position') /\ NoOrphan(job'[t].snap)
  <1>0. /\ job \in [Threads -> Job] /\ position \in Position /\ job[t].snap \in Position
        /\ NoOrphan(position) /\ NoOrphan(job[t].snap)
    BY DEF TypeOK, Job, OrphanInv
  <1>1. NoOrphan(position')
    <2>1. CASE SaveCooldown(t) \/ SaveFilledSell(t)
      BY <1>0, <2>1, OrphanFields DEF SaveCooldown, SaveFilledSell
    <2>2. CASE ClearUntradeable(t) \/ ResetPosition(t)
      BY <1>0, <2>2, OrphanFields DEF ClearUntradeable, ResetPosition, ZeroPosition
    <2>3. CASE ReadWalletAfterFailure(t)
      BY <1>0, <2>3, OrphanFields DEF ReadWalletAfterFailure
    <2>4. CASE UNCHANGED position
      BY <1>0, <2>4
    <2>5. QED
      BY <2>1, <2>2, <2>3, <2>4, OrphanFill
      DEF ProcessStep, tables, Decide, Preflight, MarkStrategyEvent, PersistPendingBuy,
          Broadcast, UpdatePendingBroadcast, SavePendingAction, InsertPendingAction,
          RecordSellFailure
  <1>2. NoOrphan(job'[t].snap)
    <2>1. CASE Return(t)
      BY <1>0, <2>1, OrphanFields DEF Return, NoJob
    <2>2. CASE Decide(t) /\ ~Return(t)
      BY <1>0, <2>2 DEF Decide, Job
    <2>3. CASE SavePendingAction(t)
      <3>1. job'[t].snap = position \/ job'[t].snap = EmptyPosition
        BY <1>0, <2>3 DEF SavePendingAction, Job
      <3>2. QED
        BY <1>0, <3>1, OrphanFields
    <2>4. CASE Preflight(t) \/ Broadcast(t)
      BY <1>0, <2>1, <2>4 DEF Preflight, Broadcast, Failed, Job
    <2>5. CASE UNCHANGED job
      BY <1>0, <2>5
    <2>6. QED
      BY <2>1, <2>2, <2>3, <2>4, <2>5
      DEF ProcessStep, ApplyOwnFill, ClearUntradeable, MarkStrategyEvent, PersistPendingBuy,
          SaveCooldown, UpdatePendingBroadcast, SaveFilledSell, InsertPendingAction,
          RecordSellFailure, ReadWalletAfterFailure, ResetPosition
  <1>3. QED
    BY <1>1, <1>2

\* Nor does a step of the ticker, of the chain or of time.
LEMMA OrphanOther ==
  ASSUME TypeOK, LocalsOK, OrphanInv,
         TickStep \/ Hear \/ (\E long \in BOOLEAN : Elapse(long)) \/ Mine \/ Crash
  PROVE  NoOrphan(position') /\ \A t \in Threads : NoOrphan(job'[t].snap)
  <1>0. /\ job \in [Threads -> Job] /\ position \in Position /\ NoOrphan(position)
        /\ \A t \in Threads : NoOrphan(job[t].snap)
        /\ {"tick", "worker"} \subseteq Threads
    BY DEF TypeOK, OrphanInv, Threads
  <1>1. NoOrphan(position')
    <2>1. CASE ClaimDue
      BY <1>0, <2>1, OrphanFields DEF ClaimDue
    <2>2. ASSUME NEW long \in BOOLEAN, Elapse(long) PROVE NoOrphan(position')
      BY <1>0, <2>2 DEF Elapse, NoOrphan, Position
    <2>3. CASE UNCHANGED position
      BY <1>0, <2>3
    <2>4. QED
      BY <2>1, <2>2, <2>3
      DEF TickStep, Hear, Mine, Crash, tables, Arrive, SelectExpired, ExpirePendingAction,
          ExpireDone, SelectExpiredBuy, DeleteExpiredBuy, SelectDue, Poll, PollEvent, PollDone
  <1>2. \A t \in Threads : NoOrphan(job'[t].snap)
    <2>1. NoOrphan(NoJob.snap)
      BY OrphanFields, <1>0 DEF NoJob
    <2>2. ASSUME NEW t \in Threads, NEW x, Arrive(t, x)
          PROVE  \A u \in Threads : NoOrphan(job'[u].snap)
      <3>1. \A u \in Threads : job'[u] = job[u] \/ job'[u].snap = NoJob.snap
        BY <1>0, <2>2 DEF Arrive, NoJob
      <3>2. QED
        BY <1>0, <2>1, <3>1
    <2>3. CASE Hear \/ PollEvent
      BY <1>0, <2>2, <2>3 DEF Hear, PollEvent
    <2>4. CASE ExpirePendingAction \/ SelectExpiredBuy
      <3>1. \A u \in Threads : job'[u].snap = job[u].snap
        BY <1>0, <2>4 DEF ExpirePendingAction, SelectExpiredBuy, Job
      <3>2. QED
        BY <1>0, <3>1
    <2>5. CASE DeleteExpiredBuy \/ ClaimDue
      <3>1. \A u \in Threads : job'[u].snap = job[u].snap \/ job'[u].snap = NoJob.snap
        BY <1>0, <2>5 DEF DeleteExpiredBuy, ClaimDue, Return
      <3>2. QED
        BY <1>0, <2>1, <3>1
    <2>6. CASE SelectDue
      <3>1. \A u \in Threads : job'[u].snap = job[u].snap \/ job'[u].snap = position
        BY <1>0, <2>6 DEF SelectDue, Job
      <3>2. QED
        BY <1>0, <3>1
    <2>7. CASE Crash
      BY <2>1, <2>7 DEF Crash
    <2>8. CASE UNCHANGED job
      BY <1>0, <2>8
    <2>9. QED
      BY <2>3, <2>4, <2>5, <2>6, <2>7, <2>8
      DEF TickStep, Elapse, Mine, SelectExpired, ExpireDone, Poll, PollDone
  <1>3. QED
    BY <1>1, <1>2

\* The schedule never points at an empty position, although the scheduler takes
\* no mutex and a filled sell writes back the position it read.
THEOREM NoOrphanScheduleEver == Spec => []NoOrphanSchedule
  <1>1. Init => TypeOK /\ LocalsOK /\ OrphanInv
    <2>1. Init => LocalsOK
      BY DEF Init, LocalsOK, Local, NoJob
    <2>2. Init => OrphanInv
      BY DEF Init, OrphanInv, NoOrphan, EmptyPosition, NoJob, NoTx
    <2>3. QED
      BY <2>1, <2>2, TypeInit
  <1>2. TypeOK /\ LocalsOK /\ OrphanInv /\ [Next]_vars => OrphanInv'
    <2>. SUFFICES ASSUME TypeOK, LocalsOK, OrphanInv, [Next]_vars PROVE OrphanInv'
      OBVIOUS
    <2>1. NoOrphan(position') /\ \A t \in Threads : NoOrphan(job'[t].snap)
      <3>1. ASSUME NEW t \in Threads, ProcessStep(t)
            PROVE  NoOrphan(position') /\ \A u \in Threads : NoOrphan(job'[u].snap)
        BY <3>1, OrphanProcess, ProcessFrame DEF OrphanInv
      <3>2. CASE UNCHANGED vars
        BY <3>2 DEF vars, tables, OrphanInv
      <3>3. QED
        BY <3>1, <3>2, OrphanOther DEF Next
    <2>2. QED
      BY <2>1, OrphanQuantity DEF OrphanInv, NoOrphan
  <1>3. TypeOK /\ LocalsOK /\ [Next]_vars => TypeOK' /\ LocalsOK'
    BY TypeStep, LocalsStep
  <1>4. OrphanInv => NoOrphanSchedule
    BY DEF OrphanInv, NoOrphan, NoOrphanSchedule
  <1>5. QED
    BY <1>1, <1>2, <1>3, <1>4, PTL DEF Spec

-----------------------------------------------------------------------------
(* Without a scheduler, every sell is made under the mutex.                *)

\* Where a goroutine acts upon an event, between Decide and the last write.
Working == {"blocked", "preflight", "clear", "mark", "claim", "persist", "cooldown",
            "broadcast", "update", "save", "saveBack", "saveInsert"}
UnderMutex == \A t \in Threads : pc[t] \in Working => job[t].evt # NoEvent

\* At most one goroutine is there.
LEMMA MutexOfWorking ==
  ASSUME LocalsOK, UnderMutex, NEW t \in Threads, pc[t] \in Working
  PROVE  lock = t /\ pc[t] # "claim"
  BY DEF LocalsOK, Local, UnderMutex, Working

\* An event is what brings a goroutine there, unless it is the scheduler.
LEMMA MutexSelf ==
  ASSUME TypeOK, LocalsOK, UnderMutex, NEW t \in Threads, ProcessStep(t),
         pc'[t] \in Working
  PROVE  job'[t].evt # NoEvent
  <1>0. pc \in [Threads -> PCs] /\ job \in [Threads -> Job] /\ Local(t) /\ NoEvent \notin Events
        /\ (pc[t] \in Working => job[t].evt # NoEvent)
    BY ConstantsAssumption DEF TypeOK, LocalsOK, UnderMutex, ConstantsAssumption, Events
  <1>1. CASE Return(t)
    BY <1>0, <1>1 DEF Return, Goto, Working
  <1>2. CASE Decide(t) /\ ~Return(t)
    BY <1>0, <1>2 DEF Decide, Local, Job
  <1>3. CASE (Preflight(t) \/ MarkStrategyEvent(t) \/ PersistPendingBuy(t)) /\ ~Return(t)
    BY <1>0, <1>3 DEF Preflight, MarkStrategyEvent, PersistPendingBuy, Working, Job
  <1>4. CASE SaveCooldown(t) \/ (Broadcast(t) /\ ~Return(t))
    BY <1>0, <1>4 DEF SaveCooldown, Broadcast, Failed, Working, Job
  <1>5. CASE (UpdatePendingBroadcast(t) \/ SavePendingAction(t) \/ SaveFilledSell(t)) /\ ~Return(t)
    BY <1>0, <1>5 DEF UpdatePendingBroadcast, SavePendingAction, SaveFilledSell, Working, Job
  <1>6. CASE InsertPendingAction(t) /\ ~Return(t)
    BY <1>0, <1>6 DEF InsertPendingAction, Working
  <1>7. CASE RecordSellFailure(t) \/ (ReadWalletAfterFailure(t) /\ ~Return(t))
    BY <1>0, <1>7 DEF RecordSellFailure, ReadWalletAfterFailure, Goto, Working
  <1>8. QED
    BY <1>1, <1>2, <1>3, <1>4, <1>5, <1>6, <1>7
    DEF ProcessStep, ApplyOwnFill, ClearUntradeable, ResetPosition

\* The other steps bring no goroutine there.
LEMMA MutexOther ==
  ASSUME ~ScheduledSell, TypeOK, LocalsOK, UnderMutex,
         TickStep \/ Hear \/ (\E long \in BOOLEAN : Elapse(long)) \/ Mine \/ Crash
  PROVE  \A t \in Threads : pc'[t] \in Working => pc'[t] = pc[t] /\ job'[t] = job[t]
  <1>0. /\ pc \in [Threads -> PCs] /\ job \in [Threads -> Job]
        /\ {"tick", "worker"} \subseteq Threads
    BY DEF TypeOK, Threads
  <1>1. ASSUME NEW t \in Threads, NEW x, Arrive(t, x)
        PROVE  \A u \in Threads : pc'[u] \in Working => pc'[u] = pc[u] /\ job'[u] = job[u]
    BY <1>0, <1>1 DEF Arrive, Goto, Working
  <1>2. CASE Hear \/ PollEvent
    BY <1>0, <1>1, <1>2 DEF Hear, PollEvent
  <1>3. CASE ExpirePendingAction
    BY <1>0, <1>3 DEF ExpirePendingAction, Goto, Working
  <1>4. CASE SelectExpiredBuy \/ DeleteExpiredBuy
    BY <1>0, <1>4 DEF SelectExpiredBuy, DeleteExpiredBuy, Working
  <1>5. CASE SelectDue
    BY <1>0, <1>5 DEF SelectDue
  <1>6. CASE ClaimDue
    BY <1>0, <1>6, MutexOfWorking DEF ClaimDue, Working
  <1>7. CASE Crash
    BY <1>7 DEF Crash, Working
  <1>8. CASE UNCHANGED <<pc, job>>
    BY <1>8
  <1>9. QED
    BY <1>2, <1>3, <1>4, <1>5, <1>6, <1>7, <1>8
    DEF TickStep, Elapse, Mine, SelectExpired, ExpireDone, Poll, PollDone

\* Every step keeps it.
LEMMA MutexStep ==
  ASSUME ~ScheduledSell, TypeOK, LocalsOK, UnderMutex, [Next]_vars PROVE UnderMutex'
  <1>1. ASSUME NEW t \in Threads, ProcessStep(t) PROVE UnderMutex'
    BY <1>1, MutexSelf, ProcessFrame DEF UnderMutex
  <1>2. CASE UNCHANGED vars
    BY <1>2 DEF vars, UnderMutex
  <1>3. QED
    BY <1>1, <1>2, MutexOther DEF Next, UnderMutex

-----------------------------------------------------------------------------
(* Only a fill changes the amount of the position.                         *)

\* Where a goroutine holds a copy of the position that it may write back.
WritesBack(t) ==
  \/ pc[t] \in {"preflight", "mark"} /\ ~IsBuy(job[t].reason)
  \/ pc[t] \in {"cooldown", "saveBack"}

\* Under the mutex no fill is accounted, so only a clearing is newer than it.
Fresh(p, q) == p.amount = q.amount \/ q = EmptyPosition
FollowInv == \A t \in Threads : WritesBack(t) => Fresh(job[t].snap, position)

\* The steps that change the position, and how.
LEMMA PositionWrites ==
  ASSUME TypeOK, LocalsOK, UnderMutex, FollowInv, NEW t \in Threads, ProcessStep(t)
  PROVE  \/ position'.amount = position.amount /\ (position = EmptyPosition => position' = position)
         \/ position' = EmptyPosition
         \/ lock = "free" /\ recorded' # recorded
         \/ lock = t /\ position = EmptyPosition
         \/ lock = t /\ position'.amount = position.amount
  <1>0. pc \in [Threads -> PCs] /\ position \in Position /\ job[t].snap \in Position
    BY DEF TypeOK, Job
  <1>1. CASE ApplyOwnFill(t)
    BY <1>1 DEF ApplyOwnFill, MayEnter, AlreadyRecorded
  <1>2. CASE SaveCooldown(t)
    <2>1. lock = t
      BY <1>2, MutexOfWorking DEF SaveCooldown, Working
    <2>2. Fresh(job[t].snap, position)
      BY <1>2 DEF FollowInv, WritesBack, SaveCooldown
    <2>3. QED
      BY <1>0, <1>2, <2>1, <2>2 DEF SaveCooldown, Fresh, Position
  <1>3. CASE SaveFilledSell(t)
    <2>1. lock = t
      BY <1>3, MutexOfWorking DEF SaveFilledSell, Working
    <2>2. Fresh(job[t].snap, position)
      BY <1>3 DEF FollowInv, WritesBack, SaveFilledSell
    <2>3. QED
      BY <1>0, <1>3, <2>1, <2>2 DEF SaveFilledSell, WithReason, Fresh, Position
  <1>4. CASE ReadWalletAfterFailure(t)
    BY <1>0, <1>4 DEF ReadWalletAfterFailure, Position, EmptyPosition
  <1>5. CASE ClearUntradeable(t) \/ ResetPosition(t)
    BY <1>5 DEF ClearUntradeable, ResetPosition, ZeroPosition
  <1>6. CASE UNCHANGED position
    BY <1>6
  <1>7. QED
    BY <1>1, <1>2, <1>3, <1>4, <1>5, <1>6
    DEF ProcessStep, tables, Decide, Preflight, MarkStrategyEvent, PersistPendingBuy,
        Broadcast, UpdatePendingBroadcast, SavePendingAction, InsertPendingAction,
        RecordSellFailure

\* What a goroutine may write back was read under the mutex it holds.
LEMMA FollowSelf ==
  ASSUME TypeOK, LocalsOK, UnderMutex, FollowInv, NEW t \in Threads, ProcessStep(t),
         WritesBack(t)'
  PROVE  Fresh(job'[t].snap, position')
  <1>0. /\ pc \in [Threads -> PCs] /\ job \in [Threads -> Job] /\ position \in Position
        /\ (WritesBack(t) => Fresh(job[t].snap, position))
    BY DEF TypeOK, FollowInv
  <1>1. CASE Return(t)
    BY <1>0, <1>1 DEF Return, Goto, WritesBack
  <1>2. CASE Decide(t) /\ ~Return(t)
    <2>1. ~IsBuy(job'[t].reason) /\ UNCHANGED position
      BY <1>0, <1>2 DEF Decide, Goto, WritesBack, tables
    <2>2. job'[t].snap = position
      BY <1>0, <1>2, <2>1 DEF Decide, Job
    <2>3. QED
      BY <2>1, <2>2 DEF Fresh
  <1>3. CASE Preflight(t) /\ ~Return(t)
    <2>1. UNCHANGED position /\ pc[t] = "preflight"
      BY <1>0, <1>3 DEF Preflight, Goto, WritesBack, tables
    <2>2. job'[t].snap = job[t].snap /\ job'[t].reason = job[t].reason /\ pc'[t] = "mark"
      BY <1>0, <1>3, <2>1 DEF Preflight, Goto, Job, WritesBack
    <2>3. QED
      BY <1>0, <2>1, <2>2 DEF Fresh, WritesBack
  <1>4. CASE MarkStrategyEvent(t) /\ ~Return(t)
    BY <1>0, <1>4 DEF MarkStrategyEvent, Goto, Fresh, WritesBack, IsBuy
  <1>5. CASE SavePendingAction(t)
    <2>1. UNCHANGED position /\ pc'[t] = "saveBack" /\ job'[t].snap = position
      BY <1>0, <1>5 DEF SavePendingAction, Goto, WritesBack, tables, Job
    <2>2. QED
      BY <2>1 DEF Fresh
  <1>6. CASE /\ ~Return(t)
             /\ \/ PersistPendingBuy(t) \/ SaveCooldown(t) \/ Broadcast(t)
                \/ UpdatePendingBroadcast(t) \/ SaveFilledSell(t) \/ InsertPendingAction(t)
                \/ RecordSellFailure(t) \/ ReadWalletAfterFailure(t)
    BY <1>0, <1>6
    DEF PersistPendingBuy, SaveCooldown, Broadcast, Failed, UpdatePendingBroadcast,
        SaveFilledSell, InsertPendingAction, RecordSellFailure, ReadWalletAfterFailure,
        Goto, WritesBack
  <1>7. QED
    BY <1>1, <1>2, <1>3, <1>4, <1>5, <1>6
    DEF ProcessStep, ApplyOwnFill, ClearUntradeable, ResetPosition

\* Nor does another goroutine account a fill meanwhile.
LEMMA FollowProcess ==
  ASSUME TypeOK, LocalsOK, UnderMutex, FollowInv, NEW t \in Threads, ProcessStep(t)
  PROVE  FollowInv'
  <1>1. ASSUME NEW u \in Threads \ {t}, WritesBack(u)' PROVE Fresh(job'[u].snap, position')
    <2>1. pc'[u] = pc[u] /\ job'[u] = job[u] /\ WritesBack(u)
      BY <1>1, ProcessFrame DEF WritesBack
    <2>2. lock = u /\ u # "free"
      BY <2>1, MutexOfWorking DEF WritesBack, Working, Threads
    <2>3. \/ position'.amount = position.amount /\ (position = EmptyPosition => position' = position)
          \/ position' = EmptyPosition
      BY <2>2, PositionWrites
    <2>4. Fresh(job[u].snap, position)
      BY <2>1 DEF FollowInv
    <2>5. QED
      BY <2>1, <2>3, <2>4 DEF Fresh
  <1>2. QED
    BY <1>1, FollowSelf DEF FollowInv

\* Time and the ticker leave the amount alone.
LEMMA FollowOther ==
  ASSUME ~ScheduledSell, TypeOK, LocalsOK, UnderMutex, FollowInv,
         TickStep \/ Hear \/ (\E long \in BOOLEAN : Elapse(long)) \/ Mine \/ Crash
  PROVE  /\ FollowInv'
         /\ position'.amount = position.amount /\ (position = EmptyPosition => position' = position)
  <1>0. position \in Position /\ "tick" \in Threads
    BY DEF TypeOK, Threads
  <1>1. position'.amount = position.amount /\ (position = EmptyPosition => position' = position)
    <2>1. CASE ClaimDue
      BY <1>0, <2>1, MutexOfWorking DEF ClaimDue, Working
    <2>2. ASSUME NEW long \in BOOLEAN, Elapse(long)
          PROVE  position'.amount = position.amount /\ (position = EmptyPosition => position' = position)
      <3>1. position' = [position EXCEPT !.cooling = FALSE,
                                         !.sched = IF @ = "future" THEN "due" ELSE @]
        BY <2>2 DEF Elapse
      <3>2. position'.amount = position.amount
        BY <1>0, <3>1 DEF Position
      <3>3. CASE position = EmptyPosition
        <4>1. position.sched = "none" /\ position.cooling = FALSE
          BY <3>3 DEF EmptyPosition
        <4>2. position' = [position EXCEPT !.cooling = FALSE, !.sched = "none"]
          BY <3>1, <4>1
        <4>3. QED
          BY <1>0, <4>1, <4>2 DEF Position
      <3>4. QED
        BY <3>2, <3>3
    <2>3. CASE UNCHANGED position
      BY <2>3
    <2>4. QED
      BY <2>1, <2>2, <2>3
      DEF TickStep, Hear, Mine, Crash, tables, Arrive, SelectExpired, ExpirePendingAction,
          ExpireDone, SelectExpiredBuy, DeleteExpiredBuy, SelectDue, Poll, PollEvent, PollDone
  <1>2. \A t \in Threads : WritesBack(t)' => WritesBack(t) /\ job'[t] = job[t]
    BY MutexOther DEF WritesBack, Working
  <1>3. QED
    BY <1>1, <1>2 DEF FollowInv, Fresh

\* Without a scheduler a write of the whole row undoes no fill.  The hypothesis
\* is needed: the scheduler's write of a filled sell is outside the mutex.
THEOREM FollowsFills == ASSUME ~ScheduledSell PROVE Spec => PositionFollowsFills
  <1>. DEFINE All == TypeOK /\ LocalsOK /\ UnderMutex /\ FollowInv
              Follows == \/ position'.amount \in {position.amount, 0}
                         \/ recorded' # recorded
                         \/ position = EmptyPosition
  <1>1. Init => All
    <2>1. Init => LocalsOK
      BY DEF Init, LocalsOK, Local, NoJob
    <2>2. Init => UnderMutex /\ FollowInv
      BY DEF Init, UnderMutex, Working, FollowInv, WritesBack
    <2>3. QED
      BY <2>1, <2>2, TypeInit
  <1>2. All /\ [Next]_vars => All'
    <2>1. TypeOK /\ LocalsOK /\ [Next]_vars => TypeOK' /\ LocalsOK'
      BY TypeStep, LocalsStep
    <2>2. ASSUME FollowInv, UNCHANGED vars PROVE FollowInv'
      BY <2>2 DEF vars, tables, FollowInv, WritesBack, Fresh
    <2>3. QED
      BY <2>1, <2>2, MutexStep, FollowProcess, FollowOther DEF Next
  <1>3. All /\ [Next]_vars => [Follows]_vars
    <2>1. ASSUME All, NEW t \in Threads, ProcessStep(t) PROVE Follows
      <3>1. EmptyPosition.amount = 0
        BY DEF EmptyPosition
      <3>2. QED
        BY <2>1, <3>1, PositionWrites
    <2>2. QED
      BY <2>1, FollowOther DEF Next
  <1>. HIDE DEF All, Follows
  <1>4. Spec => [][Follows]_vars
    BY <1>1, <1>2, <1>3, PTL DEF Spec
  <1>5. QED
    BY <1>4 DEF PositionFollowsFills, Follows

-----------------------------------------------------------------------------
(* One sell in flight.                                                     *)

\* Where a goroutine is on its way to submit a sell, or to save it.
Selling(t) ==
  /\ pc[t] \in {"blocked", "preflight", "mark", "cooldown", "broadcast", "save",
                "saveBack", "saveInsert"}
  /\ ~IsBuy(job[t].reason)
Young(h) == tx[h].side = "sell" /\ actions[h].status = "pending" /\ actions[h].age < 2

\* The rows name transactions that were sent; a sell begins when no young one is
\* pending, and no other goroutine saves one before it ends.
SellInv ==
  /\ \A h \in Hashes : actions[h].status # "none" => tx[h].state # "none"
  /\ \A t \in Threads : pc[t] \in {"update", "save", "saveBack", "saveInsert"} =>
        /\ tx[job[t].hash].state # "none"
        /\ tx[job[t].hash].side = IF IsBuy(job[t].reason) THEN "buy" ELSE "sell"
  /\ \A g, h \in Hashes : Young(g) /\ Young(h) => g = h
  /\ \A t \in Threads : Selling(t) => \A h \in Hashes : ~Young(h)

\* A pending sell is young as long as PendingSell sees it.
LEMMA YoungPending == PendingSell <=> \E h \in Hashes : Young(h)
  BY DEF PendingSell, PendingSells, Young

\* A step that saves no action and begins no sell.
LEMMA SellFrame ==
  ASSUME TypeOK, LocalsOK, SellInv, [Next]_vars,
         \A h \in Hashes : actions'[h].status # "none" => actions[h].status # "none",
         \A h \in Hashes : actions'[h].status = "pending" /\ actions'[h].age < 2
                           => actions[h].status = "pending" /\ actions[h].age < 2,
         \A t \in Threads : pc'[t] \in {"update", "save", "saveBack", "saveInsert"} =>
            /\ pc[t] \in {"update", "save", "saveBack", "saveInsert"}
            /\ job'[t].hash = job[t].hash /\ job'[t].reason = job[t].reason,
         \A t \in Threads : Selling(t)' => Selling(t) \/ \A h \in Hashes : ~Young(h)
  PROVE  SellInv'
  <1>1. \A h \in Hashes : Young(h)' => Young(h)
    BY TxStable DEF SellInv, Young
  <1>2. ASSUME NEW h \in Hashes, actions'[h].status # "none" PROVE tx'[h].state # "none"
    BY <1>2, TxStable DEF SellInv
  <1>3. ASSUME NEW t \in Threads, pc'[t] \in {"update", "save", "saveBack", "saveInsert"}
        PROVE  /\ tx'[job'[t].hash].state # "none"
               /\ tx'[job'[t].hash].side = IF IsBuy(job'[t].reason) THEN "buy" ELSE "sell"
    <2>1. job[t].hash \in Hashes
      BY <1>3 DEF LocalsOK, Local
    <2>2. QED
      BY <1>3, <2>1, TxStable DEF SellInv
  <1>4. ASSUME NEW t \in Threads, Selling(t)' PROVE \A h \in Hashes : ~Young(h)'
    BY <1>1, <1>4 DEF SellInv
  <1>5. \A g, h \in Hashes : Young(g)' /\ Young(h)' => g = h
    BY <1>1 DEF SellInv
  <1>6. QED
    BY <1>2, <1>3, <1>4, <1>5 DEF SellInv

\* A new transaction has no row, and its side is that of its reason.
LEMMA SellBroadcast ==
  ASSUME TypeOK, LocalsOK, SellInv, NEW t \in Threads, Broadcast(t) PROVE SellInv'
  <1>0. /\ pc \in [Threads -> PCs] /\ job \in [Threads -> Job] /\ tx \in [Hashes -> Tx]
        /\ UNCHANGED actions
    BY DEF TypeOK, Broadcast
  <1>1. /\ \A u \in Threads \ {t} : pc'[u] = pc[u] /\ job'[u] = job[u]
        /\ pc[t] = "broadcast" /\ job'[t].reason \in {job[t].reason, "none"}
    BY <1>0, ProcessFrame DEF ProcessStep, Broadcast, Failed, Return, NoJob, Job
  <1>2. Selling(t)' => Selling(t)
    BY <1>0 DEF Broadcast, Failed, Return, Goto, Selling, Job
  <1>3. \A u \in Threads : Selling(u)' => Selling(u)
    BY <1>1, <1>2 DEF Selling
  <1>4. CASE pc'[t] \notin {"update", "save"}
    <2>1. pc'[t] \notin {"update", "save", "saveBack", "saveInsert"}
      BY <1>0, <1>4 DEF Broadcast, Failed, Return, Goto
    <2>2. QED
      BY <1>0, <1>1, <1>3, <2>1, SellFrame DEF Next, ProcessStep
  <1>5. CASE pc'[t] \in {"update", "save"}
    <2>1. PICK h \in Hashes : /\ tx[h].state = "none" /\ tx' = Submitted(h, job[t])
                              /\ job' = [job EXCEPT ![t].hash = h]
      BY <1>0, <1>5 DEF Broadcast, Failed, Return, Goto
    <2>2. /\ job'[t].hash = h /\ job'[t].reason = job[t].reason /\ tx'[h].state = "pool"
          /\ tx'[h].side = IF IsBuy(job[t].reason) THEN "buy" ELSE "sell"
      BY <1>0, <2>1 DEF Submitted, Job
    <2>3. \A g \in Hashes \ {h} : tx'[g] = tx[g]
      BY <1>0, <2>1 DEF Submitted
    <2>4. \A g \in Hashes : actions[g].status # "none" => g # h
      BY <2>1 DEF SellInv
    <2>5. \A g \in Hashes : Young(g)' => Young(g)
      BY <1>0, <2>3, <2>4 DEF Young
    <2>6. \A g \in Hashes : actions'[g].status # "none" => tx'[g].state # "none"
      BY <1>0, <2>3, <2>4 DEF SellInv
    <2>7. ASSUME NEW u \in Threads, pc'[u] \in {"update", "save", "saveBack", "saveInsert"}
          PROVE  /\ tx'[job'[u].hash].state # "none"
                 /\ tx'[job'[u].hash].side = IF IsBuy(job'[u].reason) THEN "buy" ELSE "sell"
      <3>1. CASE u = t
        BY <2>2, <3>1
      <3>2. CASE u # t
        <4>1. job[u].hash \in Hashes /\ tx[job[u].hash].state # "none"
          BY <1>1, <2>7, <3>2 DEF LocalsOK, Local, SellInv
        <4>2. QED
          BY <1>1, <2>1, <2>3, <2>7, <3>2, <4>1 DEF SellInv
      <3>3. QED
        BY <3>1, <3>2
    <2>8. \A u \in Threads : Selling(u)' => \A g \in Hashes : ~Young(g)'
      BY <1>3, <2>5 DEF SellInv
    <2>9. \A f, g \in Hashes : Young(f)' /\ Young(g)' => f = g
      BY <2>5 DEF SellInv
    <2>10. QED
      BY <2>6, <2>7, <2>8, <2>9 DEF SellInv
  <1>6. QED
    BY <1>4, <1>5

\* The row of a new sell is the only young one, and its goroutine is done.
LEMMA SellInsert ==
  ASSUME TypeOK, LocalsOK, UnderMutex, SellInv, NEW t \in Threads, InsertPendingAction(t)
  PROVE  SellInv'
  <1>. DEFINE h == job[t].hash
  <1>0. /\ pc \in [Threads -> PCs] /\ job \in [Threads -> Job] /\ actions \in [Hashes -> Action]
        /\ UNCHANGED tx /\ h \in Hashes
        /\ pc[t] = "saveInsert"
    BY DEF TypeOK, InsertPendingAction, chain, LocalsOK, Local
  <1>1. /\ \A u \in Threads \ {t} : pc'[u] = pc[u] /\ job'[u] = job[u]
        /\ pc'[t] \in {"idle", "record"}
    BY <1>0, ProcessFrame DEF ProcessStep, InsertPendingAction, Return, Goto
  <1>2. \A u \in Threads \ {t} : pc[u] \notin Working
    <2>1. lock = t
      BY <1>0, MutexOfWorking DEF Working
    <2>2. QED
      BY <2>1, MutexOfWorking
  <1>3. \A u \in Threads : ~Selling(u)' /\ pc'[u] \notin {"update", "save", "saveBack", "saveInsert"}
    BY <1>1, <1>2 DEF Selling, Working
  <1>4. \A g \in Hashes : actions'[g].status # "none" => tx'[g].state # "none"
    BY <1>0 DEF SellInv, InsertPendingAction
  <1>5. \A f, g \in Hashes : Young(f)' /\ Young(g)' => f = g
    <2>1. \A g \in Hashes \ {h} : actions'[g] = actions[g]
      BY <1>0 DEF InsertPendingAction
    <2>2. CASE IsBuy(job[t].reason)
      <3>1. ~(tx'[h].side = "sell")
        BY <1>0, <2>2 DEF SellInv
      <3>2. QED
        BY <1>0, <2>1, <3>1 DEF SellInv, Young
    <2>3. CASE ~IsBuy(job[t].reason)
      <3>1. \A g \in Hashes : ~Young(g)
        BY <1>0, <2>3 DEF SellInv, Selling
      <3>2. QED
        BY <1>0, <2>1, <3>1 DEF Young
    <2>4. QED
      BY <2>2, <2>3
  <1>6. QED
    BY <1>3, <1>4, <1>5 DEF SellInv

\* Only a buy writes the pending buy row.
BuySteps == \A t \in Threads : pc[t] \in {"persist", "update"} => IsBuy(job[t].reason)

\* Every step keeps that.
LEMMA BuyStepsKept ==
  ASSUME TypeOK, LocalsOK, BuySteps, [Next]_vars PROVE BuySteps'
  <1>0. /\ pc \in [Threads -> PCs] /\ job \in [Threads -> Job]
        /\ {"tick", "worker"} \subseteq Threads
    BY DEF TypeOK, Threads
  <1>1. ASSUME NEW t \in Threads, ProcessStep(t), pc'[t] \in {"persist", "update"}
        PROVE  IsBuy(job'[t].reason)
    <2>1. CASE Return(t)
      BY <1>0, <1>1, <2>1 DEF Return, Goto
    <2>2. CASE Decide(t) \/ Preflight(t) \/ SavePendingAction(t) \/ SaveFilledSell(t)
               \/ SaveCooldown(t)
      BY <1>0, <1>1, <2>1, <2>2
      DEF Decide, Preflight, SavePendingAction, SaveFilledSell, SaveCooldown, Goto
    <2>3. CASE MarkStrategyEvent(t)
      BY <1>0, <1>1, <2>1, <2>3 DEF MarkStrategyEvent, Goto
    <2>4. CASE Broadcast(t)
      <3>1. pc'[t] = "update" /\ IsBuy(job[t].reason) /\ job'[t].reason = job[t].reason
        BY <1>0, <1>1, <2>4 DEF Broadcast, Failed, Return, Goto, Job
      <3>2. QED
        BY <3>1
    <2>5. CASE PersistPendingBuy(t) \/ UpdatePendingBroadcast(t)
      BY <1>0, <1>1, <2>1, <2>5 DEF PersistPendingBuy, UpdatePendingBroadcast, Goto
    <2>6. CASE InsertPendingAction(t) \/ RecordSellFailure(t) \/ ReadWalletAfterFailure(t)
      BY <1>0, <1>1, <2>1, <2>6
      DEF InsertPendingAction, RecordSellFailure, ReadWalletAfterFailure, Goto
    <2>7. QED
      BY <1>1, <2>1, <2>2, <2>3, <2>4, <2>5, <2>6
      DEF ProcessStep, ApplyOwnFill, ClearUntradeable, ResetPosition
  <1>2. ASSUME NEW t \in Threads, ProcessStep(t) PROVE BuySteps'
    BY <1>1, <1>2, ProcessFrame DEF BuySteps
  <1>3. ASSUME NEW t \in Threads, NEW x, Arrive(t, x) PROVE BuySteps'
    BY <1>0, <1>3 DEF Arrive, Goto, BuySteps
  <1>4. CASE Hear \/ PollEvent
    BY <1>0, <1>3, <1>4 DEF Hear, PollEvent
  <1>5. CASE ExpirePendingAction \/ SelectDue
    BY <1>0, <1>5 DEF ExpirePendingAction, SelectDue, Goto, BuySteps
  <1>6. CASE SelectExpiredBuy \/ DeleteExpiredBuy
    BY <1>0, <1>6 DEF SelectExpiredBuy, DeleteExpiredBuy, BuySteps
  <1>7. CASE ClaimDue
    BY <1>0, <1>7 DEF ClaimDue, Return, Goto, BuySteps
  <1>8. CASE Crash
    BY <1>8 DEF Crash, BuySteps
  <1>9. CASE UNCHANGED <<pc, job>>
    BY <1>9 DEF BuySteps
  <1>10. QED
    BY <1>2, <1>4, <1>5, <1>6, <1>7, <1>8, <1>9
    DEF Next, vars, TickStep, Elapse, Mine, SelectExpired, ExpireDone, Poll, PollDone

\* A step of a goroutine that neither decides, nor submits, nor saves the row.
LEMMA SellSelf ==
  ASSUME TypeOK, LocalsOK, BuySteps, SellInv, NEW t \in Threads, ProcessStep(t),
         ~Broadcast(t), ~InsertPendingAction(t)
  PROVE  /\ Selling(t)' => Selling(t) \/ \A h \in Hashes : ~Young(h)
         /\ pc'[t] \in {"update", "save", "saveBack", "saveInsert"} =>
              /\ pc[t] \in {"update", "save", "saveBack", "saveInsert"}
              /\ job'[t].hash = job[t].hash /\ job'[t].reason = job[t].reason
  <1>0. pc \in [Threads -> PCs] /\ job \in [Threads -> Job]
    BY DEF TypeOK
  <1>1. CASE Return(t)
    BY <1>0, <1>1 DEF Return, Goto, Selling
  <1>2. CASE Decide(t) /\ ~Return(t)
    <2>1. pc'[t] \in {"mark", "blocked", "preflight"}
      BY <1>0, <1>2 DEF Decide, Goto
    <2>2. ASSUME Selling(t)' PROVE ~PendingSell
      <3>1. job'[t].reason = Evaluate(Want(job[t].evt), position)
        BY <1>0, <1>2 DEF Decide, Job
      <3>2. QED
        BY <1>2, <2>2, <3>1 DEF Decide, Selling
    <2>3. QED
      BY <2>1, <2>2, YoungPending
  <1>3. CASE Preflight(t) /\ ~Return(t)
    BY <1>0, <1>3 DEF Preflight, Goto, Selling, Job
  <1>4. CASE (MarkStrategyEvent(t) \/ SaveCooldown(t)) /\ ~Return(t)
    BY <1>0, <1>4 DEF MarkStrategyEvent, SaveCooldown, Goto, Selling
  <1>5. CASE PersistPendingBuy(t) /\ ~Return(t)
    <2>1. pc[t] = "persist" /\ pc'[t] = "broadcast" /\ job' = job
      BY <1>0, <1>5 DEF PersistPendingBuy, Goto
    <2>2. QED
      BY <2>1 DEF Selling, BuySteps
  <1>6. CASE UpdatePendingBroadcast(t) /\ ~Return(t)
    <2>1. pc[t] = "update" /\ pc'[t] = "save" /\ job' = job
      BY <1>0, <1>6 DEF UpdatePendingBroadcast, Goto
    <2>2. QED
      BY <2>1 DEF Selling, BuySteps
  <1>7. CASE SavePendingAction(t) \/ SaveFilledSell(t)
    BY <1>0, <1>7 DEF SavePendingAction, SaveFilledSell, Goto, Selling, Job
  <1>8. CASE RecordSellFailure(t) \/ (ReadWalletAfterFailure(t) /\ ~Return(t))
    BY <1>0, <1>8 DEF RecordSellFailure, ReadWalletAfterFailure, Goto, Selling
  <1>9. QED
    BY <1>1, <1>2, <1>3, <1>4, <1>5, <1>6, <1>7, <1>8
    DEF ProcessStep, ApplyOwnFill, ClearUntradeable, ResetPosition

\* No step of Process submits a second sell.
LEMMA SellProcess ==
  ASSUME TypeOK, LocalsOK, UnderMutex, BuySteps, SellInv, NEW t \in Threads, ProcessStep(t)
  PROVE  SellInv'
  <1>0. actions \in [Hashes -> Action]
    BY DEF TypeOK
  <1>1. CASE Broadcast(t) \/ InsertPendingAction(t)
    BY <1>1, SellBroadcast, SellInsert
  <1>2. CASE ~Broadcast(t) /\ ~InsertPendingAction(t)
    <2>1. /\ \A h \in Hashes : actions'[h].status # "none" => actions[h].status # "none"
          /\ \A h \in Hashes : actions'[h].status = "pending" /\ actions'[h].age < 2
                               => actions[h].status = "pending" /\ actions[h].age < 2
      <3>1. CASE ApplyOwnFill(t)
        <4>1. \A h \in Hashes : \/ actions'[h] = actions[h]
                                \/ actions[h].status = "pending" /\ actions'[h].status = "confirmed"
          BY <1>0, <3>1 DEF ApplyOwnFill, Action
        <4>2. QED
          BY <4>1
      <3>2. CASE ResetPosition(t)
        <4>1. \A h \in Hashes : \/ actions'[h] = actions[h]
                                \/ actions[h].status = "pending" /\ actions'[h].status = "reverted"
          BY <1>0, <3>2 DEF ResetPosition, PendingSells, Action
        <4>2. QED
          BY <4>1
      <3>3. CASE UNCHANGED actions
        BY <3>3
      <3>4. QED
        BY <1>2, <3>1, <3>2, <3>3
        DEF ProcessStep, tables, Decide, Preflight, ClearUntradeable, MarkStrategyEvent,
            PersistPendingBuy, SaveCooldown, UpdatePendingBroadcast, SavePendingAction,
            SaveFilledSell, RecordSellFailure, ReadWalletAfterFailure
    <2>2. \A u \in Threads \ {t} : pc'[u] = pc[u] /\ job'[u] = job[u]
      BY ProcessFrame
    <2>3. \A u \in Threads : Selling(u)' => Selling(u) \/ \A h \in Hashes : ~Young(h)
      BY <1>2, <2>2, SellSelf DEF Selling
    <2>4. \A u \in Threads : pc'[u] \in {"update", "save", "saveBack", "saveInsert"} =>
            /\ pc[u] \in {"update", "save", "saveBack", "saveInsert"}
            /\ job'[u].hash = job[u].hash /\ job'[u].reason = job[u].reason
      BY <1>2, <2>2, SellSelf
    <2>5. QED
      BY <2>1, <2>3, <2>4, SellFrame DEF Next
  <1>3. QED
    BY <1>1, <1>2

\* Time only ages the rows, and without a scheduler the ticker only drops them.
LEMMA SellOther ==
  ASSUME ~ScheduledSell, TypeOK, LocalsOK, UnderMutex, SellInv,
         TickStep \/ Hear \/ (\E long \in BOOLEAN : Elapse(long)) \/ Mine \/ Crash
  PROVE  SellInv'
  <1>0. actions \in [Hashes -> Action]
    BY DEF TypeOK
  <1>1. /\ \A h \in Hashes : actions'[h].status # "none" => actions[h].status # "none"
        /\ \A h \in Hashes : actions'[h].status = "pending" /\ actions'[h].age < 2
                             => actions[h].status = "pending" /\ actions[h].age < 2
    <2>1. CASE ExpirePendingAction
      <3>1. \A h \in Hashes : actions'[h] \in {actions[h], NoAction}
        BY <1>0, <2>1 DEF ExpirePendingAction
      <3>2. QED
        BY <3>1 DEF NoAction
    <2>2. ASSUME NEW long \in BOOLEAN, Elapse(long), NEW h \in Hashes
          PROVE  /\ actions'[h].status # "none" => actions[h].status # "none"
                 /\ actions'[h].status = "pending" /\ actions'[h].age < 2
                    => actions[h].status = "pending" /\ actions[h].age < 2
      <3>1. CASE actions[h].status = "none"
        BY <2>2, <3>1 DEF Elapse, NoAction
      <3>2. CASE actions[h].status # "none"
        <4>. DEFINE bound == IF actions[h].status = "pending" THEN 2 ELSE 1
        <4>1. actions'[h] = [actions[h] EXCEPT !.age = IF long THEN bound
                                                       ELSE Lesser(actions[h].age + 1, bound)]
          BY <2>2, <3>2 DEF Elapse
        <4>2. /\ actions'[h].status = actions[h].status
              /\ actions'[h].age = IF long THEN bound ELSE Lesser(actions[h].age + 1, bound)
          <5>. HIDE DEF bound
          <5>1. actions[h] \in Action
            BY <1>0
          <5>2. QED
            BY <4>1, <5>1 DEF Action
        <4>3. actions[h].age \in Ages
          BY <1>0 DEF Action
        <4>4. QED
          BY <3>2, <4>2, <4>3 DEF Lesser, Ages
      <3>3. QED
        BY <3>1, <3>2
    <2>3. CASE UNCHANGED actions
      BY <2>3
    <2>4. QED
      BY <2>1, <2>2, <2>3
      DEF TickStep, Hear, Mine, Crash, tables, Arrive, SelectExpired, ExpireDone,
          SelectExpiredBuy, DeleteExpiredBuy, SelectDue, ClaimDue, Poll, PollEvent, PollDone
  <1>2. \A t \in Threads : pc'[t] \in Working => pc'[t] = pc[t] /\ job'[t] = job[t]
    BY MutexOther
  <1>3. \A t \in Threads : Selling(t)' => Selling(t)
    BY <1>2 DEF Selling, Working
  <1>4. \A t \in Threads : pc'[t] \in {"update", "save", "saveBack", "saveInsert"} =>
          /\ pc[t] \in {"update", "save", "saveBack", "saveInsert"}
          /\ job'[t].hash = job[t].hash /\ job'[t].reason = job[t].reason
    BY <1>2 DEF Working
  <1>5. QED
    BY <1>1, <1>3, <1>4, SellFrame DEF Next

\* A set whose elements are all the same one has at most one.
LEMMA AtMostOne ==
  ASSUME NEW S, \A g, h \in S : g = h
  PROVE  Cardinality(S) <= 1
  <1>1. CASE S = {}
    BY <1>1, FS_EmptySet
  <1>2. CASE S # {}
    <2>1. PICK h \in S : S = {h}
      BY <1>2
    <2>2. QED
      BY <2>1, FS_Singleton
  <1>3. QED
    BY <1>1, <1>2

\* Without a scheduler a position has one sell in flight: a decision that finds
\* none pending holds the mutex until its own sell is saved.  The scheduler, which
\* takes no mutex, makes the hypothesis necessary.
THEOREM OneSellInFlight == ASSUME ~ScheduledSell PROVE Spec => []OneInFlightSell
  <1>. DEFINE All == TypeOK /\ LocalsOK /\ UnderMutex /\ BuySteps /\ SellInv
  <1>1. Init => All
    <2>1. Init => LocalsOK
      BY DEF Init, LocalsOK, Local, NoJob
    <2>2. Init => UnderMutex /\ BuySteps
      BY DEF Init, UnderMutex, Working, BuySteps
    <2>3. Init => SellInv
      BY DEF Init, SellInv, Selling, Young, NoAction
    <2>4. QED
      BY <2>1, <2>2, <2>3, TypeInit
  <1>2. All /\ [Next]_vars => All'
    <2>1. TypeOK /\ LocalsOK /\ [Next]_vars => TypeOK' /\ LocalsOK'
      BY TypeStep, LocalsStep
    <2>2. ASSUME SellInv, UNCHANGED vars PROVE SellInv'
      BY <2>2 DEF vars, tables, chain, SellInv, Selling, Young
    <2>3. QED
      BY <2>1, <2>2, MutexStep, BuyStepsKept, SellProcess, SellOther DEF Next
  <1>3. All => OneInFlightSell
    <2>. SUFFICES ASSUME All PROVE OneInFlightSell
      OBVIOUS
    <2>1. ASSUME NEW h \in InFlightSells, NEW t \in Threads,
                 pc[t] \in {"save", "saveBack", "saveInsert"}, job[t].hash = h
          PROVE  pc[t] \in Working /\ \A g \in Hashes : ~Young(g)
      BY <2>1 DEF InFlightSells, SellInv, Selling, Working
    <2>2. \A g, h \in InFlightSells : g = h
      <3>. SUFFICES ASSUME NEW g \in InFlightSells, NEW h \in InFlightSells PROVE g = h
        OBVIOUS
      <3>1. CASE BeingSaved(g) /\ BeingSaved(h)
        <4>1. PICK t \in Threads : pc[t] \in {"save", "saveBack", "saveInsert"} /\ job[t].hash = g
          BY <3>1 DEF BeingSaved
        <4>2. PICK u \in Threads : pc[u] \in {"save", "saveBack", "saveInsert"} /\ job[u].hash = h
          BY <3>1 DEF BeingSaved
        <4>3. lock = t /\ lock = u
          BY <2>1, <4>1, <4>2, MutexOfWorking
        <4>4. QED
          BY <4>1, <4>2, <4>3
      <3>2. CASE ~BeingSaved(g) /\ ~BeingSaved(h)
        BY <3>2 DEF InFlightSells, SellInv, Young, Sent
      <3>3. CASE BeingSaved(g) /\ ~BeingSaved(h)
        BY <2>1, <3>3 DEF BeingSaved, InFlightSells, Young, Sent
      <3>4. CASE ~BeingSaved(g) /\ BeingSaved(h)
        BY <2>1, <3>4 DEF BeingSaved, InFlightSells, Young, Sent
      <3>5. QED
        BY <3>1, <3>2, <3>3, <3>4
    <2>3. QED
      BY <2>2, AtMostOne DEF OneInFlightSell
  <1>. HIDE DEF All
  <1>4. QED
    BY <1>1, <1>2, <1>3, PTL DEF Spec

-----------------------------------------------------------------------------
(* A nonce has two bids at most.                                           *)

\* At most one transaction, and at most two, bid for a nonce.
Single(n) == \A g, h \in Sent : tx[g].nonce = n /\ tx[h].nonce = n => g = h
Double == \A f, g, h \in Sent : tx[f].nonce = tx[g].nonce /\ tx[g].nonce = tx[h].nonce
                                => f = g \/ g = h \/ f = h

\* The row counts the bids of its nonce, as long as it names that nonce; a
\* goroutine about to submit the second bid knows of one.
BidInv ==
  /\ Double
  /\ \A h \in Sent : tx[h].nonce < nextNonce
  /\ buyRow.nonce < nextNonce
  /\ buyRow.status = "pending" /\ buyRow.nonce > 0 /\ buyRow.count = 0 => Single(buyRow.nonce)
  /\ \A t \in Threads :
        /\ pc[t] = "broadcast" /\ IsBuy(job[t].reason)
              /\ buyRow.status = "pending" /\ buyRow.nonce > 0
           => buyRow.count > 0 /\ Single(buyRow.nonce)
        /\ pc[t] = "update" => job[t].hash \in Sent
        /\ pc[t] = "update" /\ buyRow.status = "pending" /\ buyRow.count = 0
           => Single(tx[job[t].hash].nonce)
        /\ pc[t] = "cooldown" => ~IsBuy(job[t].reason)

\* Two goroutines never write the pending row at the same time.
LEMMA OneBuyer ==
  ASSUME LocalsOK, BuySteps, NEW t \in Threads,
         \/ pc[t] \in {"persist", "update"}
         \/ pc[t] = "broadcast" /\ IsBuy(job[t].reason)
  PROVE  lock = t
  BY ConstantsAssumption DEF LocalsOK, Local, BuySteps, ConstantsAssumption, Events

\* A step that submits nothing, and leaves the bids the row counts.
LEMMA BidFrame ==
  ASSUME TypeOK, BidInv, Sent' = Sent, \A h \in Sent : tx'[h].nonce = tx[h].nonce,
         nextNonce' = nextNonce,
         \/ buyRow'.status # "pending" /\ buyRow'.nonce \in {0, buyRow.nonce}
         \/ /\ buyRow.status = "pending"
            /\ buyRow'.nonce = buyRow.nonce /\ buyRow'.count = buyRow.count,
         \A t \in Threads :
            /\ pc'[t] = "broadcast" /\ IsBuy(job'[t].reason)
               => pc[t] = "broadcast" /\ IsBuy(job[t].reason)
            /\ pc'[t] = "update" => pc[t] = "update" /\ job'[t].hash = job[t].hash
            /\ pc'[t] = "cooldown" => ~IsBuy(job'[t].reason)
  PROVE  BidInv'
  <1>0. nextNonce \in Nat \ {0} /\ buyRow.nonce \in Nat
    BY DEF TypeOK, BuyRow
  <1>1. \A n : Single(n) => Single(n)'
    BY DEF Single
  <1>2. Double'
    BY DEF BidInv, Double
  <1>3. /\ \A h \in Sent' : tx'[h].nonce < nextNonce'
        /\ buyRow'.nonce < nextNonce'
    BY <1>0 DEF BidInv
  <1>4. ASSUME buyRow'.status = "pending"
        PROVE  buyRow.status = "pending" /\ buyRow'.nonce = buyRow.nonce /\ buyRow'.count = buyRow.count
    BY <1>4
  <1>5. buyRow'.status = "pending" /\ buyRow'.nonce > 0 /\ buyRow'.count = 0 => Single(buyRow.nonce)'
    BY <1>1, <1>4 DEF BidInv
  <1>6. ASSUME NEW t \in Threads
        PROVE  /\ pc'[t] = "broadcast" /\ IsBuy(job'[t].reason)
                     /\ buyRow'.status = "pending" /\ buyRow'.nonce > 0
                  => buyRow'.count > 0 /\ Single(buyRow.nonce)'
               /\ pc'[t] = "update" => job'[t].hash \in Sent'
               /\ pc'[t] = "update" /\ buyRow'.status = "pending" /\ buyRow'.count = 0
                  => Single(tx[job[t].hash].nonce)'
               /\ pc'[t] = "cooldown" => ~IsBuy(job'[t].reason)
    <2>1. pc'[t] = "broadcast" /\ IsBuy(job'[t].reason)
                     /\ buyRow'.status = "pending" /\ buyRow'.nonce > 0
                  => buyRow'.count > 0 /\ Single(buyRow.nonce)
      BY <1>4 DEF BidInv
    <2>2. pc'[t] = "update" => pc[t] = "update" /\ job'[t].hash \in Sent /\ job'[t].hash = job[t].hash
      BY DEF BidInv
    <2>3. pc'[t] = "update" /\ buyRow'.status = "pending" /\ buyRow'.count = 0
                  => Single(tx[job[t].hash].nonce)
      BY <1>4, <2>2 DEF BidInv
    <2>4. pc'[t] = "cooldown" => ~IsBuy(job'[t].reason)
      BY DEF BidInv
    <2>5. QED
      BY <1>1, <1>4, <2>1, <2>2, <2>3, <2>4 DEF Single
  <1>7. QED
    BY <1>2, <1>3, <1>5, <1>6 DEF BidInv

\* A new intent counts from nothing; a replacement is the second bid, once.
LEMMA BidPersist ==
  ASSUME TypeOK, LocalsOK, BuySteps, BidInv, NEW t \in Threads, PersistPendingBuy(t)
  PROVE  BidInv'
  <1>0. /\ pc \in [Threads -> PCs] /\ job \in [Threads -> Job] /\ buyRow \in BuyRow
        /\ nextNonce \in Nat \ {0} /\ UNCHANGED <<tx, nextNonce>> /\ pc[t] = "persist"
        /\ Sent' = Sent
    BY DEF TypeOK, PersistPendingBuy, chain, Sent
  <1>1. \A u \in Threads \ {t} : pc'[u] = pc[u] /\ job'[u] = job[u]
    BY ProcessFrame DEF ProcessStep
  <1>2. \A u \in Threads \ {t} : pc[u] # "update" /\ (pc[u] = "broadcast" => ~IsBuy(job[u].reason))
    BY <1>0, OneBuyer
  <1>3. pc'[t] \in {"idle", "broadcast"} /\ (pc'[t] = "broadcast" => job' = job)
    BY <1>0 DEF PersistPendingBuy, Return, Goto
  <1>4. \A u \in Threads : pc'[u] = "cooldown" => ~IsBuy(job'[u].reason)
    BY <1>1, <1>3 DEF BidInv
  <1>5. \A u \in Threads : pc'[u] # "update"
    BY <1>1, <1>2, <1>3
  <1>6. Double' /\ (\A h \in Sent' : tx'[h].nonce < nextNonce') /\ \A n : Single(n)' <=> Single(n)
    BY <1>0 DEF BidInv, Double, Single
  <1>7. CASE Return(t)
    <2>1. buyRow' \in {buyRow, NoRow}
      BY <1>0, <1>7 DEF PersistPendingBuy, Return, Goto
    <2>2. pc'[t] = "idle"
      BY <1>0, <1>7 DEF Return, Goto
    <2>3. \/ buyRow'.status # "pending" /\ buyRow'.nonce \in {0, buyRow.nonce}
          \/ /\ buyRow.status = "pending"
             /\ buyRow'.nonce = buyRow.nonce /\ buyRow'.count = buyRow.count
      BY <2>1 DEF NoRow
    <2>4. QED
      BY <1>0, <1>1, <1>4, <2>2, <2>3, BidFrame
  <1>8. CASE ~Return(t) /\ buyRow.status # "pending"
    <2>1. buyRow' = [NoRow EXCEPT !.status = "pending", !.old = buyRow.old]
      BY <1>8 DEF PersistPendingBuy
    <2>2. buyRow'.nonce = 0
      BY <2>1 DEF NoRow
    <2>3. QED
      BY <1>0, <1>4, <1>5, <1>6, <2>2 DEF BidInv
  <1>9. CASE ~Return(t) /\ buyRow.status = "pending"
    <2>1. MayReplace(buyRow) /\ buyRow' = [buyRow EXCEPT !.count = @ + 1, !.age = 0]
      BY <1>9 DEF PersistPendingBuy
    <2>2. buyRow.count = 0 /\ buyRow'.nonce = buyRow.nonce /\ buyRow'.count = 1
      BY <1>0, <2>1 DEF MayReplace, MaxPendingBuyReplacements, BuyRow
    <2>3. buyRow.nonce > 0 => Single(buyRow.nonce)
      BY <1>9, <2>2 DEF BidInv
    <2>4. buyRow'.nonce < nextNonce'
      BY <1>0, <2>2 DEF BidInv
    <2>5. buyRow'.nonce > 0 => Single(buyRow.nonce)'
      BY <1>6, <2>2, <2>3
    <2>6. QED
      BY <1>4, <1>5, <1>6, <2>2, <2>4, <2>5 DEF BidInv
  <1>10. QED
    BY <1>7, <1>8, <1>9

\* The bid goes to a new nonce, or to that of the row, which has one bid.
LEMMA BidBroadcast ==
  ASSUME TypeOK, LocalsOK, BuySteps, BidInv, NEW t \in Threads, Broadcast(t)
  PROVE  BidInv'
  <1>0. /\ pc \in [Threads -> PCs] /\ job \in [Threads -> Job] /\ buyRow \in BuyRow
        /\ tx \in [Hashes -> Tx] /\ nextNonce \in Nat \ {0} /\ pc[t] = "broadcast"
    BY DEF TypeOK, Broadcast
  <1>. DEFINE n == NonceFor(job[t].reason)
  <1>1. \A u \in Threads \ {t} : pc'[u] = pc[u] /\ job'[u] = job[u]
    BY ProcessFrame DEF ProcessStep
  <1>2. pc'[t] \in {"idle", "record", "save", "update"} /\ (pc'[t] = "update" => IsBuy(job[t].reason))
    BY <1>0 DEF Broadcast, Failed, Return, Goto
  <1>3. buyRow' = buyRow \/ buyRow' = NoRow
    BY DEF Broadcast, Failed
  <1>4. CASE UNCHANGED tx
    <2>1. Sent' = Sent
      BY <1>4 DEF Sent
    <2>2. UNCHANGED nextNonce /\ pc'[t] # "update"
      <3>1. ~\E h \in Hashes : tx[h].state = "none" /\ tx' = Submitted(h, job[t])
        BY <1>0, <1>4 DEF Submitted
      <3>2. Failed(t) /\ UNCHANGED nextNonce
        BY <3>1 DEF Broadcast
      <3>3. QED
        BY <1>0, <3>2 DEF Failed, Return, Goto
    <2>3. \/ buyRow'.status # "pending" /\ buyRow'.nonce \in {0, buyRow.nonce}
          \/ /\ buyRow.status = "pending"
             /\ buyRow'.nonce = buyRow.nonce /\ buyRow'.count = buyRow.count
      BY <1>3 DEF NoRow
    <2>4. \A u \in Threads : pc'[u] = "cooldown" => ~IsBuy(job'[u].reason)
      BY <1>1, <1>2 DEF BidInv
    <2>5. QED
      BY <1>1, <1>2, <1>4, <2>1, <2>2, <2>3, <2>4, BidFrame
  <1>5. CASE tx' # tx
    <2>1. PICK h \in Hashes : /\ tx[h].state = "none" /\ tx' = Submitted(h, job[t])
                              /\ nextNonce' = IF n = nextNonce THEN nextNonce + 1 ELSE nextNonce
                              /\ pc'[t] = "update" => job' = [job EXCEPT ![t].hash = h] /\ buyRow' = buyRow
      BY <1>0, <1>5 DEF Broadcast, Failed, Return, Goto
    <2>2. /\ Sent' = Sent \cup {h} /\ h \notin Sent /\ tx'[h].nonce = n
          /\ \A g \in Sent : tx'[g] = tx[g]
      BY <1>0, <2>1 DEF Sent, Submitted
    <2>3. \/ n = nextNonce
          \/ IsBuy(job[t].reason) /\ buyRow.status = "pending" /\ buyRow.nonce > 0 /\ n = buyRow.nonce
      BY DEF NonceFor
    <2>4. n \in Nat /\ \A g \in Sent : tx[g].nonce \in Nat
      BY <1>0, <2>3 DEF Sent, Tx, BuyRow
    <2>5. /\ n < nextNonce' /\ nextNonce <= nextNonce' /\ nextNonce' \in Nat
      BY <1>0, <2>1, <2>3, <2>4 DEF BidInv
    <2>. HIDE DEF n
    <2>6. \A m : m # n /\ Single(m) => Single(m)'
      BY <2>2 DEF Single
    <2>7. Single(n)
      <3>1. CASE n = nextNonce
        BY <1>0, <2>4, <3>1 DEF BidInv, Single
      <3>2. CASE IsBuy(job[t].reason) /\ buyRow.status = "pending" /\ buyRow.nonce > 0 /\ n = buyRow.nonce
        BY <1>0, <3>2 DEF BidInv
      <3>3. QED
        BY <2>3, <3>1, <3>2
    <2>8. Double'
      BY <2>2, <2>7 DEF Double, Single, BidInv
    <2>9. \A g \in Sent' : tx'[g].nonce < nextNonce'
      <3>1. ASSUME NEW g \in Sent PROVE tx'[g].nonce < nextNonce'
        BY <1>0, <2>2, <2>4, <2>5 DEF BidInv
      <3>2. QED
        BY <2>2, <2>5, <3>1
    <2>10. buyRow'.nonce < nextNonce'
      BY <1>0, <1>3, <2>5 DEF BidInv, NoRow, BuyRow
    <2>11. ASSUME NEW m, m = n, n = nextNonce PROVE Single(m)'
      <3>1. \A g \in Sent : tx[g].nonce # n
        BY <1>0, <2>4, <2>11 DEF BidInv
      <3>2. \A g \in Sent' : tx'[g].nonce = m => g = h
        BY <2>2, <2>11, <3>1
      <3>3. QED
        BY <3>2 DEF Single
    <2>12. buyRow'.status = "pending" => buyRow' = buyRow
      BY <1>3 DEF NoRow
    <2>13. buyRow'.status = "pending" /\ buyRow'.nonce > 0 /\ buyRow'.count = 0 => Single(buyRow.nonce)'
      <3>. SUFFICES ASSUME buyRow'.status = "pending", buyRow'.nonce > 0, buyRow'.count = 0
                    PROVE  Single(buyRow.nonce)'
        OBVIOUS
      <3>1. buyRow' = buyRow /\ Single(buyRow.nonce)
        BY <2>12 DEF BidInv
      <3>2. buyRow.nonce # n
        <4>1. CASE n = nextNonce
          BY <1>0, <4>1 DEF BidInv, BuyRow
        <4>2. CASE IsBuy(job[t].reason) /\ buyRow.status = "pending" /\ buyRow.nonce > 0
          BY <1>0, <3>1, <4>2 DEF BidInv
        <4>3. QED
          BY <2>3, <4>1, <4>2
      <3>3. QED
        BY <2>6, <3>1, <3>2
    <2>14. ASSUME NEW u \in Threads \ {t}, pc'[u] = "broadcast", IsBuy(job'[u].reason),
                  buyRow'.status = "pending", buyRow'.nonce > 0
           PROVE  buyRow'.count > 0 /\ Single(buyRow.nonce)'
      <3>1. buyRow' = buyRow /\ buyRow.count > 0 /\ Single(buyRow.nonce)
        BY <1>1, <2>12, <2>14 DEF BidInv
      <3>2. ~IsBuy(job[t].reason)
        BY <1>0, <1>1, <2>14, OneBuyer
      <3>3. n = nextNonce /\ buyRow.nonce # nextNonce
        BY <1>0, <2>3, <3>2 DEF BidInv, BuyRow
      <3>4. QED
        BY <2>6, <3>1, <3>3
    <2>15. ASSUME NEW u \in Threads \ {t}, pc'[u] = "update"
           PROVE  /\ job'[u].hash \in Sent'
                  /\ buyRow'.status = "pending" /\ buyRow'.count = 0 => Single(tx[job[u].hash].nonce)'
      <3>1. pc[u] = "update" /\ job'[u].hash = job[u].hash /\ job[u].hash \in Sent
        BY <1>1, <2>15 DEF BidInv
      <3>2. buyRow'.status = "pending" /\ buyRow'.count = 0 => Single(tx[job[u].hash].nonce)
        BY <2>12, <3>1 DEF BidInv
      <3>3. ~IsBuy(job[t].reason)
        BY <1>0, <3>1, OneBuyer
      <3>4. n = nextNonce /\ tx[job[u].hash].nonce # n
        BY <1>0, <2>3, <2>4, <3>1, <3>3 DEF BidInv
      <3>5. tx'[job'[u].hash].nonce = tx[job[u].hash].nonce
        BY <2>2, <3>1
      <3>6. QED
        BY <2>2, <2>6, <3>1, <3>2, <3>4, <3>5 DEF Single
    <2>16. ASSUME pc'[t] = "update"
           PROVE  /\ job'[t].hash \in Sent'
                  /\ buyRow'.status = "pending" /\ buyRow'.count = 0 => Single(tx[job[t].hash].nonce)'
      <3>1. job'[t].hash = h /\ buyRow' = buyRow
        BY <1>0, <2>1, <2>16 DEF Job
      <3>2. buyRow.status = "pending" /\ buyRow.count = 0 => n = nextNonce
        BY <1>0, <1>2, <2>3, <2>16 DEF BidInv
      <3>3. job'[t].hash \in Sent' /\ tx'[job'[t].hash].nonce = n
        BY <2>2, <3>1
      <3>4. QED
        BY <2>11, <3>1, <3>2, <3>3
    <2>17. \A u \in Threads : pc'[u] = "cooldown" => ~IsBuy(job'[u].reason)
      BY <1>1, <1>2 DEF BidInv
    <2>18. \A u \in Threads :
             pc'[u] = "broadcast" /\ IsBuy(job'[u].reason)
                /\ buyRow'.status = "pending" /\ buyRow'.nonce > 0
             => buyRow'.count > 0 /\ Single(buyRow.nonce)'
      BY <1>2, <2>14
    <2>19. \A u \in Threads : pc'[u] = "update" =>
             /\ job'[u].hash \in Sent'
             /\ buyRow'.status = "pending" /\ buyRow'.count = 0 => Single(tx[job[u].hash].nonce)'
      BY <2>15, <2>16
    <2>20. QED
      BY <2>8, <2>9, <2>10, <2>13, <2>17, <2>18, <2>19 DEF BidInv
  <1>6. QED
    BY <1>4, <1>5

\* The row takes the nonce of the bid that was just made.
LEMMA BidUpdate ==
  ASSUME TypeOK, LocalsOK, BuySteps, BidInv, NEW t \in Threads, UpdatePendingBroadcast(t)
  PROVE  BidInv'
  <1>0. /\ pc \in [Threads -> PCs] /\ job \in [Threads -> Job] /\ buyRow \in BuyRow
        /\ UNCHANGED <<tx, nextNonce>> /\ Sent' = Sent /\ pc[t] = "update"
    BY DEF TypeOK, UpdatePendingBroadcast, chain, Sent
  <1>1. /\ \A u \in Threads \ {t} : pc'[u] = pc[u] /\ job'[u] = job[u]
        /\ pc'[t] \in {"idle", "save"}
    BY <1>0, ProcessFrame DEF ProcessStep, UpdatePendingBroadcast, Return, Goto
  <1>2. CASE buyRow.status # "pending"
    <2>1. UNCHANGED buyRow
      BY <1>2 DEF UpdatePendingBroadcast
    <2>2. \A u \in Threads : pc'[u] = "cooldown" => ~IsBuy(job'[u].reason)
      BY <1>1 DEF BidInv
    <2>3. QED
      BY <1>0, <1>1, <1>2, <2>1, <2>2, BidFrame
  <1>3. CASE buyRow.status = "pending"
    <2>. DEFINE h == job[t].hash
    <2>1. buyRow'.nonce = tx[h].nonce /\ buyRow'.count = buyRow.count
      BY <1>0, <1>3 DEF UpdatePendingBroadcast, BuyRow
    <2>2. /\ h \in Sent /\ tx[h].nonce < nextNonce
          /\ buyRow.count = 0 => Single(tx[h].nonce)
      BY <1>0, <1>3 DEF BidInv
    <2>3. \A n : Single(n)' <=> Single(n)
      BY <1>0 DEF Single
    <2>. HIDE DEF h
    <2>4. buyRow'.count = 0 => Single(buyRow.nonce)'
      BY <2>1, <2>2, <2>3
    <2>5. \A u \in Threads : /\ pc'[u] = "broadcast" => ~IsBuy(job'[u].reason)
                             /\ pc'[u] # "update"
      BY <1>0, <1>1, OneBuyer
    <2>6. \A u \in Threads : pc'[u] = "cooldown" => ~IsBuy(job'[u].reason)
      BY <1>1 DEF BidInv
    <2>7. Double' /\ (\A g \in Sent' : tx'[g].nonce < nextNonce') /\ buyRow'.nonce < nextNonce'
      BY <1>0, <2>1, <2>2 DEF BidInv, Double
    <2>8. QED
      BY <2>4, <2>5, <2>6, <2>7 DEF BidInv
  <1>4. QED
    BY <1>2, <1>3

\* Where a goroutine goes by the other steps.
LEMMA BidSelf ==
  ASSUME TypeOK, LocalsOK, BidInv, NEW t \in Threads, ProcessStep(t),
         ~PersistPendingBuy(t), ~Broadcast(t), ~UpdatePendingBroadcast(t)
  PROVE  /\ pc'[t] = "broadcast" => ~IsBuy(job'[t].reason)
         /\ pc'[t] # "update"
         /\ pc'[t] = "cooldown" => ~IsBuy(job'[t].reason)
  <1>0. pc \in [Threads -> PCs] /\ job \in [Threads -> Job]
    BY DEF TypeOK
  <1>1. CASE Return(t)
    BY <1>0, <1>1 DEF Return, Goto
  <1>2. CASE (Decide(t) \/ Preflight(t) \/ SavePendingAction(t) \/ SaveFilledSell(t)) /\ ~Return(t)
    BY <1>0, <1>2 DEF Decide, Preflight, SavePendingAction, SaveFilledSell, Goto
  <1>3. CASE MarkStrategyEvent(t) /\ ~Return(t)
    BY <1>0, <1>3 DEF MarkStrategyEvent, Goto, IsBuy
  <1>4. CASE SaveCooldown(t)
    BY <1>0, <1>4 DEF SaveCooldown, Goto, BidInv
  <1>5. CASE (InsertPendingAction(t) \/ RecordSellFailure(t) \/ ReadWalletAfterFailure(t)) /\ ~Return(t)
    BY <1>0, <1>5 DEF InsertPendingAction, RecordSellFailure, ReadWalletAfterFailure, Goto
  <1>6. QED
    BY <1>1, <1>2, <1>3, <1>4, <1>5
    DEF ProcessStep, ApplyOwnFill, ClearUntradeable, ResetPosition

\* No step of Process makes a third bid.
LEMMA BidProcess ==
  ASSUME TypeOK, LocalsOK, BuySteps, BidInv, NEW t \in Threads, ProcessStep(t)
  PROVE  BidInv'
  <1>1. CASE PersistPendingBuy(t) \/ Broadcast(t) \/ UpdatePendingBroadcast(t)
    BY <1>1, BidPersist, BidBroadcast, BidUpdate
  <1>2. CASE ~PersistPendingBuy(t) /\ ~Broadcast(t) /\ ~UpdatePendingBroadcast(t)
    <2>0. buyRow \in BuyRow
      BY DEF TypeOK
    <2>1. UNCHANGED <<tx, nextNonce>>
      BY <1>2
      DEF ProcessStep, chain, ApplyOwnFill, Decide, Preflight, ClearUntradeable,
          MarkStrategyEvent, SaveCooldown, SavePendingAction, SaveFilledSell,
          InsertPendingAction, RecordSellFailure, ReadWalletAfterFailure, ResetPosition
    <2>2. Sent' = Sent
      BY <2>1 DEF Sent
    <2>3. buyRow' \in {buyRow, ConfirmRow(buyRow)}
      BY <1>2
      DEF ProcessStep, tables, ApplyOwnFill, Decide, Preflight, ClearUntradeable,
          MarkStrategyEvent, SaveCooldown, SavePendingAction, SaveFilledSell,
          InsertPendingAction, RecordSellFailure, ReadWalletAfterFailure, ResetPosition
    <2>4. ConfirmRow(buyRow).status # "pending" /\ ConfirmRow(buyRow).nonce = buyRow.nonce
      BY <2>0 DEF ConfirmRow, BuyRow
    <2>5. \/ buyRow'.status # "pending" /\ buyRow'.nonce \in {0, buyRow.nonce}
          \/ /\ buyRow.status = "pending"
             /\ buyRow'.nonce = buyRow.nonce /\ buyRow'.count = buyRow.count
      BY <2>3, <2>4
    <2>6. \A u \in Threads :
            /\ pc'[u] = "broadcast" /\ IsBuy(job'[u].reason)
               => pc[u] = "broadcast" /\ IsBuy(job[u].reason)
            /\ pc'[u] = "update" => pc[u] = "update" /\ job'[u].hash = job[u].hash
            /\ pc'[u] = "cooldown" => ~IsBuy(job'[u].reason)
      <3>1. \A u \in Threads : pc[u] = "cooldown" => ~IsBuy(job[u].reason)
        BY DEF BidInv
      <3>2. QED
        BY <1>2, <3>1, BidSelf, ProcessFrame
    <2>7. QED
      BY <2>1, <2>2, <2>5, <2>6, BidFrame
  <1>3. QED
    BY <1>1, <1>2

\* Nor does the ticker, which deletes the row, the chain or a crash.
LEMMA BidOther ==
  ASSUME TypeOK, LocalsOK, BidInv,
         TickStep \/ Hear \/ (\E long \in BOOLEAN : Elapse(long)) \/ Mine \/ Crash
  PROVE  BidInv'
  <1>0. /\ pc \in [Threads -> PCs] /\ job \in [Threads -> Job] /\ buyRow \in BuyRow
        /\ tx \in [Hashes -> Tx] /\ {"tick", "worker"} \subseteq Threads
    BY DEF TypeOK, Threads
  <1>1. UNCHANGED nextNonce
    BY DEF TickStep, Hear, Elapse, Mine, Crash, chain, Arrive, SelectExpired,
       ExpirePendingAction, ExpireDone, SelectExpiredBuy, DeleteExpiredBuy, SelectDue,
       ClaimDue, Poll, PollEvent, PollDone
  <1>2. Sent' = Sent /\ \A h \in Sent : tx'[h].nonce = tx[h].nonce
    <2>1. CASE Mine
      <3>1. PICK g \in Hashes, s \in {"mined", "reverted"} :
               tx[g].state = "pool" /\ tx' = Included(g, s)
        BY <2>1 DEF Mine
      <3>2. \A h \in Hashes : /\ tx'[h].nonce = tx[h].nonce
                              /\ tx'[h].state = "none" <=> tx[h].state = "none"
        BY <1>0, <3>1 DEF Included, Tx
      <3>3. QED
        BY <3>2 DEF Sent
    <2>2. CASE UNCHANGED tx
      BY <2>2 DEF Sent
    <2>3. QED
      BY <2>1, <2>2
      DEF TickStep, Hear, Elapse, Crash, chain, Arrive, SelectExpired,
          ExpirePendingAction, ExpireDone, SelectExpiredBuy, DeleteExpiredBuy, SelectDue,
          ClaimDue, Poll, PollEvent, PollDone
  <1>3. \/ buyRow'.status # "pending" /\ buyRow'.nonce \in {0, buyRow.nonce}
        \/ /\ buyRow.status = "pending"
           /\ buyRow'.nonce = buyRow.nonce /\ buyRow'.count = buyRow.count
    <2>1. CASE UNCHANGED buyRow
      BY <2>1
    <2>2. CASE DeleteExpiredBuy
      BY <2>2 DEF DeleteExpiredBuy, NoRow
    <2>3. ASSUME NEW long \in BOOLEAN, Elapse(long)
          PROVE  \/ buyRow'.status # "pending" /\ buyRow'.nonce \in {0, buyRow.nonce}
                 \/ /\ buyRow.status = "pending"
                    /\ buyRow'.nonce = buyRow.nonce /\ buyRow'.count = buyRow.count
      <3>1. CASE buyRow.status = "none"
        BY <2>3, <3>1 DEF Elapse, NoRow
      <3>2. CASE buyRow.status # "none"
        <4>1. /\ buyRow'.status = buyRow.status
              /\ buyRow'.nonce = buyRow.nonce /\ buyRow'.count = buyRow.count
          BY <1>0, <2>3, <3>2 DEF Elapse, BuyRow
        <4>2. QED
          BY <4>1
      <3>3. QED
        BY <3>1, <3>2
    <2>4. QED
      BY <2>1, <2>2, <2>3
      DEF TickStep, Hear, Mine, Crash, tables, Arrive, SelectExpired, ExpirePendingAction,
          ExpireDone, SelectExpiredBuy, SelectDue, ClaimDue, Poll, PollEvent, PollDone
  <1>4. \A t \in Threads :
           /\ pc'[t] = "broadcast" /\ IsBuy(job'[t].reason)
              => pc[t] = "broadcast" /\ IsBuy(job[t].reason)
           /\ pc'[t] = "update" => pc[t] = "update" /\ job'[t].hash = job[t].hash
           /\ pc'[t] = "cooldown" => ~IsBuy(job'[t].reason)
    <2>0. \A t \in Threads : pc[t] = "cooldown" => ~IsBuy(job[t].reason)
      BY DEF BidInv
    <2>1. CASE \A t \in Threads : \/ pc'[t] = pc[t] /\ job'[t] = job[t]
                                  \/ pc'[t] \in {"idle", "arrived", "record", "preflight"}
      BY <2>0, <2>1
    <2>2. ASSUME NEW t \in Threads, NEW x, Arrive(t, x)
          PROVE  \A u \in Threads : \/ pc'[u] = pc[u] /\ job'[u] = job[u]
                                    \/ pc'[u] \in {"idle", "arrived", "record", "preflight"}
      BY <1>0, <2>2 DEF Arrive, Goto
    <2>3. CASE Hear \/ PollEvent
      BY <1>0, <2>1, <2>2, <2>3 DEF Hear, PollEvent
    <2>4. CASE ExpirePendingAction \/ SelectDue
      BY <1>0, <2>1, <2>4 DEF ExpirePendingAction, SelectDue, Goto
    <2>5. CASE SelectExpiredBuy \/ DeleteExpiredBuy
      BY <1>0, <2>1, <2>5 DEF SelectExpiredBuy, DeleteExpiredBuy
    <2>6. CASE ClaimDue
      <3>1. pc["tick"] = "claim" /\ ~IsBuy(job["tick"].reason)
        BY <1>0, <2>6 DEF ClaimDue, LocalsOK, Local
      <3>2. QED
        BY <1>0, <2>0, <2>6, <3>1 DEF ClaimDue, Return, Goto
    <2>7. CASE Crash
      BY <2>7 DEF Crash
    <2>8. CASE UNCHANGED <<pc, job>>
      BY <2>0, <2>8
    <2>9. QED
      BY <2>3, <2>4, <2>5, <2>6, <2>7, <2>8
      DEF TickStep, Elapse, Mine, SelectExpired, ExpireDone, Poll, PollDone
  <1>5. QED
    BY <1>1, <1>2, <1>3, <1>4, BidFrame

\* A set in which two of any three are the same has at most two.
LEMMA AtMostTwo ==
  ASSUME NEW S, \A f, g, h \in S : f = g \/ g = h \/ f = h
  PROVE  Cardinality(S) <= 2
  <1>1. CASE S = {}
    BY <1>1, FS_EmptySet
  <1>2. CASE S # {}
    <2>1. PICK f \in S : TRUE
      BY <1>2
    <2>2. \A g, h \in S \ {f} : g = h
      BY <2>1
    <2>3. Cardinality(S \ {f}) <= 1
      BY <2>2, AtMostOne
    <2>4. IsFiniteSet(S \ {f})
      <3>1. CASE S \ {f} = {}
        BY <3>1, FS_EmptySet
      <3>2. CASE S \ {f} # {}
        <4>1. PICK g \in S \ {f} : S \ {f} = {g}
          BY <2>2, <3>2
        <4>2. QED
          BY <4>1, FS_Singleton
      <3>3. QED
        BY <3>1, <3>2
    <2>5. Cardinality((S \ {f}) \cup {f}) = Cardinality(S \ {f}) + 1
      BY <2>4, FS_AddElement
    <2>6. (S \ {f}) \cup {f} = S /\ Cardinality(S \ {f}) \in Nat
      BY <2>1, <2>4, FS_CardinalityType
    <2>7. QED
      BY <2>3, <2>5, <2>6
  <1>3. QED
    BY <1>1, <1>2

\* A nonce is bid for twice at most, although the ticker deletes the row that
\* counts its bids, answers are lost and the process restarts.
THEOREM TwoBidsPerNonce == Spec => []BoundedReplacement
  <1>. DEFINE All == TypeOK /\ LocalsOK /\ BuySteps /\ BidInv
  <1>1. Init => All
    <2>1. Init => LocalsOK
      BY DEF Init, LocalsOK, Local, NoJob
    <2>2. Init => BuySteps
      BY DEF Init, BuySteps
    <2>3. Init => BidInv
      BY DEF Init, BidInv, Double, Sent, NoTx, NoRow
    <2>4. QED
      BY <2>1, <2>2, <2>3, TypeInit
  <1>2. All /\ [Next]_vars => All'
    <2>1. TypeOK /\ LocalsOK /\ [Next]_vars => TypeOK' /\ LocalsOK'
      BY TypeStep, LocalsStep
    <2>2. ASSUME BidInv, UNCHANGED vars PROVE BidInv'
      BY <2>2 DEF vars, tables, chain, BidInv, Double, Single, Sent
    <2>3. QED
      BY <2>1, <2>2, BuyStepsKept, BidProcess, BidOther DEF Next
  <1>3. All => BoundedReplacement
    <2>. SUFFICES ASSUME All, NEW n \in 1 .. nextNonce - 1
                  PROVE  Cardinality({h \in Sent : tx[h].nonce = n}) <= 2
      BY DEF BoundedReplacement, MaxPendingBuyReplacements
    <2>. DEFINE bids == {h \in Sent : tx[h].nonce = n}
    <2>1. \A f, g, h \in bids : f = g \/ g = h \/ f = h
      BY DEF BidInv, Double
    <2>. HIDE DEF bids
    <2>2. Cardinality(bids) <= 2
      BY <2>1, AtMostTwo
    <2>3. QED
      BY <2>2 DEF bids
  <1>. HIDE DEF All
  <1>4. QED
    BY <1>1, <1>2, <1>3, PTL DEF Spec
-----------------------------------------------------------------------------
(* No token out of nothing.                                                *)

\* The chain takes the nonces of the wallet one after the other, each once.
Used(h) == tx[h].state \in {"mined", "reverted"}
ChainOrder ==
  /\ \A h \in Sent : tx[h].nonce # 0
  /\ \A g, h \in Hashes : Used(g) /\ (Used(h) \/ tx[h].state = "pool")
                             /\ tx[g].nonce = tx[h].nonce => g = h
  /\ \A h \in Hashes : Used(h) => \A n \in 1 .. tx[h].nonce - 1 : NonceUsed(n)

\* What the chain placed behind a nonce.  The wallet holds the tokens it bought
\* there, but for the ones it sold there.
After(side, n) == {h \in MinedOf(side) : tx[h].nonce > n}
Solvent == \A n \in Nat : Tokens(After("buy", n)) <= wallet + Tokens(After("sell", n))

\* The buys that are still to be accounted, and before any sell behind them.
InTimeOf(R) == {h \in MinedOf("buy") \ R :
                   \A g \in R : tx[g].side = "sell" => ~(tx[g].nonce > tx[h].nonce)}
Due == Tokens(InTimeOf(recorded))
Cover == wallet + Tokens(Outstanding) + Tokens(late)

\* The amounts that the row has, or will have when a copy is written back.
Amounts == {position.amount} \cup {job[t].snap.amount : t \in {u \in Threads : WritesBack(u)}}
PhantomInv ==
  /\ recorded \subseteq Mined /\ late \subseteq recorded
  /\ ChainOrder /\ Solvent
  /\ \A a \in Amounts : a + Due <= Cover

\* The tokens of a set of transactions are a number, grow with the set, and
\* depend on nothing but the quantities.
LEMMA TokensType ==
  ASSUME TypeOK, NEW S \in SUBSET Hashes
  PROVE  IsFiniteSet(S) /\ Tokens(S) \in Nat /\ (\A h \in S : tx[h].qty \in Nat)
  <1>1. IsFiniteSet(S)
    BY ConstantsAssumption, FS_Subset DEF ConstantsAssumption
  <1>2. \A h \in Hashes : tx[h].qty \in Nat
    BY DEF TypeOK, Tx
  <1>. DEFINE qty == [h \in Hashes |-> tx[h].qty]
  <1>3. \A h \in S : qty[h] \in Nat
    BY <1>2
  <1>4. Tokens(S) = Total(qty, S)
    BY DEF Tokens
  <1>. HIDE DEF qty
  <1>5. QED
    BY <1>1, <1>2, <1>3, <1>4, TotalType

LEMMA TokensAdd ==
  ASSUME TypeOK, NEW S \in SUBSET Hashes, NEW h \in Hashes \ S
  PROVE  Tokens(S \cup {h}) = tx[h].qty + Tokens(S)
  <1>. DEFINE qty == [g \in Hashes |-> tx[g].qty]
  <1>1. \A g \in S \cup {h} : qty[g] \in Nat
    BY DEF TypeOK, Tx
  <1>2. Tokens(S) = Total(qty, S) /\ Tokens(S \cup {h}) = Total(qty, S \cup {h})
        /\ qty[h] = tx[h].qty
    BY DEF Tokens
  <1>. HIDE DEF qty
  <1>3. Total(qty, S \cup {h}) = qty[h] + Total(qty, S)
    BY <1>1, TokensType, TotalAdd
  <1>4. QED
    BY <1>2, <1>3

LEMMA TokensSubset ==
  ASSUME TypeOK, NEW S \in SUBSET Hashes, NEW T \in SUBSET S
  PROVE  Tokens(T) <= Tokens(S)
  <1>. DEFINE qty == [g \in Hashes |-> tx[g].qty]
  <1>1. \A g \in S : qty[g] \in Nat
    BY DEF TypeOK, Tx
  <1>2. Tokens(S) = Total(qty, S) /\ Tokens(T) = Total(qty, T)
    BY DEF Tokens
  <1>. HIDE DEF qty
  <1>3. QED
    BY <1>1, <1>2, TokensType, TotalSubset

LEMMA TokensEmpty == Tokens({}) = 0
  BY TotalEmpty DEF Tokens

\* The tokens of a set after a step: Tokens(S)', for a set of the state after it.
NextTokens(S) == Total([h \in Hashes |-> tx'[h].qty], S)
LEMMA TokensStable ==
  ASSUME TypeOK, NEW S \in SUBSET Hashes, \A h \in S : tx'[h].qty = tx[h].qty
  PROVE  NextTokens(S) = Tokens(S)
  <1>. DEFINE qty == [g \in Hashes |-> tx[g].qty]
              next == [g \in Hashes |-> tx'[g].qty]
  <1>1. \A g \in S : qty[g] \in Nat /\ next[g] = qty[g]
    BY DEF TypeOK, Tx
  <1>2. Tokens(S) = Total(qty, S) /\ NextTokens(S) = Total(next, S)
    BY DEF Tokens, NextTokens
  <1>. HIDE DEF qty, next
  <1>3. QED
    BY <1>1, <1>2, TokensType, TotalSame

-----------------------------------------------------------------------------

\* The chain changes with a broadcast or a block only.
LEMMA ChainSteps ==
  ASSUME [Next]_vars
  PROVE  UNCHANGED <<tx, wallet>> \/ (\E t \in Threads : Broadcast(t)) \/ Mine
  <1>1. ASSUME NEW t \in Threads, ProcessStep(t) PROVE UNCHANGED <<tx, wallet>> \/ Broadcast(t)
    BY <1>1 DEF ProcessStep, chain,
       ApplyOwnFill, Decide, Preflight, ClearUntradeable, MarkStrategyEvent,
       PersistPendingBuy, SaveCooldown, UpdatePendingBroadcast, SavePendingAction,
       SaveFilledSell, InsertPendingAction, RecordSellFailure, ReadWalletAfterFailure,
       ResetPosition
  <1>2. ASSUME TickStep PROVE UNCHANGED <<tx, wallet>>
    BY <1>2 DEF TickStep, chain, SelectExpired, ExpirePendingAction, ExpireDone,
       SelectExpiredBuy, DeleteExpiredBuy, SelectDue, ClaimDue, Poll, PollEvent, PollDone,
       Arrive
  <1>3. UNCHANGED vars \/ Hear \/ Crash \/ (\E long \in BOOLEAN : Elapse(long))
           => UNCHANGED <<tx, wallet>>
    BY DEF vars, chain, Hear, Arrive, Crash, Elapse
  <1>4. QED
    BY <1>1, <1>2, <1>3 DEF Next

\* A broadcast adds a transaction to the pool, whose nonce no block has used.
LEMMA BroadcastAdds ==
  ASSUME TypeOK, NEW t \in Threads, Broadcast(t), tx' # tx
  PROVE  \E h \in Hashes :
            /\ tx[h].state = "none" /\ tx'[h].state = "pool"
            /\ tx'[h].nonce # 0 /\ ~NonceUsed(tx'[h].nonce)
            /\ \A g \in Hashes \ {h} : tx'[g] = tx[g]
  <1>1. PICK h \in Hashes : /\ tx[h].state = "none" /\ ~NonceUsed(NonceFor(job[t].reason))
                            /\ tx' = Submitted(h, job[t])
    BY DEF Broadcast
  <1>2. NonceFor(job[t].reason) # 0
    BY DEF TypeOK, NonceFor, BuyRow
  <1>3. /\ tx'[h].state = "pool" /\ tx'[h].nonce = NonceFor(job[t].reason)
        /\ \A g \in Hashes \ {h} : tx'[g] = tx[g]
    BY <1>1 DEF Submitted, TypeOK
  <1>4. QED
    BY <1>1, <1>2, <1>3

\* A block takes the next nonce, and drops the other bids for it.
Placed(h) ==
  /\ tx[h].state = "pool" /\ tx'[h].state \in {"mined", "reverted"}
  /\ \A n \in 1 .. tx[h].nonce - 1 : NonceUsed(n)
  /\ \A g \in Hashes : /\ tx'[g].nonce = tx[g].nonce /\ tx'[g].side = tx[g].side
                       /\ tx'[g].qty = tx[g].qty
  /\ \A g \in Hashes \ {h} : \/ tx'[g].state = tx[g].state
                             \/ tx[g].state = "pool" /\ tx'[g].state = "dropped"
  /\ \A g \in Hashes \ {h} : tx[g].nonce = tx[h].nonce => tx'[g].state # "pool"
  /\ wallet' = IF tx'[h].state = "reverted" THEN wallet
               ELSE IF tx[h].side = "buy" THEN wallet + tx[h].qty ELSE wallet - tx[h].qty
  /\ tx'[h].state = "mined" /\ tx[h].side # "buy" => tx[h].qty <= wallet

LEMMA MinePlaces ==
  ASSUME TypeOK, Mine PROVE \E h \in Hashes : Placed(h)
  <1>1. PICK h \in Hashes :
          /\ tx[h].state = "pool"
          /\ \A n \in 1 .. tx[h].nonce - 1 : NonceUsed(n)
          /\ \/ /\ tx[h].side = "buy" \/ tx[h].qty <= wallet
                /\ tx' = Included(h, "mined")
                /\ wallet' = IF tx[h].side = "buy" THEN wallet + tx[h].qty
                             ELSE wallet - tx[h].qty
             \/ tx' = Included(h, "reverted") /\ UNCHANGED wallet
    BY DEF Mine
  <1>2. PICK s \in {"mined", "reverted"} : tx' = Included(h, s)
    BY <1>1
  <1>3. tx \in [Hashes -> Tx]
    BY DEF TypeOK
  <1>4. /\ tx'[h].state = s
        /\ \A g \in Hashes : /\ tx'[g].nonce = tx[g].nonce /\ tx'[g].side = tx[g].side
                             /\ tx'[g].qty = tx[g].qty
        /\ \A g \in Hashes \ {h} : tx'[g].state = IF tx[g].state = "pool" /\ tx[g].nonce = tx[h].nonce
                                                  THEN "dropped" ELSE tx[g].state
    BY <1>2, <1>3 DEF Included, Tx
  <1>5. \/ s = "mined" /\ (tx[h].side = "buy" \/ tx[h].qty <= wallet)
           /\ wallet' = IF tx[h].side = "buy" THEN wallet + tx[h].qty ELSE wallet - tx[h].qty
        \/ s = "reverted" /\ wallet' = wallet
    <2>1. \A r : tx' = Included(h, r) => tx'[h].state = r
      BY <1>3 DEF Included, Tx
    <2>2. QED
      BY <1>1, <1>2, <2>1
  <1>6. \A g \in Hashes \ {h} : tx[g].nonce = tx[h].nonce => tx'[g].state # "pool"
    BY <1>4
  <1>7. QED
    BY <1>1, <1>4, <1>5, <1>6 DEF Placed

\* It is newer than all that the chain holds.
LEMMA PlacedIsNewest ==
  ASSUME TypeOK, ChainOrder, NEW h \in Hashes, Placed(h)
  PROVE  \A g \in Hashes : Used(g) => tx[g].nonce < tx[h].nonce
  <1>0. /\ \A g \in Hashes : tx[g].nonce \in Nat
        /\ tx[h].state = "pool" /\ tx[h].nonce # 0
    BY DEF TypeOK, Tx, Placed, ChainOrder, Sent
  <1>1. ~NonceUsed(tx[h].nonce)
    <2>. SUFFICES ASSUME NEW g \in Hashes, tx[g].nonce = tx[h].nonce, Used(g) PROVE FALSE
      BY DEF NonceUsed, Used
    <2>1. g = h
      BY <1>0 DEF ChainOrder
    <2>2. QED
      BY <1>0, <2>1 DEF Used
  <1>2. SUFFICES ASSUME NEW g \in Hashes, Used(g), ~(tx[g].nonce < tx[h].nonce) PROVE FALSE
    OBVIOUS
  <1>3. CASE tx[g].nonce = tx[h].nonce
    BY <1>1, <1>2, <1>3 DEF NonceUsed, Used
  <1>4. CASE tx[g].nonce # tx[h].nonce
    <2>1. tx[h].nonce \in 1 .. tx[g].nonce - 1
      BY <1>0, <1>2, <1>4
    <2>2. NonceUsed(tx[h].nonce)
      BY <1>2, <2>1 DEF ChainOrder
    <2>3. QED
      BY <1>1, <2>2
  <1>5. QED
    BY <1>3, <1>4

\* The order of the chain is kept.
LEMMA OrderStep == ASSUME TypeOK, ChainOrder, [Next]_vars PROVE ChainOrder'
  <1>1. CASE UNCHANGED tx
    BY <1>1 DEF ChainOrder, Sent, Used, NonceUsed
  <1>2. ASSUME NEW t \in Threads, Broadcast(t), tx' # tx PROVE ChainOrder'
    <2>1. PICK h \in Hashes :
            /\ tx[h].state = "none" /\ tx'[h].state = "pool"
            /\ tx'[h].nonce # 0 /\ ~NonceUsed(tx'[h].nonce)
            /\ \A g \in Hashes \ {h} : tx'[g] = tx[g]
      BY <1>2, BroadcastAdds
    <2>2. \A g \in Hashes : Used(g)' <=> Used(g)
      BY <2>1 DEF Used
    <2>3. \A g \in Hashes : Used(g) => g # h /\ tx'[g] = tx[g] /\ tx[g].nonce # tx'[h].nonce
      BY <2>1 DEF Used, NonceUsed
    <2>4. \A n : NonceUsed(n) => NonceUsed(n)'
      BY <2>1 DEF NonceUsed
    <2>5. \A g \in Sent' : tx'[g].nonce # 0
      BY <2>1 DEF ChainOrder, Sent
    <2>6. \A f, g \in Hashes : Used(f)' /\ (Used(g)' \/ tx'[g].state = "pool")
                                  /\ tx'[f].nonce = tx'[g].nonce => f = g
      BY <2>1, <2>2, <2>3 DEF ChainOrder
    <2>7. \A g \in Hashes : Used(g)' => \A n \in 1 .. tx'[g].nonce - 1 : NonceUsed(n)'
      BY <2>2, <2>3, <2>4 DEF ChainOrder
    <2>8. QED
      BY <2>5, <2>6, <2>7 DEF ChainOrder
  <1>3. CASE Mine
    <2>1. PICK h \in Hashes : Placed(h)
      BY <1>3, MinePlaces
    <2>2. \A g \in Hashes : tx'[g].nonce = tx[g].nonce
      BY <2>1 DEF Placed
    <2>3. \A g \in Hashes : Used(g)' <=> Used(g) \/ g = h
      BY <2>1 DEF Used, Placed
    <2>4. \A n : NonceUsed(n) => NonceUsed(n)'
      <3>1. \A n : NonceUsed(n) <=> \E g \in Hashes : tx[g].nonce = n /\ Used(g)
        BY DEF NonceUsed, Used
      <3>2. \A n : NonceUsed(n)' <=> \E g \in Hashes : tx'[g].nonce = n /\ Used(g)'
        BY DEF NonceUsed, Used
      <3>3. QED
        BY <2>2, <2>3, <3>1, <3>2
    <2>5. \A g \in Sent' : tx'[g].nonce # 0
      <3>1. \A g \in Sent' : g \in Sent
        BY <2>1 DEF Sent, Placed
      <3>2. QED
        BY <2>2, <3>1 DEF ChainOrder, Sent
    <2>6. \A f, g \in Hashes : Used(f)' /\ (Used(g)' \/ tx'[g].state = "pool")
                                  /\ tx'[f].nonce = tx'[g].nonce => f = g
      <3>. SUFFICES ASSUME NEW f \in Hashes, NEW g \in Hashes, Used(f)',
                           Used(g)' \/ tx'[g].state = "pool", tx[f].nonce = tx[g].nonce
                    PROVE  f = g
        BY <2>2
      <3>0. tx[f].nonce \in Nat /\ tx[h].state = "pool"
        BY <2>1 DEF TypeOK, Tx, Placed
      <3>1. CASE f = h /\ g # h
        <4>1. ~Used(g)
          BY <2>1, <3>0, <3>1, PlacedIsNewest
        <4>2. tx'[g].state # "pool"
          BY <2>1, <3>1 DEF Placed
        <4>3. QED
          BY <2>3, <3>1, <4>1, <4>2
      <3>2. CASE f # h /\ g = h
        BY <2>1, <2>3, <3>0, <3>2, PlacedIsNewest
      <3>3. CASE f # h /\ g # h
        <4>1. Used(f) /\ (Used(g) \/ tx[g].state = "pool")
          BY <2>1, <2>3, <3>3 DEF Placed
        <4>2. QED
          BY <4>1 DEF ChainOrder
      <3>4. QED
        BY <3>1, <3>2, <3>3
    <2>7. \A g \in Hashes : Used(g)' => \A n \in 1 .. tx'[g].nonce - 1 : NonceUsed(n)'
      BY <2>1, <2>2, <2>3, <2>4 DEF ChainOrder, Placed
    <2>8. QED
      BY <2>5, <2>6, <2>7 DEF ChainOrder
  <1>4. QED
    BY <1>1, <1>2, <1>3, ChainSteps

\* What a step does to the mined transactions: nothing, or one more, the newest.
Keeps == \A g \in Mined : tx'[g].side = tx[g].side /\ tx'[g].qty = tx[g].qty
                          /\ tx'[g].nonce = tx[g].nonce
NewlyMined(h) ==
  /\ h \in Hashes \ Mined /\ Mined' = Mined \cup {h}
  /\ tx'[h].side = tx[h].side /\ tx'[h].qty = tx[h].qty /\ tx'[h].nonce = tx[h].nonce
  /\ \A g \in Mined : tx[g].nonce < tx[h].nonce
  /\ wallet' = IF tx[h].side = "buy" THEN wallet + tx[h].qty ELSE wallet - tx[h].qty
  /\ tx[h].side # "buy" => tx[h].qty <= wallet

LEMMA MinedChange ==
  ASSUME TypeOK, ChainOrder, [Next]_vars
  PROVE  /\ Keeps
         /\ (Mined' = Mined /\ wallet' = wallet) \/ (\E h \in Hashes : NewlyMined(h))
  <1>1. CASE UNCHANGED <<tx, wallet>>
    BY <1>1 DEF Keeps, Mined
  <1>2. ASSUME NEW t \in Threads, Broadcast(t), tx' # tx
        PROVE  Keeps /\ Mined' = Mined /\ wallet' = wallet
    <2>1. PICK h \in Hashes : /\ tx[h].state = "none" /\ tx'[h].state = "pool"
                              /\ \A g \in Hashes \ {h} : tx'[g] = tx[g]
      BY <1>2, BroadcastAdds
    <2>2. QED
      BY <1>2, <2>1 DEF Keeps, Mined, Broadcast
  <1>3. CASE Mine
    <2>1. PICK h \in Hashes : Placed(h)
      BY <1>3, MinePlaces
    <2>2. Keeps
      BY <2>1 DEF Keeps, Placed, Mined
    <2>3. CASE tx'[h].state = "reverted"
      <3>1. Mined' = Mined /\ wallet' = wallet
        BY <2>1, <2>3 DEF Placed, Mined
      <3>2. QED
        BY <2>2, <3>1
    <2>4. CASE tx'[h].state = "mined"
      <3>1. h \in Hashes \ Mined /\ Mined' = Mined \cup {h}
        BY <2>1, <2>4 DEF Placed, Mined
      <3>2. \A g \in Mined : tx[g].nonce < tx[h].nonce
        BY <2>1, PlacedIsNewest DEF Mined, Used
      <3>3. NewlyMined(h)
        BY <2>1, <2>4, <3>1, <3>2 DEF Placed, NewlyMined
      <3>4. QED
        BY <2>2, <3>3
    <2>5. QED
      BY <2>1, <2>3, <2>4 DEF Placed
  <1>4. CASE \E t \in Threads : Broadcast(t) /\ tx' = tx
    BY <1>4 DEF Broadcast, Keeps, Mined
  <1>5. QED
    BY <1>1, <1>2, <1>3, <1>4, ChainSteps

-----------------------------------------------------------------------------

\* The wallet stays solvent behind every nonce: what is mined last is newer than
\* the nonce, or nothing is.
LEMMA SolventStep ==
  ASSUME TypeOK, ChainOrder, Solvent, [Next]_vars PROVE Solvent'
  <1>0. /\ Keeps /\ wallet \in Nat /\ Mined \subseteq Hashes
        /\ \A g \in Hashes : tx[g].nonce \in Nat /\ tx[g].qty \in Nat /\ tx[g].side \in {"buy", "sell"}
    BY MinedChange DEF TypeOK, Tx, Mined
  <1>. SUFFICES ASSUME NEW n \in Nat
                PROVE  NextTokens(After("buy", n)') <= wallet' + NextTokens(After("sell", n)')
    BY DEF Solvent, Tokens, NextTokens
  <1>1. /\ \A side : After(side, n) \in SUBSET Hashes
        /\ \A side : Tokens(After(side, n)) \in Nat
        /\ \A side : NextTokens(After(side, n)) = Tokens(After(side, n))
    <2>1. \A side : After(side, n) \in SUBSET Mined
      BY DEF After, MinedOf
    <2>2. \A side : \A h \in After(side, n) : tx'[h].qty = tx[h].qty
      BY <1>0, <2>1 DEF Keeps
    <2>3. QED
      BY <1>0, <2>1, <2>2, TokensType, TokensStable
  <1>2. Tokens(After("buy", n)) <= wallet + Tokens(After("sell", n))
    BY DEF Solvent
  <1>3. CASE Mined' = Mined /\ wallet' = wallet
    <2>1. \A side : After(side, n)' = After(side, n)
      BY <1>0, <1>3 DEF After, MinedOf, Keeps
    <2>2. QED
      BY <1>1, <1>2, <1>3, <2>1
  <1>4. ASSUME NEW h \in Hashes, NewlyMined(h)
        PROVE  NextTokens(After("buy", n)') <= wallet' + NextTokens(After("sell", n)')
    <2>1. \A side : After(side, n)' = After(side, n)
                      \cup (IF tx[h].side = side /\ tx[h].nonce > n THEN {h} ELSE {})
      BY <1>0, <1>4 DEF After, MinedOf, Keeps, NewlyMined
    <2>2. \A side : h \notin After(side, n)
      BY <1>4 DEF NewlyMined, After, MinedOf
    <2>3. ASSUME NEW side PROVE NextTokens(After(side, n) \cup {h}) = tx[h].qty + Tokens(After(side, n))
      <3>1. \A g \in After(side, n) \cup {h} : tx'[g].qty = tx[g].qty
        BY <1>0, <1>4 DEF After, MinedOf, Keeps, NewlyMined
      <3>2. NextTokens(After(side, n) \cup {h}) = Tokens(After(side, n) \cup {h})
        BY <1>1, <3>1, TokensStable
      <3>3. QED
        BY <1>1, <2>2, <3>2, TokensAdd
    <2>4. CASE tx[h].nonce <= n
      <3>1. \A side : After(side, n)' = {}
        <4>1. \A side : After(side, n) = {}
          BY <1>0, <1>4, <2>4 DEF NewlyMined, After, MinedOf
        <4>2. ~(tx[h].nonce > n)
          BY <1>0, <2>4
        <4>3. QED
          BY <2>1, <4>1, <4>2
      <3>2. NextTokens({}) = 0
        BY TotalEmpty DEF NextTokens
      <3>3. wallet' >= 0 /\ wallet' \in Int
        BY <1>0, <1>4 DEF NewlyMined
      <3>4. QED
        BY <3>1, <3>2, <3>3
    <2>5. CASE tx[h].nonce > n /\ tx[h].side = "buy"
      <3>1. After("buy", n)' = After("buy", n) \cup {h} /\ After("sell", n)' = After("sell", n)
        BY <2>1, <2>5
      <3>2. wallet' = wallet + tx[h].qty
        BY <1>4, <2>5 DEF NewlyMined
      <3>3. /\ NextTokens(After("buy", n)') = tx[h].qty + Tokens(After("buy", n))
            /\ NextTokens(After("sell", n)') = Tokens(After("sell", n))
        BY <1>1, <2>3, <3>1
      <3>4. QED
        BY <1>0, <1>1, <1>2, <3>2, <3>3
    <2>6. CASE tx[h].nonce > n /\ tx[h].side = "sell"
      <3>1. After("sell", n)' = After("sell", n) \cup {h} /\ After("buy", n)' = After("buy", n)
        BY <2>1, <2>6
      <3>2. wallet' = wallet - tx[h].qty
        BY <1>4, <2>6 DEF NewlyMined
      <3>3. /\ NextTokens(After("sell", n)') = tx[h].qty + Tokens(After("sell", n))
            /\ NextTokens(After("buy", n)') = Tokens(After("buy", n))
        BY <1>1, <2>3, <3>1
      <3>4. QED
        BY <1>0, <1>1, <1>2, <3>2, <3>3
    <2>7. QED
      BY <1>0, <2>4, <2>5, <2>6
  <1>5. QED
    BY <1>3, <1>4, MinedChange

\* What is still to be accounted are transactions, and their tokens numbers.
LEMMA BooksTyped ==
  ASSUME TypeOK, recorded \subseteq Mined, late \subseteq recorded
  PROVE  /\ InTimeOf(recorded) \in SUBSET Hashes /\ Outstanding \in SUBSET Hashes
         /\ late \in SUBSET Hashes /\ recorded \in SUBSET Hashes
         /\ Tokens(Outstanding) \in Nat /\ Tokens(late) \in Nat /\ wallet \in Nat
         /\ Due \in Nat /\ Cover \in Nat
  <1>1. /\ InTimeOf(recorded) \in SUBSET Hashes /\ Outstanding \in SUBSET Hashes
        /\ late \in SUBSET Hashes /\ recorded \in SUBSET Hashes
    BY DEF InTimeOf, Outstanding, MinedOf, Mined
  <1>2. Due \in Nat /\ Tokens(Outstanding) \in Nat /\ Tokens(late) \in Nat /\ wallet \in Nat
    BY <1>1, TokensType DEF Due, TypeOK
  <1>3. QED
    BY <1>1, <1>2 DEF Cover

\* The chain alone adds as much to the one side of the books as to the other.
LEMMA BooksKept ==
  ASSUME TypeOK, ChainOrder, recorded \subseteq Mined, late \subseteq recorded, [Next]_vars,
         recorded' = recorded, late' = late
  PROVE  \E q \in Nat : Due' = Due + q /\ Cover' = Cover + q
  <1>0. /\ Keeps /\ Mined \subseteq Hashes
        /\ \A g \in Hashes : tx[g].nonce \in Nat /\ tx[g].qty \in Nat /\ tx[g].side \in {"buy", "sell"}
    BY MinedChange DEF TypeOK, Tx, Mined
  <1>. DEFINE open == InTimeOf(recorded)
  <1>1. /\ open \subseteq Mined /\ Outstanding \subseteq Mined /\ late \subseteq Mined
        /\ \A S \in SUBSET Mined : NextTokens(S) = Tokens(S)
    <2>1. open \subseteq Mined /\ Outstanding \subseteq Mined /\ late \subseteq Mined
      BY DEF InTimeOf, Outstanding, MinedOf
    <2>2. ASSUME NEW S \in SUBSET Mined PROVE NextTokens(S) = Tokens(S)
      <3>1. \A h \in S : tx'[h].qty = tx[h].qty
        BY <1>0 DEF Keeps
      <3>2. QED
        BY <1>0, <3>1, TokensStable
    <2>3. QED
      BY <2>1, <2>2
  <1>2. /\ Due' = NextTokens(open')
        /\ Cover' = wallet' + NextTokens(Outstanding') + NextTokens(late)
    BY DEF Due, Cover, Tokens, NextTokens
  <1>3. Due = Tokens(open) /\ Cover = wallet + Tokens(Outstanding) + Tokens(late)
    BY DEF Due, Cover
  <1>4. CASE Mined' = Mined /\ wallet' = wallet
    <2>1. open' = open /\ Outstanding' = Outstanding
      <3>1. \A side : MinedOf(side)' = MinedOf(side)
        BY <1>0, <1>4 DEF MinedOf, Keeps
      <3>2. Outstanding' = Outstanding
        BY <3>1 DEF Outstanding
      <3>3. \A g \in recorded : tx'[g].side = tx[g].side /\ tx'[g].nonce = tx[g].nonce
        BY <1>0 DEF Keeps
      <3>4. \A h \in MinedOf("buy") : tx'[h].nonce = tx[h].nonce
        BY <1>0 DEF MinedOf, Keeps
      <3>5. open' = open
        BY <3>1, <3>3, <3>4 DEF InTimeOf
      <3>6. QED
        BY <3>2, <3>5
    <2>2. Due' = Due + 0 /\ Cover' = Cover + 0
      BY <1>1, <1>2, <1>3, <1>4, <2>1, BooksTyped
    <2>3. QED
      BY <2>2
  <1>5. ASSUME NEW h \in Hashes, NewlyMined(h)
        PROVE  \E q \in Nat : Due' = Due + q /\ Cover' = Cover + q
    <2>1. /\ h \notin Mined /\ h \notin recorded
          /\ \A side : MinedOf(side)' = MinedOf(side) \cup (IF tx[h].side = side THEN {h} ELSE {})
      BY <1>0, <1>5 DEF NewlyMined, MinedOf, Keeps
    <2>2. ASSUME NEW S \in SUBSET Mined PROVE NextTokens(S \cup {h}) = tx[h].qty + Tokens(S)
      <3>1. \A g \in S \cup {h} : tx'[g].qty = tx[g].qty
        BY <1>0, <1>5 DEF Keeps, NewlyMined
      <3>2. NextTokens(S \cup {h}) = Tokens(S \cup {h})
        BY <1>0, <3>1, TokensStable
      <3>3. QED
        BY <1>0, <2>1, <3>2, TokensAdd
    <2>3. open' = open \cup (IF tx[h].side = "buy" THEN {h} ELSE {})
      <3>1. \A g \in recorded : tx'[g].side = tx[g].side /\ tx'[g].nonce = tx[g].nonce
                                  /\ tx[g].nonce < tx[h].nonce
        BY <1>0, <1>5 DEF Keeps, NewlyMined
      <3>2. \A g \in MinedOf("buy") : tx'[g].nonce = tx[g].nonce
        BY <1>0 DEF MinedOf, Keeps
      <3>3. tx'[h].nonce = tx[h].nonce
        BY <1>5 DEF NewlyMined
      <3>4. \A g \in recorded : ~(tx[g].nonce > tx[h].nonce)
        BY <1>0, <3>1
      <3>5. open' = {x \in MinedOf("buy")' \ recorded :
                      \A g \in recorded : tx[g].side = "sell" => ~(tx[g].nonce > tx[x].nonce)}
        <4>1. \A x \in MinedOf("buy")' : tx'[x].nonce = tx[x].nonce
          BY <2>1, <3>2, <3>3
        <4>2. QED
          BY <3>1, <4>1 DEF InTimeOf
      <3>6. QED
        BY <2>1, <3>4, <3>5 DEF InTimeOf
    <2>4. Outstanding' = Outstanding \cup (IF tx[h].side = "sell" THEN {h} ELSE {})
      BY <2>1 DEF Outstanding
    <2>. HIDE DEF open
    <2>5. CASE tx[h].side = "buy"
      <3>1. open' = open \cup {h} /\ Outstanding' = Outstanding
        BY <2>3, <2>4, <2>5
      <3>2. Due' = tx[h].qty + Due
        BY <1>1, <1>2, <1>3, <2>2, <3>1
      <3>3. Cover' = (wallet + tx[h].qty) + Tokens(Outstanding) + Tokens(late)
        BY <1>1, <1>2, <1>5, <2>5, <3>1 DEF NewlyMined
      <3>4. Due' = Due + tx[h].qty /\ Cover' = Cover + tx[h].qty
        BY <1>0, <1>3, <3>2, <3>3, BooksTyped
      <3>5. QED
        BY <1>0, <3>4
    <2>6. CASE tx[h].side = "sell"
      <3>1. open' = open /\ Outstanding' = Outstanding \cup {h}
        BY <2>3, <2>4, <2>6
      <3>2. Due' = Due
        BY <1>1, <1>2, <1>3, <3>1
      <3>3. Cover' = (wallet - tx[h].qty) + (tx[h].qty + Tokens(Outstanding)) + Tokens(late)
        BY <1>1, <1>2, <1>5, <2>2, <2>6, <3>1 DEF NewlyMined
      <3>4. Due' = Due + 0 /\ Cover' = Cover + 0
        BY <1>0, <1>3, <3>2, <3>3, BooksTyped
      <3>5. QED
        BY <3>4
    <2>7. QED
      BY <1>0, <2>5, <2>6
  <1>6. QED
    BY <1>4, <1>5, MinedChange

\* An empty position is covered, whatever was accounted: a buy that no accounted
\* sell overtook is newer than all of these, and so are the sells of its tokens.
LEMMA EmptyIsCovered ==
  ASSUME TypeOK, ChainOrder, Solvent, NEW R \in SUBSET Mined
  PROVE  Tokens(InTimeOf(R)) <= wallet + Tokens(MinedOf("sell") \ R)
  <1>0. /\ Mined \subseteq Hashes /\ Mined \subseteq Sent /\ wallet \in Nat
        /\ \A g \in Hashes : tx[g].nonce \in Nat
        /\ \A g \in Mined : Used(g)
    BY DEF Mined, Sent, TypeOK, Tx, Used
  <1>. DEFINE bounds == {n \in Nat : \A g \in R : tx[g].side = "sell" => tx[g].nonce <= n}
  <1>1. bounds # {}
    <2>. DEFINE nonces == [g \in Hashes |-> tx[g].nonce]
    <2>1. IsFiniteSet(R) /\ \A g \in R : nonces[g] \in Nat /\ nonces[g] = tx[g].nonce
      BY <1>0, ConstantsAssumption, FS_Subset DEF ConstantsAssumption
    <2>. HIDE DEF nonces
    <2>2. PICK n \in Nat : \A g \in R : nonces[g] <= n
      BY <2>1, TotalBounds
    <2>3. n \in bounds
      BY <2>1, <2>2
    <2>4. QED
      BY <2>3
  <1>2. PICK n \in bounds : \A m \in bounds : n <= m
    <2>1. bounds \in SUBSET Nat
      OBVIOUS
    <2>. HIDE DEF bounds
    <2>2. QED
      BY <1>1, <2>1, LeastOf
  <1>3. n \in Nat /\ (\A g \in R : tx[g].side = "sell" => tx[g].nonce <= n)
    BY <1>2
  <1>4. ASSUME NEW h \in InTimeOf(R) PROVE tx[h].nonce > n
    <2>1. /\ h \in Mined /\ tx[h].side = "buy" /\ tx[h].nonce \in Nat /\ tx[h].nonce # 0
          /\ \A g \in R : tx[g].side = "sell" => ~(tx[g].nonce > tx[h].nonce)
      BY <1>0 DEF InTimeOf, MinedOf, ChainOrder
    <2>2. CASE n = 0
      BY <2>1, <2>2
    <2>3. CASE n # 0
      <3>1. n - 1 \in Nat /\ ~(n <= n - 1)
        BY <1>3, <2>3
      <3>2. n - 1 \notin bounds
        BY <1>2, <3>1
      <3>3. PICK g \in R : tx[g].side = "sell" /\ ~(tx[g].nonce <= n - 1)
        BY <3>1, <3>2
      <3>4. tx[g].nonce = n
        BY <1>0, <1>3, <3>3
      <3>5. ~(n > tx[h].nonce)
        BY <2>1, <3>3, <3>4
      <3>6. tx[h].nonce # n
        BY <1>0, <2>1, <3>3, <3>4 DEF ChainOrder
      <3>7. QED
        BY <1>3, <2>1, <3>5, <3>6
    <2>4. QED
      BY <2>2, <2>3
  <1>. HIDE DEF bounds
  <1>5. InTimeOf(R) \in SUBSET After("buy", n) /\ After("sell", n) \in SUBSET (MinedOf("sell") \ R)
    <2>1. InTimeOf(R) \subseteq After("buy", n)
      BY <1>4 DEF InTimeOf, After
    <2>2. \A g \in After("sell", n) : g \in MinedOf("sell") /\ tx[g].nonce > n /\ tx[g].side = "sell"
                                        /\ tx[g].nonce \in Nat
      BY <1>0 DEF After, MinedOf
    <2>3. \A g \in After("sell", n) : g \notin R
      BY <1>3, <2>2
    <2>4. QED
      BY <2>1, <2>2, <2>3
  <1>6. After("buy", n) \in SUBSET Hashes /\ MinedOf("sell") \ R \in SUBSET Hashes
    BY <1>0 DEF After, MinedOf
  <1>7. Tokens(InTimeOf(R)) <= Tokens(After("buy", n))
        /\ Tokens(After("sell", n)) <= Tokens(MinedOf("sell") \ R)
    BY <1>5, <1>6, TokensSubset
  <1>8. Tokens(After("buy", n)) <= wallet + Tokens(After("sell", n))
    BY <1>3 DEF Solvent
  <1>9. /\ Tokens(InTimeOf(R)) \in Nat /\ Tokens(After("buy", n)) \in Nat
        /\ Tokens(After("sell", n)) \in Nat /\ Tokens(MinedOf("sell") \ R) \in Nat
    BY <1>5, <1>6, TokensType
  <1>10. QED
    BY <1>0, <1>7, <1>8, <1>9

-----------------------------------------------------------------------------

\* No step of a goroutine that accounts no fill brings up an amount that was not
\* there, or copied, before.
LEMMA AmountsSelf ==
  ASSUME TypeOK, LocalsOK, NEW t \in Threads, ProcessStep(t), recorded' = recorded
  PROVE  /\ position'.amount \in Amounts \cup {0}
         /\ WritesBack(t)' => job'[t].snap.amount \in Amounts
  <1>0. /\ pc \in [Threads -> PCs] /\ job \in [Threads -> Job] /\ position \in Position
        /\ job[t].snap \in Position
        /\ position.amount \in Amounts /\ (WritesBack(t) => job[t].snap.amount \in Amounts)
    BY DEF TypeOK, Job, Amounts
  <1>1. position'.amount \in Amounts \cup {0}
    <2>1. CASE ApplyOwnFill(t)
      BY <1>0, <2>1 DEF ApplyOwnFill, AlreadyRecorded
    <2>2. CASE SaveCooldown(t)
      BY <1>0, <2>2 DEF SaveCooldown, WritesBack, Position
    <2>3. CASE SaveFilledSell(t)
      BY <1>0, <2>3 DEF SaveFilledSell, WithReason, WritesBack, Position
    <2>4. CASE ReadWalletAfterFailure(t)
      BY <1>0, <2>4 DEF ReadWalletAfterFailure, Position
    <2>5. CASE ClearUntradeable(t) \/ ResetPosition(t)
      <3>1. position' = EmptyPosition
        BY <2>5 DEF ClearUntradeable, ResetPosition, ZeroPosition
      <3>2. EmptyPosition.amount = 0
        BY DEF EmptyPosition
      <3>3. QED
        BY <3>1, <3>2
    <2>6. CASE UNCHANGED position
      BY <1>0, <2>6
    <2>7. QED
      BY <2>1, <2>2, <2>3, <2>4, <2>5, <2>6
      DEF ProcessStep, tables, Decide, Preflight, MarkStrategyEvent, PersistPendingBuy,
          Broadcast, UpdatePendingBroadcast, SavePendingAction, InsertPendingAction,
          RecordSellFailure
  <1>2. ASSUME WritesBack(t)' PROVE job'[t].snap.amount \in Amounts
    <2>1. CASE Return(t)
      BY <1>0, <1>2, <2>1 DEF Return, Goto, WritesBack
    <2>2. CASE Decide(t) /\ ~Return(t)
      <3>1. ~IsBuy(job'[t].reason)
        BY <1>0, <1>2, <2>2 DEF Decide, Goto, WritesBack
      <3>2. job'[t].snap = position
        BY <1>0, <2>2, <3>1 DEF Decide, Job
      <3>3. QED
        BY <1>0, <3>2
    <2>3. CASE Preflight(t) /\ ~Return(t)
      <3>1. pc[t] = "preflight"
        BY <1>0, <1>2, <2>3 DEF Preflight, Goto, WritesBack
      <3>2. job'[t].snap = job[t].snap /\ job'[t].reason = job[t].reason /\ pc'[t] = "mark"
        BY <1>0, <1>2, <2>3, <3>1 DEF Preflight, Goto, Job, WritesBack
      <3>3. QED
        BY <1>0, <1>2, <3>1, <3>2 DEF WritesBack
    <2>4. CASE MarkStrategyEvent(t) /\ ~Return(t)
      BY <1>0, <1>2, <2>4 DEF MarkStrategyEvent, Goto, WritesBack, IsBuy
    <2>5. CASE SavePendingAction(t)
      <3>1. pc'[t] = "saveBack" /\ job'[t].snap = position
        BY <1>0, <1>2, <2>5 DEF SavePendingAction, Goto, WritesBack, Job
      <3>2. QED
        BY <1>0, <3>1
    <2>6. CASE /\ ~Return(t)
               /\ \/ PersistPendingBuy(t) \/ SaveCooldown(t) \/ Broadcast(t)
                  \/ UpdatePendingBroadcast(t) \/ SaveFilledSell(t) \/ InsertPendingAction(t)
                  \/ RecordSellFailure(t) \/ ReadWalletAfterFailure(t)
      BY <1>0, <1>2, <2>6
      DEF PersistPendingBuy, SaveCooldown, Broadcast, Failed, UpdatePendingBroadcast,
          SaveFilledSell, InsertPendingAction, RecordSellFailure, ReadWalletAfterFailure,
          Goto, WritesBack
    <2>7. QED
      BY <2>1, <2>2, <2>3, <2>4, <2>5, <2>6
      DEF ProcessStep, ApplyOwnFill, ClearUntradeable, ResetPosition
  <1>3. QED
    BY <1>1, <1>2

LEMMA AmountsShrink ==
  ASSUME ~ScheduledSell, TypeOK, LocalsOK, UnderMutex, FollowInv, [Next]_vars,
         recorded' = recorded
  PROVE  Amounts' \subseteq Amounts \cup {0}
  <1>1. ASSUME NEW t \in Threads, ProcessStep(t) PROVE Amounts' \subseteq Amounts \cup {0}
    <2>1. ASSUME NEW u \in Threads \ {t}, WritesBack(u)' PROVE job'[u].snap.amount \in Amounts
      BY <1>1, <2>1, ProcessFrame DEF WritesBack, Amounts
    <2>2. QED
      BY <1>1, <2>1, AmountsSelf DEF Amounts
  <1>2. CASE TickStep \/ Hear \/ (\E long \in BOOLEAN : Elapse(long)) \/ Mine \/ Crash
    <2>1. position'.amount = position.amount
      BY <1>2, FollowOther
    <2>2. \A t \in Threads : WritesBack(t)' => WritesBack(t) /\ job'[t] = job[t]
      BY <1>2, MutexOther DEF WritesBack, Working
    <2>3. QED
      BY <2>1, <2>2 DEF Amounts
  <1>3. CASE UNCHANGED vars
    <2>1. position' = position /\ pc' = pc /\ job' = job
      BY <1>3 DEF vars, tables
    <2>2. QED
      BY <2>1 DEF Amounts, WritesBack
  <1>4. QED
    BY <1>1, <1>2, <1>3 DEF Next

\* A fill is accounted by applyOwnFill, of a mined transaction, under a free mutex.
Accounts(t, h) ==
  /\ h \in Mined \ recorded /\ recorded' = recorded \cup {h}
  /\ UNCHANGED <<tx, wallet>>
  /\ position'.amount = IF tx[h].side = "buy" THEN position.amount + tx[h].qty
                        ELSE position.amount - Sold(h)
  /\ \A u \in Threads : ~WritesBack(u)'

LEMMA FillAccounts ==
  ASSUME TypeOK, LocalsOK, UnderMutex, [Next]_vars, recorded' # recorded
  PROVE  \E t \in Threads : \E h \in Hashes : Accounts(t, h)
  <1>1. PICK t \in Threads : ApplyOwnFill(t)
    <2>1. ASSUME NEW t \in Threads, ProcessStep(t) PROVE ApplyOwnFill(t)
      BY <2>1
      DEF ProcessStep, tables, Decide, Preflight, ClearUntradeable, MarkStrategyEvent,
          PersistPendingBuy, SaveCooldown, Broadcast, UpdatePendingBroadcast,
          SavePendingAction, SaveFilledSell, InsertPendingAction, RecordSellFailure,
          ReadWalletAfterFailure, ResetPosition
    <2>2. TickStep \/ Hear \/ (\E long \in BOOLEAN : Elapse(long)) \/ Mine \/ Crash
             \/ UNCHANGED vars => recorded' = recorded
      BY DEF TickStep, Hear, Elapse, Mine, Crash, vars, tables, Arrive, SelectExpired,
             ExpirePendingAction, ExpireDone, SelectExpiredBuy, DeleteExpiredBuy, SelectDue,
             ClaimDue, Poll, PollEvent, PollDone
    <2>3. QED
      BY <2>1, <2>2 DEF Next
  <1>. DEFINE h == job[t].evt
  <1>2. /\ pc \in [Threads -> PCs] /\ job \in [Threads -> Job] /\ position \in Position
        /\ tx \in [Hashes -> Tx]
    BY DEF TypeOK
  <1>3. h \in Mined
    BY <1>1 DEF ApplyOwnFill, LocalsOK, Local, Mined
  <1>4. /\ h \notin recorded /\ recorded' = recorded \cup {h}
        /\ UNCHANGED <<tx, wallet>>
        /\ position' = IF tx[h].side = "buy" THEN AfterBuy(position, tx[h].qty)
                       ELSE AfterSell(position, Sold(h),
                                IF actions[h].status = "pending" THEN actions[h].reason
                                ELSE "confirmed_fill")
        /\ lock = "free" /\ Return(t)
    BY <1>1 DEF ApplyOwnFill, AlreadyRecorded, MayEnter, chain
  <1>5. position'.amount = IF tx[h].side = "buy" THEN position.amount + tx[h].qty
                           ELSE position.amount - Sold(h)
    BY <1>2, <1>4 DEF AfterBuy, AfterSell, Position
  <1>6. ASSUME NEW u \in Threads PROVE ~WritesBack(u)'
    <2>1. CASE u = t
      BY <1>2, <1>4, <2>1 DEF Return, Goto, WritesBack
    <2>2. CASE u # t
      <3>1. pc'[u] = pc[u]
        BY <1>2, <1>4, <2>2 DEF Return, Goto
      <3>2. pc[u] \notin Working
        BY <1>4, MutexOfWorking DEF Threads
      <3>3. QED
        BY <3>1, <3>2 DEF WritesBack, Working
    <2>3. QED
      BY <2>1, <2>2
  <1>7. QED
    BY <1>3, <1>4, <1>5, <1>6 DEF Accounts, Mined

\* What a fill does to the books: a buy in time leaves what is due for the row, a
\* late one joins the exceptions; a sell leaves the outstanding ones for the row,
\* which may have less.
LEMMA PhantomFill ==
  ASSUME TypeOK, PhantomInv, NEW t \in Threads, NEW h \in Hashes, Accounts(t, h),
         late' = late \cup {g \in recorded' \ recorded : Overtaken(g)}
  PROVE  /\ recorded' \subseteq Mined' /\ late' \subseteq recorded'
         /\ \A a \in Amounts' : a + Due' <= Cover'
  <1>0. /\ recorded \subseteq Mined /\ late \subseteq recorded /\ ChainOrder /\ Solvent
        /\ position.amount + Due <= Cover
        /\ position.amount \in Nat /\ tx[h].qty \in Nat /\ tx[h].side \in {"buy", "sell"}
    BY DEF PhantomInv, Amounts, TypeOK, Position, Tx
  <1>1. /\ h \in Mined \ recorded /\ recorded' = recorded \cup {h} /\ tx' = tx /\ wallet' = wallet
        /\ Amounts' = {position'.amount}
    BY DEF Accounts, Amounts
  <1>2. Mined' = Mined /\ (\A side : MinedOf(side)' = MinedOf(side)) /\ Mined \subseteq Hashes
    BY <1>1 DEF Mined, MinedOf
  <1>3. /\ Due' = Tokens(InTimeOf(recorded'))
        /\ Cover' = wallet + Tokens(MinedOf("sell") \ recorded') + Tokens(late')
    <2>1. InTimeOf(recorded)' = InTimeOf(recorded')
      BY <1>1, <1>2 DEF InTimeOf
    <2>2. Outstanding' = MinedOf("sell") \ recorded'
      BY <1>2 DEF Outstanding
    <2>3. \A S : NextTokens(S) = Tokens(S)
      BY <1>1 DEF NextTokens, Tokens
    <2>4. /\ Due' = NextTokens(InTimeOf(recorded)')
          /\ Cover' = wallet' + NextTokens(Outstanding') + NextTokens(late')
      BY DEF Due, Cover, Tokens, NextTokens
    <2>5. QED
      BY <1>1, <2>1, <2>2, <2>3, <2>4
  <1>4. recorded' \in SUBSET Mined /\ late' \subseteq recorded'
    BY <1>0, <1>1
  <1>5. /\ InTimeOf(recorded') \in SUBSET Hashes /\ MinedOf("sell") \ recorded' \in SUBSET Hashes
        /\ late' \in SUBSET Hashes
        /\ Due' \in Nat /\ Tokens(MinedOf("sell") \ recorded') \in Nat /\ Tokens(late') \in Nat
    <2>1. InTimeOf(recorded') \in SUBSET Hashes /\ MinedOf("sell") \ recorded' \in SUBSET Hashes
          /\ late' \in SUBSET Hashes
      BY <1>2, <1>4 DEF InTimeOf, MinedOf
    <2>2. QED
      BY <1>3, <2>1, TokensType
  <1>6. /\ Due \in Nat /\ Tokens(Outstanding) \in Nat /\ Tokens(late) \in Nat /\ wallet \in Nat
        /\ Cover = wallet + Tokens(Outstanding) + Tokens(late)
        /\ InTimeOf(recorded) \in SUBSET Hashes /\ Outstanding \in SUBSET Hashes
        /\ late \in SUBSET Hashes
    BY <1>0, BooksTyped DEF Cover
  <1>7. CASE tx[h].side = "buy" /\ ~Overtaken(h)
    <2>1. late' = late
      BY <1>1, <1>7
    <2>2. MinedOf("sell") \ recorded' = Outstanding
      BY <1>1, <1>7 DEF Outstanding, MinedOf
    <2>3. h \in InTimeOf(recorded) /\ InTimeOf(recorded') = InTimeOf(recorded) \ {h}
      BY <1>1, <1>7 DEF InTimeOf, MinedOf, Overtaken
    <2>4. Due = tx[h].qty + Due'
      <3>1. InTimeOf(recorded) = InTimeOf(recorded') \cup {h} /\ h \notin InTimeOf(recorded')
        BY <2>3
      <3>2. Tokens(InTimeOf(recorded') \cup {h}) = tx[h].qty + Tokens(InTimeOf(recorded'))
        BY <1>5, <3>1, TokensAdd
      <3>3. QED
        BY <1>3, <3>1, <3>2 DEF Due
    <2>5. Cover' = Cover
      BY <1>3, <1>6, <2>1, <2>2
    <2>6. position'.amount = position.amount + tx[h].qty
      BY <1>7 DEF Accounts
    <2>7. position'.amount + Due' <= Cover'
      BY <1>0, <1>5, <1>6, <2>4, <2>5, <2>6
    <2>8. QED
      BY <1>1, <1>2, <1>4, <2>7
  <1>8. CASE tx[h].side = "buy" /\ Overtaken(h)
    <2>1. late' = late \cup {h} /\ h \in Hashes \ late
      BY <1>0, <1>1, <1>8
    <2>2. MinedOf("sell") \ recorded' = Outstanding
      BY <1>1, <1>8 DEF Outstanding, MinedOf
    <2>3. InTimeOf(recorded') = InTimeOf(recorded)
      BY <1>1, <1>8 DEF InTimeOf, MinedOf, Overtaken
    <2>4. Due' = Due
      BY <1>3, <2>3 DEF Due
    <2>5. Tokens(late') = tx[h].qty + Tokens(late)
      BY <1>6, <2>1, TokensAdd
    <2>6. position'.amount = position.amount + tx[h].qty
      BY <1>8 DEF Accounts
    <2>7. Cover' = wallet + Tokens(Outstanding) + (tx[h].qty + Tokens(late))
      BY <1>3, <2>2, <2>5
    <2>8. position'.amount + Due' <= Cover'
      BY <1>0, <1>6, <2>4, <2>6, <2>7
    <2>9. QED
      BY <1>1, <1>2, <1>4, <2>8
  <1>9. CASE tx[h].side = "sell"
    <2>1. late' = late
      BY <1>1, <1>9 DEF Overtaken
    <2>2. InTimeOf(recorded') \in SUBSET InTimeOf(recorded)
      BY <1>1 DEF InTimeOf
    <2>3. Due' <= Due
      BY <1>3, <1>6, <2>2, TokensSubset DEF Due
    <2>4. Tokens(Outstanding) = tx[h].qty + Tokens(MinedOf("sell") \ recorded')
      <3>1. Outstanding = (MinedOf("sell") \ recorded') \cup {h} /\ h \notin MinedOf("sell") \ recorded'
        BY <1>1, <1>9 DEF Outstanding, MinedOf
      <3>2. Tokens((MinedOf("sell") \ recorded') \cup {h})
               = tx[h].qty + Tokens(MinedOf("sell") \ recorded')
        BY <1>5, <3>1, TokensAdd
      <3>3. QED
        BY <3>1, <3>2
    <2>5. position'.amount = position.amount - Sold(h)
      BY <1>9 DEF Accounts
    <2>6. CASE tx[h].qty <= position.amount
      <3>1. Sold(h) = tx[h].qty
        BY <2>6 DEF Sold, Lesser
      <3>2. \A p, q, d, e, w, o, l \in Nat : e <= d /\ p + d <= w + (q + o) + l
                                           => (p - q) + e <= w + o + l
        OBVIOUS
      <3>3. Cover = wallet + (tx[h].qty + Tokens(MinedOf("sell") \ recorded')) + Tokens(late)
        BY <1>6, <2>4
      <3>4. (position.amount - tx[h].qty) + Due'
               <= wallet + Tokens(MinedOf("sell") \ recorded') + Tokens(late)
        BY <1>0, <1>5, <1>6, <2>3, <3>2, <3>3
      <3>5. position'.amount + Due' <= Cover'
        BY <1>3, <2>1, <2>5, <3>1, <3>4
      <3>6. QED
        BY <1>1, <1>2, <1>4, <3>5
    <2>7. CASE ~(tx[h].qty <= position.amount)
      <3>1. position'.amount = 0
        BY <1>0, <2>5, <2>7 DEF Sold, Lesser
      <3>2. Due' <= wallet + Tokens(MinedOf("sell") \ recorded')
        BY <1>0, <1>3, <1>4, EmptyIsCovered
      <3>3. position'.amount + Due' <= Cover'
        BY <1>3, <1>5, <1>6, <3>1, <3>2
      <3>4. QED
        BY <1>1, <1>2, <1>4, <3>3
    <2>8. QED
      BY <2>6, <2>7
  <1>10. QED
    BY <1>0, <1>7, <1>8, <1>9

\* The other steps leave the books balanced for the row and for its copies.
LEMMA PhantomOther ==
  ASSUME ~ScheduledSell, TypeOK, LocalsOK, UnderMutex, FollowInv, PhantomInv, [Next]_vars,
         recorded' = recorded, late' = late
  PROVE  \A a \in Amounts' : a + Due' <= Cover'
  <1>0. /\ recorded \subseteq Mined /\ late \subseteq recorded /\ ChainOrder /\ Solvent
        /\ \A a \in Amounts : a + Due <= Cover
        /\ Due \in Nat /\ Cover \in Nat
    BY BooksTyped DEF PhantomInv
  <1>1. PICK q \in Nat : Due' = Due + q /\ Cover' = Cover + q
    BY <1>0, BooksKept
  <1>2. 0 + Due <= Cover
    <2>1. Tokens(InTimeOf(recorded)) <= wallet + Tokens(MinedOf("sell") \ recorded)
      BY <1>0, EmptyIsCovered
    <2>2. QED
      BY <1>0, <2>1, BooksTyped DEF Due, Cover, Outstanding
  <1>3. Amounts \subseteq Nat
    BY DEF Amounts, TypeOK, Position, Job
  <1>4. ASSUME NEW a \in Amounts' PROVE a + Due' <= Cover'
    <2>1. a \in Amounts \cup {0}
      BY AmountsShrink
    <2>2. a \in Nat /\ a + Due <= Cover
      BY <1>0, <1>2, <1>3, <2>1
    <2>3. QED
      BY <1>0, <1>1, <2>2
  <1>5. QED
    BY <1>4

\* A buy is late when its fill is recorded after one of a sell behind it.
LEMMA LateIs ==
  ASSUME [Next]_vars
  PROVE  late' = late \cup {g \in recorded' \ recorded : Overtaken(g)}
  <1>. DEFINE Noted == late' = late \cup {g \in recorded' \ recorded : Overtaken(g)}
  <1>1. recorded' = recorded /\ late' = late => Noted
    OBVIOUS
  <1>2. ASSUME NEW t \in Threads, ApplyOwnFill(t) PROVE Noted
    <2>. DEFINE h == job[t].evt
    <2>1. CASE recorded' = recorded /\ late' = late
      BY <1>1, <2>1
    <2>2. CASE /\ h \notin recorded /\ recorded' = recorded \cup {h}
               /\ late' = IF Overtaken(h) THEN late \cup {h} ELSE late
      <3>1. recorded' \ recorded = {h}
        BY <2>2
      <3>. QED BY <2>2, <3>1
    <2>. QED BY <1>2, <2>1, <2>2 DEF ApplyOwnFill, AlreadyRecorded
  <1>. HIDE DEF Noted
  <1>3. ASSUME NEW t \in Threads, ProcessStep(t), ~ApplyOwnFill(t)
        PROVE  recorded' = recorded /\ late' = late
    BY <1>3 DEF ProcessStep, Decide, Preflight, ClearUntradeable, MarkStrategyEvent,
         PersistPendingBuy, SaveCooldown, Broadcast, UpdatePendingBroadcast, SavePendingAction,
         SaveFilledSell, InsertPendingAction, RecordSellFailure, ReadWalletAfterFailure,
         ResetPosition, tables
  <1>4. ASSUME TickStep PROVE recorded' = recorded /\ late' = late
    <2>1. CASE Poll \/ PollEvent \/ PollDone
      BY <2>1 DEF Poll, PollEvent, PollDone, Arrive, tables
    <2>2. CASE SelectExpired \/ ExpirePendingAction \/ ExpireDone
      BY <2>2 DEF SelectExpired, ExpirePendingAction, ExpireDone, tables
    <2>3. CASE SelectExpiredBuy \/ DeleteExpiredBuy
      BY <2>3 DEF SelectExpiredBuy, DeleteExpiredBuy, tables
    <2>4. CASE SelectDue \/ ClaimDue
      BY <2>4 DEF SelectDue, ClaimDue, tables
    <2>. QED BY <1>4, <2>1, <2>2, <2>3, <2>4 DEF TickStep
  <1>5. ASSUME Hear \/ (\E long \in BOOLEAN : Elapse(long)) \/ Mine \/ Crash
        PROVE  recorded' = recorded /\ late' = late
    BY <1>5 DEF Hear, Arrive, Elapse, Mine, Crash, tables
  <1>6. UNCHANGED vars => recorded' = recorded /\ late' = late
    BY DEF vars, tables
  <1>7. Noted
    BY <1>1, <1>2, <1>3, <1>4, <1>5, <1>6 DEF Next
  <1>. QED BY <1>7 DEF Noted

\* The invariant is kept by every step.
LEMMA PhantomStep ==
  ASSUME ~ScheduledSell, TypeOK, LocalsOK, UnderMutex, FollowInv, PhantomInv,
         [Next]_vars
  PROVE  PhantomInv'
  <1>1. [Next]_vars /\ late' = late \cup {g \in recorded' \ recorded : Overtaken(g)}
    BY LateIs
  <1>2. ChainOrder' /\ Solvent'
    BY <1>1, OrderStep, SolventStep DEF PhantomInv
  <1>3. CASE recorded' = recorded
    <2>1. late' = late
      BY <1>1, <1>3
    <2>2. recorded' \subseteq Mined'
      <3>1. recorded \subseteq Mined
        BY DEF PhantomInv
      <3>2. Mined \subseteq Mined'
        BY <1>1, MinedStable DEF Mined
      <3>3. QED
        BY <1>3, <3>1, <3>2
    <2>3. \A a \in Amounts' : a + Due' <= Cover'
      BY <1>1, <1>3, <2>1, PhantomOther
    <2>4. QED
      BY <1>2, <1>3, <2>1, <2>2, <2>3 DEF PhantomInv
  <1>4. CASE recorded' # recorded
    <2>1. PICK t \in Threads, h \in Hashes : Accounts(t, h)
      BY <1>1, <1>4, FillAccounts
    <2>2. QED
      BY <1>1, <1>2, <2>1, PhantomFill DEF PhantomInv
  <1>5. QED
    BY <1>3, <1>4

\* The position claims no more tokens than the wallet holds, the sells to be
\* accounted took, and the late buys brought, however many trades, replacements,
\* reverts, failures and restarts there are.  The hypothesis is needed: the
\* scheduler's write of a filled sell undoes fills.
THEOREM NoPhantoms == ASSUME ~ScheduledSell PROVE Spec => []NoPhantomTokens
  <1>. DEFINE All == TypeOK /\ LocalsOK /\ UnderMutex /\ FollowInv /\ PhantomInv
  <1>1. Init => All
    <2>. SUFFICES ASSUME Init PROVE All
      OBVIOUS
    <2>1. Init /\ late = {} /\ recorded = {} /\ Mined = {} /\ Sent = {}
      BY DEF Init, Mined, Sent, NoTx
    <2>2. TypeOK /\ LocalsOK /\ UnderMutex /\ FollowInv
      <3>1. LocalsOK
        BY <2>1 DEF Init, LocalsOK, Local, NoJob
      <3>2. UnderMutex /\ FollowInv
        BY <2>1 DEF Init, UnderMutex, Working, FollowInv, WritesBack
      <3>3. QED
        BY <2>1, <3>1, <3>2, TypeInit
    <2>3. ChainOrder
      BY <2>1 DEF Init, ChainOrder, Used, NoTx
    <2>4. /\ InTimeOf(recorded) = {} /\ Outstanding = {}
          /\ \A side, n : After(side, n) = {}
      BY <2>1 DEF InTimeOf, Outstanding, MinedOf, After
    <2>5. wallet = 0 /\ Amounts = {0}
      BY <2>1 DEF Init, Amounts, WritesBack, EmptyPosition
    <2>6. Solvent
      BY <2>4, <2>5, TokensEmpty DEF Solvent
    <2>7. \A a \in Amounts : a + Due <= Cover
      <3>1. late = {}
        BY <2>1
      <3>2. Due = 0 /\ Cover = wallet + 0 + 0
        BY <2>4, <3>1, TokensEmpty DEF Due, Cover
      <3>3. QED
        BY <2>5, <3>2
    <2>8. QED
      BY <2>1, <2>2, <2>3, <2>6, <2>7 DEF PhantomInv
  <1>2. All /\ [Next]_vars => All'
    <2>. SUFFICES ASSUME All, [Next]_vars PROVE All'
      OBVIOUS
    <2>2. TypeOK' /\ LocalsOK'
      BY TypeStep, LocalsStep
    <2>3. ASSUME UNCHANGED vars PROVE FollowInv'
      BY <2>3 DEF vars, tables, FollowInv, WritesBack, Fresh
    <2>4. UnderMutex' /\ FollowInv'
      BY <2>3, MutexStep, FollowProcess, FollowOther DEF Next
    <2>5. QED
      BY <2>2, <2>4, PhantomStep
  <1>3. All => NoPhantomTokens
    <2>. SUFFICES ASSUME All PROVE NoPhantomTokens
      OBVIOUS
    <2>1. position.amount + Due <= Cover /\ position.amount \in Nat
      BY DEF PhantomInv, Amounts, TypeOK, Position
    <2>2. Due \in Nat /\ Cover \in Nat
      BY BooksTyped DEF PhantomInv
    <2>3. position.amount <= Cover
      BY <2>1, <2>2
    <2>4. QED
      BY <2>3 DEF NoPhantomTokens, Cover
  <1>. HIDE DEF All
  <1>4. QED
    BY <1>1, <1>2, <1>3, PTL DEF Spec
=============================================================================
