---------------------------- MODULE ExecuteFunds ----------------------------
(***************************************************************************)
(* The funds of an execute line.  A line has a boss wallet; a batch of the *)
(* line has the boss of its time and execution wallets, which the boss     *)
(* funds, which trade a token, and whose rest is recycled to the boss.     *)
(* The program generates the keys of all of them, and knows a key from the *)
(* tables only.                                                            *)
(*                                                                         *)
(* Every handler of the HTTP API is a sequence of steps, each one database *)
(* statement or one call of the node.  executeMu serializes the lifecycle; *)
(* trades, withdraw, checkToken, deleteToken and autoSwap run beside it.   *)
(* Transactions of a wallet are mined in order, and a request waits for    *)
(* its own.                                                                *)
(***************************************************************************)
EXTENDS Integers, Sequences, FiniteSets

CONSTANTS
    Requests,    \* the requests served at the same time
    NoRequest,
    WalletCount, \* entries of walletConfig
    Funding,     \* transferAmount
    Deposit,     \* what the user paid to the first boss
    Stake, Yield,\* what a buy spends, and what its tokens sell for
    MaxKeys, MaxCalls, MaxFaults \* bounds: keys generated, requests served,
                                 \* failed requests, reverts and crashes

Gas == 1         \* the unit of the native coin: the fee of a transaction
NoKey == 0       \* also an address outside of the system
Keys == 1 .. MaxKeys
Indices == 0 .. WalletCount - 1

ASSUME FundsAssumption ==
    /\ NoRequest \notin Requests
    /\ {WalletCount, MaxKeys, MaxCalls, MaxFaults, Deposit, Yield} \subseteq Nat
    /\ {Funding, Stake} \subseteq Nat \ {0}
    /\ MaxKeys >= 2

VARIABLES
    line,      \* execute_lines: the boss of the line, NoKey without a line
    batches,   \* execute_batches by eid, each with its row of execute_tokens
    wallets,   \* execute_wallets
    native, tokens, \* the balances of each key
    pool,      \* the transactions of each key that are not mined, in order
    mutex,     \* executeMu
    pc, job,   \* where each request is, and its local variables
    made,      \* the keys generated or imported so far
    imported,  \* the keys the user has supplied
    discarded, \* the keys of deleted lines
    credited,  \* history: the keys that received coins since end or deleteLine began
    calls, faults

tables == <<line, batches, wallets>>
chain == <<native, tokens, pool>>
keys == <<made, imported, discarded>>
bounds == <<calls, faults>>
vars == <<tables, chain, mutex, pc, job, keys, credited, bounds>>

Batch == [boss : Keys, status : {"active", "closed", "deleted"},
          task : {"none", "pending", "buy", "sell"}]
Wallet == [eid : Nat, index : Nat, addr : Keys, active : BOOLEAN]

Ops == {"addLine", "deleteLine", "start", "generate", "next", "end",
        "withdraw", "check", "buy", "sell", "sellPart", "autoSwap"}
Job == [op : Ops \cup {"none"}, eid : Nat, index : Nat, todo : SUBSET Keys,
        old : Keys \cup {NoKey}, new : Keys \cup {NoKey},
        qty : [Keys -> Nat], wait : SUBSET Keys, failed : BOOLEAN,
        task : {"none", "pending", "buy", "sell"}]
NoJob == [op |-> "none", eid |-> 0, index |-> 0, todo |-> {}, old |-> NoKey,
          new |-> NoKey, qty |-> [k \in Keys |-> 0], wait |-> {}, failed |-> FALSE, task |-> "none"]

\* transfer: qty coins to a key, or outside; buy; sell: qty tokens.
Tx == [kind : {"transfer", "buy", "sell"}, to : Keys \cup {NoKey}, qty : Nat,
       by : Requests \cup {NoRequest}]

PCs == {"idle", "addBatch", "checkEmpty", "start", "checkSwept", "setBoss",
        "newBatch", "wallet", "fund", "replace", "insert", "deactivate",
        "recycle", "recheck", "sweep", "await", "trade", "track", "upsert"}

TypeOK ==
    /\ line \in Keys \cup {NoKey}
    /\ batches \in Seq(Batch)
    /\ wallets \subseteq Wallet
    /\ native \in [Keys -> Nat] /\ tokens \in [Keys -> Nat]
    /\ pool \in [Keys -> Seq(Tx)]
    /\ mutex \in Requests \cup {NoRequest}
    /\ pc \in [Requests -> PCs]
    /\ job \in [Requests -> Job]
    /\ made \in Keys
    /\ imported \subseteq Keys /\ discarded \subseteq Keys /\ credited \subseteq Keys
    /\ calls \in 0 .. MaxCalls /\ faults \in 0 .. MaxFaults

\* A line after its first generateWallets and checkToken, when walletConfig had
\* one entry.
Init ==
    /\ line = 1
    /\ batches = <<[boss |-> 1, status |-> "active", task |-> "pending"]>>
    /\ wallets = {[eid |-> 1, index |-> 0, addr |-> 2, active |-> TRUE]}
    /\ native = [k \in Keys |-> IF k = 1 THEN Deposit ELSE IF k = 2 THEN Funding ELSE 0]
    /\ tokens = [k \in Keys |-> 0]
    /\ pool = [k \in Keys |-> <<>>]
    /\ mutex = NoRequest
    /\ pc = [r \in Requests |-> "idle"]
    /\ job = [r \in Requests |-> NoJob]
    /\ made = 2 /\ imported = {} /\ discarded = {} /\ credited = {}
    /\ calls = 0 /\ faults = 0

-----------------------------------------------------------------------------
(* Readings of the tables.                                                 *)

Rows == {e \in DOMAIN batches : batches[e].status # "deleted"}
Active == {e \in Rows : batches[e].status = "active"}
Boss(e) == batches[e].boss
WalletsOf(e) == {w.addr : w \in {v \in wallets : v.eid = e}}
ActiveWallets(e) == {w.addr : w \in {v \in wallets : v.eid = e /\ v.active}}
Stored == ({line} \cup {Boss(e) : e \in Rows} \cup {w.addr : w \in wallets}) \ {NoKey}

-----------------------------------------------------------------------------
(* Helpers of the steps.                                                   *)

Goto(r, label) == pc' = [pc EXCEPT ![r] = label]
Begin(r) == pc[r] = "idle" /\ calls < MaxCalls /\ calls' = calls + 1
EnterFreely == TRUE
MayEnter == mutex = NoRequest
Lock(r) == MayEnter /\ mutex' = r
Released(r) == IF mutex = r THEN NoRequest ELSE mutex
Return(r) ==
    /\ Goto(r, "idle")
    /\ job' = [job EXCEPT ![r] = NoJob]
    /\ mutex' = Released(r)
\* A call of the handler of op with its first local variables.
Started(r, op, eid, todo) ==
    job' = [job EXCEPT ![r] = [NoJob EXCEPT !.op = op, !.eid = eid, !.todo = todo]]
Done(r, k) == job' = [job EXCEPT ![r].todo = @ \ {k}]
Fault == faults < MaxFaults /\ faults' = faults + 1
MayGenerate == made < MaxKeys

\* A transfer holds the mutex of its wallet until it returns.
WalletFree(k) == \A i \in DOMAIN pool[k] : ~(pool[k][i].kind = "transfer"
                                             /\ pool[k][i].by # NoRequest)
Sent(r, from, to, kind, qty) ==
    pool' = [pool EXCEPT ![from] = Append(@, [kind |-> kind, to |-> to, qty |-> qty, by |-> r])]

-----------------------------------------------------------------------------
(* addLine, updateLineData, deleteLine, autoSwap: the line.                *)

\* The boss of a new line is generated, or supplied by the user.
AddLine(r) ==
    /\ line = NoKey /\ MayGenerate
    /\ Begin(r) /\ Lock(r)
    /\ made' = made + 1
    /\ \E own \in BOOLEAN : imported' = IF own THEN imported \cup {made'} ELSE imported
    /\ line' = made'
    /\ job' = [job EXCEPT ![r] = [NoJob EXCEPT !.op = "addLine", !.new = made']]
    /\ Goto(r, "addBatch")
    /\ UNCHANGED <<batches, wallets, chain, discarded, credited, faults>>

\* CreateExecuteBatch: one transaction, which needs the row of the line.
Closed(b) == IF b.status = "active" THEN [b EXCEPT !.status = "closed"] ELSE b
WithBatch(boss) ==
    Append([e \in DOMAIN batches |-> Closed(batches[e])],
           [boss |-> boss, status |-> "active", task |-> "none"])

\* Without its first batch the line is deleted again.
AddBatch(r) ==
    /\ pc[r] = "addBatch"
    /\ \/ batches' = WithBatch(job[r].new) /\ UNCHANGED <<line, faults>>
       \/ Fault /\ line' = NoKey /\ UNCHANGED batches
    /\ Return(r)
    /\ UNCHANGED <<wallets, chain, keys, credited, calls>>

\* updateLineData with another boss key: the active batch keeps its boss.
ImportBoss(r) ==
    /\ line # NoKey /\ MayGenerate
    /\ Begin(r) /\ MayEnter
    /\ made' = made + 1 /\ imported' = imported \cup {made'}
    /\ line' = made'
    /\ UNCHANGED <<batches, wallets, chain, mutex, pc, job, discarded, credited, faults>>

\* What deleteLine requires to be empty.
LineBossOnly == {line}
KeptByLine == {line} \cup UNION {{Boss(e)} \cup ActiveWallets(e) : e \in Active}

DeleteLine(r) ==
    /\ line # NoKey
    /\ Begin(r) /\ Lock(r)
    /\ Started(r, "deleteLine", 0, KeptByLine)
    /\ credited' = {}
    /\ Goto(r, "checkEmpty")
    /\ UNCHANGED <<tables, chain, keys, faults>>

CheckEmpty(r) ==
    /\ pc[r] = "checkEmpty"
    /\ \E k \in job[r].todo :
        IF native[k] > 0 THEN Return(r)
        ELSE Done(r, k) /\ UNCHANGED <<pc, mutex>>
    /\ UNCHANGED <<tables, chain, keys, credited, bounds>>

\* The batches, wallets and tokens of the line go with it.
DeleteRows(r) ==
    /\ pc[r] = "checkEmpty" /\ job[r].todo = {}
    /\ line' = NoKey
    /\ batches' = [e \in DOMAIN batches |-> [batches[e] EXCEPT !.status = "deleted",
                                                               !.task = "none"]]
    /\ wallets' = {}
    /\ discarded' = discarded \cup Stored
    /\ Return(r)
    /\ UNCHANGED <<chain, made, imported, credited, bounds>>

\* autoSwap reads the line and writes all of it back, boss included, without
\* the mutex.
AutoSwap(r) ==
    /\ line # NoKey
    /\ Begin(r)
    /\ job' = [job EXCEPT ![r] = [NoJob EXCEPT !.op = "autoSwap", !.new = line]]
    /\ Goto(r, "upsert")
    /\ UNCHANGED <<tables, chain, mutex, keys, credited, faults>>

UpsertLine(r) ==
    /\ pc[r] = "upsert"
    /\ line' = job[r].new
    /\ Return(r)
    /\ UNCHANGED <<batches, wallets, chain, keys, credited, bounds>>

-----------------------------------------------------------------------------
(* start: the next batch, with a boss of its own.                          *)

\* The line is read before the mutex is taken.
Start(r) ==
    /\ line # NoKey
    /\ Begin(r)
    /\ job' = [job EXCEPT ![r] = [NoJob EXCEPT !.op = "start", !.new = line]]
    /\ Goto(r, "start")
    /\ UNCHANGED <<tables, chain, mutex, keys, credited, faults>>

ReadActiveBatch(r) ==
    /\ pc[r] = "start"
    /\ Lock(r)
    /\ job' = [job EXCEPT ![r].todo = UNION {ActiveWallets(e) : e \in Active}]
    /\ Goto(r, "checkSwept")
    /\ UNCHANGED <<tables, chain, keys, credited, bounds>>

CheckSwept(r) ==
    /\ pc[r] = "checkSwept"
    /\ \E k \in job[r].todo :
        IF native[k] > Gas THEN Return(r)
        ELSE Done(r, k) /\ UNCHANGED <<pc, mutex>>
    /\ UNCHANGED <<tables, chain, keys, credited, bounds>>

\* Without an active batch the boss of the line is used.
ChooseBoss(r) ==
    /\ pc[r] = "checkSwept" /\ job[r].todo = {}
    /\ \/ /\ Active = {}
          /\ Goto(r, "setBoss")
          /\ UNCHANGED <<made, job>>
       \/ /\ Active # {} /\ MayGenerate
          /\ made' = made + 1
          /\ \E e \in Active : job' = [job EXCEPT ![r].old = Boss(e), ![r].new = made']
          /\ Goto(r, "sweep")
    /\ UNCHANGED <<tables, chain, mutex, imported, discarded, credited, bounds>>

SetExecuteLineBoss(r) ==
    /\ pc[r] = "setBoss"
    /\ line' = IF line = NoKey THEN NoKey ELSE job[r].new
    /\ Goto(r, "newBatch")
    /\ UNCHANGED <<batches, wallets, chain, mutex, job, keys, credited, bounds>>

NewBatch(r) ==
    /\ pc[r] = "newBatch"
    /\ batches' = IF line = NoKey THEN batches ELSE WithBatch(job[r].new)
    /\ Return(r)
    /\ UNCHANGED <<line, wallets, chain, keys, credited, bounds>>

-----------------------------------------------------------------------------
(* generateWallets.                                                        *)

GenerateWallets(r) ==
    /\ Begin(r) /\ Lock(r)
    /\ \E e \in Rows : Started(r, "generate", e, {})
    /\ Goto(r, "wallet")
    /\ UNCHANGED <<tables, chain, keys, credited, faults>>

\* The wallet of an index is the newest with it; an inactive one is left alone.
At(e, i) == {w \in wallets : w.eid = e /\ w.index = i}
Newest(rows) == CHOOSE w \in rows : \A v \in rows : v.addr <= w.addr
NextIndex(r) == job' = [job EXCEPT ![r].index = @ + 1]
Funds(r, addr) == /\ job' = [job EXCEPT ![r].new = addr]
                  /\ Goto(r, "fund")

GenerateWallet(r) ==
    LET e == job[r].eid
        i == job[r].index IN
    /\ pc[r] = "wallet"
    /\ \/ /\ i \notin Indices
          /\ Return(r) /\ UNCHANGED <<wallets, made>>
       \/ /\ i \in Indices /\ At(e, i) = {} /\ MayGenerate
          /\ made' = made + 1
          /\ wallets' = wallets \cup {[eid |-> e, index |-> i, addr |-> made', active |-> TRUE]}
          /\ Funds(r, made')
          /\ UNCHANGED mutex
       \/ /\ i \in Indices /\ At(e, i) # {}
          /\ LET w == Newest(At(e, i)) IN
             IF w.active THEN Funds(r, w.addr) ELSE NextIndex(r) /\ UNCHANGED pc
          /\ UNCHANGED <<wallets, made, mutex>>
    /\ UNCHANGED <<line, batches, chain, imported, discarded, credited, bounds>>

\* A wallet below transferAmount gets the difference from the boss.
Anyway(amount) == TRUE
IsShort(amount) == amount > 0
FundWallet(r) ==
    LET from == Boss(job[r].eid)
        amount == Funding - native[job[r].new] IN
    /\ pc[r] = "fund"
    /\ \/ /\ ~IsShort(amount)
          /\ Goto(r, "wallet") /\ NextIndex(r)
          /\ UNCHANGED <<pool, mutex>>
       \/ /\ IsShort(amount) /\ native[from] >= amount + Gas /\ WalletFree(from)
          /\ Sent(r, from, job[r].new, "transfer", amount)
          /\ job' = [job EXCEPT ![r].wait = {from}]
          /\ Goto(r, "await")
          /\ UNCHANGED mutex
       \/ /\ IsShort(amount) /\ native[from] < amount + Gas
          /\ Return(r) /\ UNCHANGED pool
    /\ UNCHANGED <<tables, native, tokens, keys, credited, bounds>>

-----------------------------------------------------------------------------
(* nextWallet: a new key takes the place and the coins of a wallet.        *)

NextWallet(r) ==
    /\ Begin(r) /\ Lock(r)
    /\ \E e \in Rows :
        /\ ActiveWallets(e) # {}
        /\ \E W \in {ActiveWallets(e)} \cup {{k} : k \in ActiveWallets(e)} :
                Started(r, "next", e, W)
    /\ Goto(r, "replace")
    /\ UNCHANGED <<tables, chain, keys, credited, faults>>

ReplaceWallet(r) ==
    /\ pc[r] = "replace"
    /\ \/ job[r].todo = {} /\ Return(r) /\ UNCHANGED made
       \/ /\ MayGenerate
          /\ made' = made + 1
          /\ \E k \in job[r].todo :
                job' = [job EXCEPT ![r].todo = @ \ {k}, ![r].old = k, ![r].new = made']
          /\ Goto(r, "sweep")
          /\ UNCHANGED mutex
    /\ UNCHANGED <<tables, chain, imported, discarded, credited, bounds>>

\* The replaced wallet keeps its row and its index.
IndexOf(k) == (CHOOSE w \in wallets : w.addr = k).index
Overwriting(row) == {w \in wallets : ~(w.eid = row.eid /\ w.index = row.index)} \cup {row}
Inserted(row) == wallets \cup {row}

InsertWallet(r) ==
    /\ pc[r] = "insert"
    /\ wallets' = Inserted([eid |-> job[r].eid, index |-> IndexOf(job[r].old),
                            addr |-> job[r].new, active |-> TRUE])
    /\ Goto(r, "deactivate")
    /\ UNCHANGED <<line, batches, chain, mutex, job, keys, credited, bounds>>

DeactivateWallet(r) ==
    /\ pc[r] = "deactivate"
    /\ wallets' = {IF w.addr = job[r].old THEN [w EXCEPT !.active = FALSE] ELSE w : w \in wallets}
    /\ Goto(r, "replace")
    /\ UNCHANGED <<line, batches, chain, mutex, job, keys, credited, bounds>>

-----------------------------------------------------------------------------
(* end and withdraw.                                                       *)

\* end sweeps the wallets that nextWallet has replaced, too.
ActiveOnly(e) == ActiveWallets(e) \ {Boss(e)}
Recycled(e) == WalletsOf(e) \ {Boss(e)}

End(r) ==
    /\ Begin(r) /\ Lock(r)
    /\ \E e \in Rows :
        job' = [job EXCEPT ![r] = [NoJob EXCEPT !.op = "end", !.eid = e, !.new = Boss(e),
                                                !.todo = Recycled(e)]]
    /\ credited' = {}
    /\ Goto(r, "recycle")
    /\ UNCHANGED <<tables, chain, keys, faults>>

Recycle(r) ==
    /\ pc[r] = "recycle"
    /\ \/ job[r].todo = {} /\ Return(r)
       \/ /\ \E k \in job[r].todo :
                job' = [job EXCEPT ![r].todo = @ \ {k}, ![r].old = k]
          /\ Goto(r, "sweep")
          /\ UNCHANGED mutex
    /\ UNCHANGED <<tables, chain, keys, credited, bounds>>

\* After its transfer the wallet holds no more than dust, or end fails.
Recheck(r) ==
    /\ pc[r] = "recheck"
    /\ IF native[job[r].old] > Gas THEN Return(r)
       ELSE Goto(r, "recycle") /\ UNCHANGED <<job, mutex>>
    /\ UNCHANGED <<tables, chain, keys, credited, bounds>>

Withdraw(r) ==
    /\ Begin(r)
    /\ \E e \in Rows :
        job' = [job EXCEPT ![r] = [NoJob EXCEPT !.op = "withdraw", !.eid = e, !.old = Boss(e)]]
    /\ Goto(r, "sweep")
    /\ UNCHANGED <<tables, chain, mutex, keys, credited, faults>>

-----------------------------------------------------------------------------
(* SendNativeAll, and the wait for a receipt.                              *)

\* Where the handler goes on.  A wallet that cannot pay for its transfer is no
\* error, but for withdraw.
Continue(r, label) ==
    IF label = "idle" THEN Return(r)
    ELSE Goto(r, label) /\ UNCHANGED mutex
         /\ job' = [job EXCEPT ![r].index = IF label = "wallet" THEN @ + 1 ELSE @]
AfterDust(op) == CASE op = "start" -> "setBoss" [] op = "next" -> "insert"
                   [] op = "end" -> "recycle" [] op = "withdraw" -> "idle"
AfterReceipt(op) == CASE op = "start" -> "setBoss" [] op = "next" -> "insert"
                      [] op = "end" -> "recheck" [] op = "withdraw" -> "idle"
                      [] op = "generate" -> "wallet"

Sweep(r) ==
    LET from == job[r].old
        amount == native[from] - Gas IN
    /\ pc[r] = "sweep" /\ WalletFree(from)
    /\ \/ /\ amount > 0
          /\ Sent(r, from, job[r].new, "transfer", amount)
          /\ job' = [job EXCEPT ![r].wait = {from}]
          /\ Goto(r, "await")
          /\ UNCHANGED <<mutex, faults>>
       \/ /\ amount <= 0
          /\ Continue(r, AfterDust(job[r].op))
          /\ UNCHANGED <<pool, faults>>
       \/ /\ job[r].op \in {"start", "next"}  \* an error that names the balance
          /\ Fault
          /\ Continue(r, AfterDust(job[r].op))
          /\ UNCHANGED pool
    /\ UNCHANGED <<tables, native, tokens, keys, credited, calls>>

Awaited(r) ==
    /\ pc[r] = "await" /\ job[r].wait = {}
    /\ IF job[r].failed THEN Return(r) ELSE Continue(r, AfterReceipt(job[r].op))
    /\ UNCHANGED <<tables, chain, keys, credited, bounds>>

-----------------------------------------------------------------------------
(* The token of a batch: checkToken, deleteToken, buyToken, sellToken.     *)

\* Another batch must not hold the token, unless the check is forced.
CheckToken(r) ==
    /\ Begin(r)
    /\ \E e \in Rows, force \in BOOLEAN :
        /\ force \/ \A f \in Rows \ {e} : batches[f].task # "buy"
        /\ Started(r, "check", e, {})
    /\ Goto(r, "track")
    /\ UNCHANGED <<tables, chain, mutex, keys, credited, faults>>

TrackToken(r) ==
    LET e == job[r].eid IN
    /\ pc[r] = "track"
    /\ batches' = IF e \in Rows /\ batches[e].task \in {"none", "sell"}
                  THEN [batches EXCEPT ![e].task = "pending"] ELSE batches
    /\ Return(r)
    /\ UNCHANGED <<line, wallets, chain, keys, credited, bounds>>

DeleteToken(r) ==
    /\ Begin(r)
    /\ \E e \in Rows : /\ batches[e].task = "pending"
                       /\ batches' = [batches EXCEPT ![e].task = "none"]
    /\ UNCHANGED <<line, wallets, chain, mutex, pc, job, keys, credited, faults>>

\* buyToken and sellToken, with all active wallets of the batch or one of them.
\* A sell counts the tokens of each, and remembers the status of the task.
Amount(op, k) == CASE op = "buy" -> Stake [] op = "sell" -> tokens[k] [] op = "sellPart" -> 1
Trade(r) ==
    /\ Begin(r)
    /\ \E e \in Rows, op \in {"buy", "sell", "sellPart"} :
        LET able == {k \in ActiveWallets(e) : op = "buy" \/ tokens[k] > 0} IN
        /\ batches[e].task # "none" /\ able # {}
        /\ \E W \in {able} \cup {{k} : k \in able} :
            job' = [job EXCEPT ![r] =
                [NoJob EXCEPT !.op = op, !.eid = e, !.todo = W, !.task = batches[e].task,
                              !.qty = [k \in Keys |-> IF k \in W THEN Amount(op, k) ELSE 0]]]
    /\ Goto(r, "trade")
    /\ UNCHANGED <<tables, chain, mutex, keys, credited, faults>>

\* executeTrade of one wallet: it needs the row of the token, and the coins.
\* All wallets are tried, whichever fail.
ExecuteTrade(r) ==
    LET j == job[r]
        buys == j.op = "buy" IN
    /\ pc[r] = "trade"
    /\ \E k \in j.todo :
        /\ WalletFree(k)
        /\ IF batches[j.eid].task = "none" \/ native[k] < Gas + (IF buys THEN Stake ELSE 0)
           THEN /\ job' = [job EXCEPT ![r].todo = @ \ {k}, ![r].failed = TRUE]
                /\ UNCHANGED pool
           ELSE /\ Sent(r, k, NoKey, IF buys THEN "buy" ELSE "sell", j.qty[k])
                /\ job' = [job EXCEPT ![r].todo = @ \ {k}, ![r].wait = @ \cup {k}]
    /\ UNCHANGED <<tables, native, tokens, mutex, pc, keys, credited, bounds>>

\* The new status of the task: a partial sell writes back the one it read.
UpdateTokenStatus(r) ==
    LET j == job[r]
        status == CASE j.op = "buy" -> "buy" [] j.op = "sell" -> "sell"
                    [] j.op = "sellPart" -> j.task IN
    /\ pc[r] = "trade" /\ j.todo = {} /\ j.wait = {}
    /\ batches' = IF ~j.failed /\ batches[j.eid].task # "none"
                  THEN [batches EXCEPT ![j.eid].task = status] ELSE batches
    /\ Return(r)
    /\ UNCHANGED <<line, wallets, chain, keys, credited, bounds>>

-----------------------------------------------------------------------------
(* The chain, and failures.                                                *)

\* The oldest transaction of a wallet is mined.  Without the coins it is dropped;
\* a sell of more tokens than the wallet has reverts, and so may any trade.
Cost(tx) == Gas + IF tx.kind = "sell" THEN 0 ELSE tx.qty
Earned(k, tx) == IF tx.kind = "transfer" /\ tx.to # NoKey THEN {tx.to}
                 ELSE IF tx.kind = "sell" THEN {k} ELSE {}
Gain(tx) == IF tx.kind = "sell" THEN Yield * tx.qty ELSE tx.qty
Answer(tx, k, ok) ==
    IF tx.by = NoRequest THEN job
    ELSE [job EXCEPT ![tx.by].wait = @ \ {k}, ![tx.by].failed = @ \/ ~ok]

Mine(k) ==
    LET tx == Head(pool[k])
        able == native[k] >= Cost(tx) /\ (tx.kind = "sell" => tokens[k] >= tx.qty) IN
    /\ pool[k] # <<>>
    /\ pool' = [pool EXCEPT ![k] = Tail(@)]
    /\ \/ /\ able
          /\ native' = [x \in Keys |-> native[x] - (IF x = k THEN Cost(tx) ELSE 0)
                                               + (IF x \in Earned(k, tx) THEN Gain(tx) ELSE 0)]
          /\ tokens' = [tokens EXCEPT ![k] = CASE tx.kind = "buy" -> @ + 1
                                               [] tx.kind = "sell" -> @ - tx.qty
                                               [] tx.kind = "transfer" -> @]
          /\ credited' = credited \cup Earned(k, tx)
          /\ job' = Answer(tx, k, TRUE)
          /\ UNCHANGED faults
       \/ /\ tx.kind # "transfer" /\ (able => Fault) /\ (~able => UNCHANGED faults)
          /\ native' = [native EXCEPT ![k] = IF @ >= Gas THEN @ - Gas ELSE @]
          /\ job' = Answer(tx, k, FALSE)
          /\ UNCHANGED <<tokens, credited>>
       \/ /\ tx.kind = "transfer" /\ ~able
          /\ job' = Answer(tx, k, FALSE)
          /\ UNCHANGED <<native, tokens, credited, faults>>
    /\ UNCHANGED <<tables, mutex, pc, keys, calls>>

\* Nobody waits any more for the transactions of the requests rs.
Forsaken(rs) ==
    [k \in Keys |-> [i \in DOMAIN pool[k] |->
        IF pool[k][i].by \in rs THEN [pool[k][i] EXCEPT !.by = NoRequest] ELSE pool[k][i]]]

\* A statement fails, the node does not answer, or a receipt does not come in
\* time: the handler returns an error.
Fail(r) ==
    /\ pc[r] \notin {"idle", "addBatch"}
    /\ Fault
    /\ pool' = Forsaken({r})
    /\ Return(r)
    /\ UNCHANGED <<tables, native, tokens, keys, credited, calls>>

Crash ==
    /\ Fault
    /\ pool' = Forsaken(Requests)
    /\ pc' = [r \in Requests |-> "idle"]
    /\ job' = [r \in Requests |-> NoJob]
    /\ mutex' = NoRequest
    /\ UNCHANGED <<tables, native, tokens, keys, credited, calls>>

-----------------------------------------------------------------------------

Call(r) ==
    \/ AddLine(r) \/ ImportBoss(r) \/ DeleteLine(r) \/ AutoSwap(r) \/ Start(r)
    \/ GenerateWallets(r) \/ NextWallet(r) \/ End(r) \/ Withdraw(r)
    \/ CheckToken(r) \/ DeleteToken(r) \/ Trade(r)

Step(r) ==
    \/ AddBatch(r) \/ CheckEmpty(r) \/ DeleteRows(r) \/ UpsertLine(r)
    \/ ReadActiveBatch(r) \/ CheckSwept(r) \/ ChooseBoss(r)
    \/ SetExecuteLineBoss(r) \/ NewBatch(r)
    \/ GenerateWallet(r) \/ FundWallet(r)
    \/ ReplaceWallet(r) \/ InsertWallet(r) \/ DeactivateWallet(r)
    \/ Recycle(r) \/ Recheck(r) \/ Sweep(r) \/ Awaited(r)
    \/ TrackToken(r) \/ ExecuteTrade(r) \/ UpdateTokenStatus(r)

Next ==
    \/ \E r \in Requests : Call(r) \/ Step(r) \/ Fail(r)
    \/ \E k \in Keys : Mine(k)
    \/ Crash

Spec == Init /\ [][Next]_vars

-----------------------------------------------------------------------------
(* Properties.                                                             *)

Funded == {k \in Keys : native[k] > 0 \/ tokens[k] > 0}
\* A key that start or nextWallet has generated and not stored yet.
InHand == {job[r].new : r \in Requests}

\* As long as no request fails, every key that holds something is in a table or
\* about to be stored: neither a new boss, nor the replacement of a wallet, nor
\* a stale line written by autoSwap loses one.  A deleted line is no loss.
KeysKept == faults = 0 => Funded \subseteq Stored \cup InHand \cup imported \cup discarded

\* One current wallet per index: only between the insert and the update of
\* nextWallet, or after a failure between them, there are two.
OneActiveWallet ==
    faults = 0 /\ mutex = NoRequest =>
        \A w, v \in wallets : w.active /\ v.active /\ w.eid = v.eid /\ w.index = v.index => w = v

\* When end succeeds, no wallet of the batch holds more than dust, inactive ones
\* included, unless a trade or a transfer outside of the mutex paid it meanwhile.
EndLeavesDust ==
    [][\A r \in Requests : pc[r] = "recycle" /\ job[r].todo = {} /\ faults' = faults /\ pc'[r] = "idle"
        => \A k \in WalletsOf(job[r].eid) : native[k] <= Gas \/ k \in credited]_vars

\* A line is deleted only when the boss and the active wallets of its active batch
\* are empty, although the boss of the line may be another one by then, unless they
\* were paid after the check began.
DeletedEmpty ==
    [][discarded' # discarded =>
        \A e \in Active : \A k \in {Boss(e)} \cup ActiveWallets(e) :
            native[k] = 0 \/ k \in credited]_vars

\* The history of the wallets is kept: a key the tables have held is not
\* forgotten while it holds coins, whatever fails.
StoredKeysKept ==
    [][\A k \in Stored : native[k] > 0 =>
          k \in Stored' \cup InHand' \cup imported \cup discarded']_vars
=============================================================================
