---------------------------- MODULE WalletNonce ----------------------------
(***************************************************************************)
(* The nonces of one wallet.  Every transaction of a wallet goes through   *)
(* chain.Trading: the strategy's broadcasts, the confirmed swaps and the   *)
(* native transfers of the HTTP API, and the approvals.  Each takes the    *)
(* wallet's mutex, reserves a nonce from a local cursor, asks the node for *)
(* a price and sends.  A failure after the reservation invalidates the     *)
(* cursor, and the next transaction reads the nonce from the node again.   *)
(*                                                                         *)
(* A caller is a goroutine with one call of Trading outstanding at most: a *)
(* shard of the strategy, an HTTP request, the goroutine of an approval.   *)
(***************************************************************************)
EXTENDS Integers, FiniteSets

CONSTANTS
    Callers,
    Calls,      \* Calls[c]: the calls that the goroutine c makes
    Hashes,     \* hashes of the transactions
    NoHash, NoCaller,
    MaxFee,     \* bound: the prices the node may quote
    Evicts      \* whether the node may drop a transaction of the pool

AllCalls == {"broadcast",   \* BroadcastV4, BroadcastPons
             "buy",         \* BroadcastV4 of a buy that may replace a pending one
             "confirmed",   \* PonsSwap, Swap, approvePonsMax: wait for the receipt
             "native",      \* SendNative, SendNativeAll: wait under the mutex
             "approve",     \* PrepareV4SellApproval
             "approvedSwap"}\* Swap, BroadcastV4 with an ERC-20 input
Fees == 1 .. MaxFee

ASSUME WalletAssumption ==
    /\ Calls \in [Callers -> SUBSET AllCalls]
    /\ IsFiniteSet(Hashes)
    /\ NoHash \notin Hashes /\ NoCaller \notin Callers
    /\ MaxFee \in Nat \ {0}
    /\ Evicts \in BOOLEAN

VARIABLES
    cursor,        \* nonceCursors: the next nonce, and whether it is initialized
    walletLock,    \* walletLocks: who holds the mutex of the wallet
    approvalLock,  \* approvalLocks: who holds the mutex of wallet and token
    approved,      \* approvedV4: the token is known to be approved
    pc, job,       \* where each caller is, and its local variables
    row,           \* strategy_pending_buys of each caller's position
    tx, confirmed  \* the node: the transactions, and the nonces it has mined

memory == <<cursor, walletLock, approvalLock, approved, pc, job>>
node == <<tx, confirmed>>
vars == <<memory, row, node>>

\* The transaction a call sends next: the two approvals of a token, the trade.
Stages == {"allow", "permit", "trade"}
NoNonce == -1
Nonces == Nat \cup {NoNonce}
Job == [call : AllCalls, stage : Stages, asked : Nonces, nonce : Nat,
        fee : Nat, hash : Hashes \cup {NoHash}]
NoJob == [call |-> "broadcast", stage |-> "trade", asked |-> NoNonce,
          nonce |-> 0, fee |-> 0, hash |-> NoHash]

Row == [nonce : Nonces, fee : Nat]
NoRow == [nonce |-> NoNonce, fee |-> 0]

Tx == [state : {"none", "pool", "mined", "reverted", "replaced", "dropped"},
       nonce : Nat, fee : Nat, stage : Stages, asked : BOOLEAN]
NoTx == [state |-> "none", nonce |-> 0, fee |-> 0, stage |-> "trade", asked |-> FALSE]

PCs == {"idle", "wantApproval", "wantWallet", "reserve", "price", "send",
        "answered", "receipt", "approval"}

TypeOK ==
    /\ cursor \in [next : Nat, initialized : BOOLEAN]
    /\ walletLock \in Callers \cup {NoCaller}
    /\ approvalLock \in Callers \cup {NoCaller}
    /\ approved \in BOOLEAN
    /\ pc \in [Callers -> PCs]
    /\ job \in [Callers -> Job]
    /\ row \in [Callers -> Row]
    /\ tx \in [Hashes -> Tx]
    /\ confirmed \in Nat

Init ==
    /\ cursor = [next |-> 0, initialized |-> FALSE]
    /\ walletLock = NoCaller /\ approvalLock = NoCaller
    /\ approved = FALSE
    /\ pc = [c \in Callers |-> "idle"]
    /\ job = [c \in Callers |-> NoJob]
    /\ row = [c \in Callers |-> NoRow]
    /\ tx = [h \in Hashes |-> NoTx]
    /\ confirmed = 0

-----------------------------------------------------------------------------
(* The node.                                                               *)

Pool == {h \in Hashes : tx[h].state = "pool"}
\* The nonces of the wallet that are used, or bid for.
Held == (0 .. confirmed - 1) \cup {tx[h].nonce : h \in Pool}
\* eth_getTransactionCount at "pending".
IsPendingCount(n) == n \notin Held /\ 0 .. n - 1 \subseteq Held

\* The node takes a bid for a free nonce, or one that outbids the pooled one.
Accepts(n, fee) ==
    /\ n >= confirmed
    /\ \A h \in Pool : tx[h].nonce = n => fee > tx[h].fee
Accepted(h, j) ==
    [g \in Hashes |->
        IF g = h THEN [state |-> "pool", nonce |-> j.nonce, fee |-> j.fee,
                       stage |-> j.stage, asked |-> j.asked # NoNonce]
        ELSE IF g \in Pool /\ tx[g].nonce = j.nonce
        THEN [tx[g] EXCEPT !.state = "replaced"] ELSE tx[g]]

Mine ==
    \E h \in Pool, state \in {"mined", "reverted"} :
        /\ tx[h].nonce = confirmed
        /\ tx' = [tx EXCEPT ![h].state = state]
        /\ confirmed' = confirmed + 1
        /\ UNCHANGED <<memory, row>>

Evict ==
    /\ Evicts
    /\ \E h \in Pool : tx' = [tx EXCEPT ![h].state = "dropped"]
    /\ UNCHANGED <<memory, row, confirmed>>

-----------------------------------------------------------------------------
(* The locks and the cursor.                                               *)

LockFreely(holder) == TRUE
MayLock(holder) == holder = NoCaller

Goto(c, label) == pc' = [pc EXCEPT ![c] = label]
\* The call returns, and the deferred unlocks release what it holds.
Return(c) ==
    /\ Goto(c, "idle")
    /\ job' = [job EXCEPT ![c] = NoJob]
    /\ walletLock' = IF walletLock = c THEN NoCaller ELSE walletLock
    /\ approvalLock' = IF approvalLock = c THEN NoCaller ELSE approvalLock

\* reserveNonce with an explicit nonce: the cursor never moves back, and an
\* uninitialized one starts after the nonce asked for.
AfterExplicit(n) == IF ~cursor.initialized \/ cursor.next <= n
                    THEN [next |-> n + 1, initialized |-> TRUE] ELSE cursor

\* A call with opts.Nonce replaces the transaction of that nonce.
AnyNonce(j) == TRUE
Replaces(j) == j.asked # NoNonce

KeepCursor(cur) == cur
Invalidated(cur) == [cur EXCEPT !.initialized = FALSE]

-----------------------------------------------------------------------------
(* The calls.                                                              *)

\* A buy of a position with a pending row asks for the nonce of that row, which
\* executeLive reads before the wallet's mutex is taken.
Call(c) ==
    /\ pc[c] = "idle"
    /\ \E call \in Calls[c] :
        LET approves == call \in {"approve", "approvedSwap"} IN
        /\ job' = [job EXCEPT ![c] =
                [NoJob EXCEPT !.call = call,
                              !.stage = IF approves THEN "allow" ELSE "trade",
                              !.asked = IF call = "buy" THEN row[c].nonce ELSE NoNonce,
                              !.fee = IF call = "buy" THEN row[c].fee ELSE 0]]
        /\ Goto(c, IF approves THEN "wantApproval" ELSE "wantWallet")
    /\ UNCHANGED <<cursor, walletLock, approvalLock, approved, row, node>>

\* The mutex of an approval is held until both of its transactions are mined.
LockApproval(c) ==
    /\ pc[c] = "wantApproval"
    /\ MayLock(approvalLock)
    /\ IF ~approved
       THEN approvalLock' = c /\ Goto(c, "wantWallet") /\ UNCHANGED <<job, walletLock>>
       ELSE IF job[c].call = "approve" THEN Return(c)
       ELSE /\ Goto(c, "wantWallet")
            /\ job' = [job EXCEPT ![c].stage = "trade"]
            /\ UNCHANGED <<walletLock, approvalLock>>
    /\ UNCHANGED <<cursor, approved, row, node>>

\* A native transfer asks for its price, balance and gas before it reserves.
LockWallet(c) ==
    /\ pc[c] = "wantWallet"
    /\ MayLock(walletLock)
    /\ walletLock' = c
    /\ Goto(c, IF job[c].call = "native" THEN "price" ELSE "reserve")
    /\ UNCHANGED <<cursor, approvalLock, approved, job, row, node>>

ReserveNonce(c) ==
    LET asked == job[c].asked
        next == IF job[c].call = "native" THEN "send" ELSE "price" IN
    /\ pc[c] = "reserve"
    /\ \/ /\ Replaces(job[c])
          /\ cursor' = AfterExplicit(asked)
          /\ job' = [job EXCEPT ![c].nonce = asked]
          /\ Goto(c, next)
          /\ UNCHANGED <<walletLock, approvalLock>>
       \/ /\ ~Replaces(job[c])
          /\ \E n \in 0 .. Cardinality(Hashes) :
                /\ IF cursor.initialized THEN n = cursor.next ELSE IsPendingCount(n)
                /\ cursor' = [next |-> n + 1, initialized |-> TRUE]
                /\ job' = [job EXCEPT ![c].nonce = n]
          /\ Goto(c, next)
          /\ UNCHANGED <<walletLock, approvalLock>>
       \/ /\ ~Replaces(job[c]) /\ ~cursor.initialized      \* the node does not answer
          /\ Return(c)
          /\ UNCHANGED cursor
    /\ UNCHANGED <<approved, row, node>>

\* The price of a replacement is above its predecessor's, by an eighth or more.
Price(c) ==
    LET native == job[c].call = "native" IN
    /\ pc[c] = "price"
    /\ \/ /\ \E fee \in Fees :
                /\ fee > job[c].fee
                /\ job' = [job EXCEPT ![c].fee = fee]
          /\ Goto(c, IF native THEN "reserve" ELSE "send")
          /\ UNCHANGED <<cursor, walletLock, approvalLock>>
       \/ /\ cursor' = IF native THEN cursor ELSE Invalidated(cursor)
          /\ Return(c)
    /\ UNCHANGED <<approved, row, node>>

\* SendRaw: accepted, accepted without an answer, or refused.
SendRaw(c) ==
    LET j == job[c] IN
    /\ pc[c] = "send"
    /\ \/ \E h \in Hashes :
            /\ tx[h].state = "none" /\ Accepts(j.nonce, j.fee)
            /\ tx' = Accepted(h, j)
            /\ \/ /\ Goto(c, "answered")
                  /\ job' = [job EXCEPT ![c].hash = h]
                  /\ UNCHANGED <<cursor, walletLock, approvalLock>>
               \/ /\ cursor' = Invalidated(cursor)
                  /\ Return(c)
       \/ /\ cursor' = Invalidated(cursor)
          /\ Return(c)
          /\ UNCHANGED tx
    /\ UNCHANGED <<approved, row, confirmed>>

\* The transaction is sent: a native transfer keeps the mutex for its receipt,
\* a buy writes its row if that is still pending, and the calls that wait do so
\* without the mutex.
Answered(c) ==
    LET j == job[c] IN
    /\ pc[c] = "answered"
    /\ \/ /\ j.call = "native"
          /\ Goto(c, "receipt")
          /\ UNCHANGED <<job, walletLock, approvalLock, row>>
       \/ /\ j.call \in {"broadcast", "buy"}
          /\ Return(c)
          /\ \/ /\ j.call = "buy"
                /\ row' = [row EXCEPT ![c] = [nonce |-> j.nonce, fee |-> j.fee]]
             \/ UNCHANGED row
       \/ /\ j.call \in {"confirmed", "approve", "approvedSwap"}
          /\ walletLock' = NoCaller
          /\ Goto(c, "receipt")
          /\ UNCHANGED <<job, approvalLock, row>>
    /\ UNCHANGED <<cursor, approved, node>>

Ignored(h) == TRUE
Confirms(h) == tx[h].state = "mined"

\* A revert ends the wait, and so does the deadline of sixty seconds, which a
\* node that does not answer can let pass even for a transaction it has mined.
OnRevert(h) == tx[h].state = "reverted"
GivesUp(h) == TRUE

\* waitReceipt polls until the deadline.  The first approval is followed by the
\* second, which is followed by the cache entry and, in a swap, by the trade.
WaitReceipt(c) ==
    LET j == job[c] IN
    /\ pc[c] = "receipt"
    /\ \/ /\ Confirms(j.hash)
          /\ \/ /\ j.stage = "trade" /\ Return(c)
             \/ /\ j.stage = "allow"
                /\ job' = [job EXCEPT ![c].stage = "permit", ![c].hash = NoHash]
                /\ Goto(c, "wantWallet")
                /\ UNCHANGED <<walletLock, approvalLock>>
             \/ /\ j.stage = "permit"
                /\ Goto(c, "approval")
                /\ UNCHANGED <<job, walletLock, approvalLock>>
       \/ GivesUp(j.hash) /\ Return(c)
    /\ UNCHANGED <<cursor, approved, row, node>>

StoreApproval(c) ==
    /\ pc[c] = "approval"
    /\ approved' = TRUE
    /\ IF job[c].call = "approve"
       THEN Return(c)
       ELSE /\ approvalLock' = NoCaller
            /\ job' = [job EXCEPT ![c].stage = "trade", ![c].hash = NoHash]
            /\ Goto(c, "wantWallet")
            /\ UNCHANGED walletLock
    /\ UNCHANGED <<cursor, row, node>>

\* The pending row is confirmed, failed or expired (TradeLifecycle).
ClearRow(c) ==
    /\ row[c] # NoRow
    /\ row' = [row EXCEPT ![c] = NoRow]
    /\ UNCHANGED <<memory, node>>

\* A restart loses the cursor, the cache and the calls.
Restart ==
    /\ cursor' = [next |-> 0, initialized |-> FALSE]
    /\ walletLock' = NoCaller /\ approvalLock' = NoCaller
    /\ approved' = FALSE
    /\ pc' = [c \in Callers |-> "idle"]
    /\ job' = [c \in Callers |-> NoJob]
    /\ UNCHANGED <<row, node>>

Step(c) ==
    \/ LockApproval(c) \/ LockWallet(c) \/ ReserveNonce(c) \/ Price(c)
    \/ SendRaw(c) \/ Answered(c) \/ WaitReceipt(c) \/ StoreApproval(c)

Next ==
    \/ \E c \in Callers : Call(c) \/ Step(c) \/ ClearRow(c)
    \/ Restart \/ Mine \/ Evict

Spec == Init /\ [][Next]_vars

\* A started call goes on, and a mutex of Go is handed over in the end.
Fairness ==
    \A c \in Callers :
        /\ WF_vars(Step(c))
        /\ SF_vars(LockApproval(c))
        /\ SF_vars(LockWallet(c))
FairSpec == Spec /\ Fairness

-----------------------------------------------------------------------------
(* Properties.                                                             *)

Dropped == \E h \in Hashes : tx[h].state = "dropped"
Replaced == \E h \in Hashes : tx[h].asked

\* A transaction that is not a replacement bids for a nonce that no other
\* transaction of the wallet uses or bids for.
FreshNonceFree ==
    \A c \in Callers :
        pc[c] = "send" /\ job[c].asked = NoNonce => job[c].nonce \notin Held

\* Whatever fails or loses its answer, this is so until the node drops a
\* transaction or a buy is replaced.
FreshUnlessReplaced == Dropped \/ Replaced \/ FreshNonceFree

\* No nonce is skipped: a transaction above a gap would wait for ever.  Only the
\* node can open a gap below what was sent.
NoNonceGap ==
    Dropped \/ \A c \in Callers : pc[c] = "send" => 0 .. job[c].nonce - 1 \subseteq Held

\* The cache calls a token approved only when both approvals are mined, so a
\* sell never meets a router without an allowance.
ApprovalIsMined ==
    approved => \A stage \in {"allow", "permit"} :
                    \E h \in Hashes : tx[h].stage = stage /\ tx[h].state = "mined"

\* Every call returns, although one mutex is held while another is awaited and
\* transfers keep the wallet's mutex until their receipt or its timeout.
CallsReturn == \A c \in Callers : pc[c] # "idle" ~> pc[c] = "idle"
=============================================================================
