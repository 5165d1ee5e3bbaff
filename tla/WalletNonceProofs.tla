--------------------------- MODULE WalletNonceProofs ---------------------------
(* Theorems about WalletNonce, for any callers, calls, hashes and fees. *)
EXTENDS WalletNonce, FiniteSetTheorems, TLAPS

-----------------------------------------------------------------------------
(* Type correctness.                                                       *)

LEMMA FixedTyped == NoJob \in Job /\ NoRow \in Row /\ NoTx \in Tx
  BY DEF NoJob, Job, NoRow, Row, NoTx, Tx, AllCalls, Stages, Nonces, NoNonce

LEMMA TypeInit == Init => TypeOK
  <1>. SUFFICES ASSUME Init PROVE TypeOK
    OBVIOUS
  <1>1. /\ job \in [Callers -> Job] /\ row \in [Callers -> Row] /\ tx \in [Hashes -> Tx]
        /\ pc \in [Callers -> PCs]
    BY FixedTyped DEF Init, PCs
  <1>. QED BY <1>1 DEF Init, TypeOK

\* An update of one field keeps the local variables of a caller in their set.
LEMMA JobField ==
  ASSUME NEW f \in [Callers -> Job], NEW c \in Callers
  PROVE  /\ \A s \in Stages : [f EXCEPT ![c].stage = s] \in [Callers -> Job]
         /\ \A n \in Nat : [f EXCEPT ![c].nonce = n] \in [Callers -> Job]
         /\ \A n \in Nat : [f EXCEPT ![c].fee = n] \in [Callers -> Job]
         /\ \A h \in Hashes \cup {NoHash} : [f EXCEPT ![c].hash = h] \in [Callers -> Job]
  BY DEF Job

LEMMA GotoTyped ==
  ASSUME TypeOK, NEW c \in Callers, NEW label \in PCs, Goto(c, label)
  PROVE  pc' \in [Callers -> PCs]
  BY DEF Goto, TypeOK

\* A call that returns leaves typed variables and releases its own mutexes.
LEMMA ReturnTyped ==
  ASSUME TypeOK, NEW c \in Callers, Return(c)
  PROVE  /\ pc' \in [Callers -> PCs] /\ job' \in [Callers -> Job]
         /\ walletLock' \in Callers \cup {NoCaller}
         /\ approvalLock' \in Callers \cup {NoCaller}
  BY FixedTyped DEF Return, Goto, TypeOK, PCs

LEMMA TypeCall == ASSUME TypeOK, NEW c \in Callers, Call(c) PROVE TypeOK'
  <1>1. PICK call \in Calls[c] :
          LET approves == call \in {"approve", "approvedSwap"} IN
          /\ job' = [job EXCEPT ![c] =
                  [NoJob EXCEPT !.call = call,
                                !.stage = IF approves THEN "allow" ELSE "trade",
                                !.asked = IF call = "buy" THEN row[c].nonce ELSE NoNonce,
                                !.fee = IF call = "buy" THEN row[c].fee ELSE 0]]
          /\ Goto(c, IF approves THEN "wantApproval" ELSE "wantWallet")
    BY DEF Call
  <1>2. call \in AllCalls /\ row[c] \in Row
    BY WalletAssumption DEF TypeOK, WalletAssumption
  <1>3. job' \in [Callers -> Job]
    BY <1>1, <1>2 DEF TypeOK, Job, NoJob, Row, Nonces, NoNonce, Stages
  <1>4. pc' \in [Callers -> PCs]
    BY <1>1, GotoTyped DEF PCs
  <1>. QED BY <1>3, <1>4 DEF Call, TypeOK, node

LEMMA TypeLocks ==
  ASSUME TypeOK, NEW c \in Callers, LockApproval(c) \/ LockWallet(c) PROVE TypeOK'
  <1>1. pc' \in [Callers -> PCs]
    BY GotoTyped, ReturnTyped DEF LockApproval, LockWallet, PCs
  <1>2. [job EXCEPT ![c].stage = "trade"] \in [Callers -> Job]
    BY JobField DEF TypeOK, Stages
  <1>3. /\ walletLock' \in Callers \cup {NoCaller}
        /\ approvalLock' \in Callers \cup {NoCaller}
        /\ job' \in [Callers -> Job]
    BY <1>2, ReturnTyped DEF LockApproval, LockWallet, TypeOK
  <1>. QED BY <1>1, <1>3 DEF LockApproval, LockWallet, TypeOK, node

LEMMA TypeReserveNonce == ASSUME TypeOK, NEW c \in Callers, ReserveNonce(c) PROVE TypeOK'
  <1>1. pc' \in [Callers -> PCs]
    BY GotoTyped, ReturnTyped DEF ReserveNonce, PCs
  <1>2. /\ walletLock' \in Callers \cup {NoCaller}
        /\ approvalLock' \in Callers \cup {NoCaller}
    BY ReturnTyped DEF ReserveNonce, TypeOK
  <1>3. cursor' \in [next : Nat, initialized : BOOLEAN] /\ job' \in [Callers -> Job]
    <2>1. CASE Replaces(job[c]) /\ cursor' = AfterExplicit(job[c].asked)
               /\ job' = [job EXCEPT ![c].nonce = job[c].asked]
      <3>1. job[c].asked \in Nat
        BY <2>1 DEF TypeOK, Job, Nonces, Replaces
      <3>. QED BY <2>1, <3>1, JobField DEF AfterExplicit, TypeOK
    <2>2. ASSUME NEW n \in 0 .. Cardinality(Hashes),
                 cursor' = [next |-> n + 1, initialized |-> TRUE],
                 job' = [job EXCEPT ![c].nonce = n]
          PROVE  cursor' \in [next : Nat, initialized : BOOLEAN] /\ job' \in [Callers -> Job]
      <3>1. n \in Nat
        BY FS_CardinalityType, WalletAssumption DEF WalletAssumption
      <3>. QED BY <2>2, <3>1, JobField DEF TypeOK
    <2>3. CASE Return(c) /\ UNCHANGED cursor
      BY <2>3, ReturnTyped DEF TypeOK
    <2>. QED BY <2>1, <2>2, <2>3 DEF ReserveNonce
  <1>. QED BY <1>1, <1>2, <1>3 DEF ReserveNonce, TypeOK, node

LEMMA TypePrice == ASSUME TypeOK, NEW c \in Callers, Price(c) PROVE TypeOK'
  <1>1. pc' \in [Callers -> PCs]
    BY GotoTyped, ReturnTyped DEF Price, PCs
  <1>2. /\ walletLock' \in Callers \cup {NoCaller}
        /\ approvalLock' \in Callers \cup {NoCaller}
        /\ cursor' \in [next : Nat, initialized : BOOLEAN]
    BY ReturnTyped DEF Price, TypeOK, Invalidated
  <1>3. job' \in [Callers -> Job]
    <2>1. \A fee \in Fees : fee \in Nat
      BY WalletAssumption DEF Fees, WalletAssumption
    <2>. QED BY <2>1, ReturnTyped, JobField DEF Price, TypeOK
  <1>. QED BY <1>1, <1>2, <1>3 DEF Price, TypeOK, node

\* The transactions after one is accepted.
LEMMA AcceptedTyped ==
  ASSUME TypeOK, NEW c \in Callers, NEW h \in Hashes
  PROVE  Accepted(h, job[c]) \in [Hashes -> Tx]
  <1>1. job[c] \in Job
    BY DEF TypeOK
  <1>2. [state |-> "pool", nonce |-> job[c].nonce, fee |-> job[c].fee,
         stage |-> job[c].stage, asked |-> job[c].asked # NoNonce] \in Tx
    BY <1>1 DEF Job, Tx
  <1>3. \A g \in Hashes : tx[g] \in Tx /\ [tx[g] EXCEPT !.state = "replaced"] \in Tx
    BY DEF TypeOK, Tx
  <1>. QED BY <1>2, <1>3 DEF Accepted

LEMMA TypeSendRaw == ASSUME TypeOK, NEW c \in Callers, SendRaw(c) PROVE TypeOK'
  <1>1. pc' \in [Callers -> PCs]
    BY GotoTyped, ReturnTyped DEF SendRaw, PCs
  <1>2. /\ walletLock' \in Callers \cup {NoCaller}
        /\ approvalLock' \in Callers \cup {NoCaller}
        /\ cursor' \in [next : Nat, initialized : BOOLEAN]
    BY ReturnTyped DEF SendRaw, TypeOK, Invalidated
  <1>3. job' \in [Callers -> Job]
    BY ReturnTyped, JobField DEF SendRaw, TypeOK
  <1>4. tx' \in [Hashes -> Tx]
    BY AcceptedTyped DEF SendRaw, TypeOK
  <1>. QED BY <1>1, <1>2, <1>3, <1>4 DEF SendRaw, TypeOK

LEMMA TypeAnswered == ASSUME TypeOK, NEW c \in Callers, Answered(c) PROVE TypeOK'
  <1>1. pc' \in [Callers -> PCs]
    BY GotoTyped, ReturnTyped DEF Answered, PCs
  <1>2. /\ walletLock' \in Callers \cup {NoCaller}
        /\ approvalLock' \in Callers \cup {NoCaller}
        /\ job' \in [Callers -> Job]
    BY ReturnTyped DEF Answered, TypeOK
  <1>3. row' \in [Callers -> Row]
    <2>1. [nonce |-> job[c].nonce, fee |-> job[c].fee] \in Row
      BY DEF TypeOK, Job, Row, Nonces
    <2>. QED BY <2>1 DEF Answered, TypeOK
  <1>. QED BY <1>1, <1>2, <1>3 DEF Answered, TypeOK, node

LEMMA TypeWaitReceipt == ASSUME TypeOK, NEW c \in Callers, WaitReceipt(c) PROVE TypeOK'
  <1>1. pc' \in [Callers -> PCs]
    BY GotoTyped, ReturnTyped DEF WaitReceipt, PCs
  <1>2. /\ walletLock' \in Callers \cup {NoCaller}
        /\ approvalLock' \in Callers \cup {NoCaller}
    BY ReturnTyped DEF WaitReceipt, TypeOK
  <1>3. job' \in [Callers -> Job]
    <2>1. [job EXCEPT ![c].stage = "permit"] \in [Callers -> Job]
      BY JobField DEF TypeOK, Stages
    <2>2. [job EXCEPT ![c].stage = "permit", ![c].hash = NoHash] \in [Callers -> Job]
      BY <2>1, JobField
    <2>. QED BY <2>2, ReturnTyped DEF WaitReceipt, TypeOK
  <1>. QED BY <1>1, <1>2, <1>3 DEF WaitReceipt, TypeOK, node

LEMMA TypeStoreApproval == ASSUME TypeOK, NEW c \in Callers, StoreApproval(c) PROVE TypeOK'
  <1>1. pc' \in [Callers -> PCs]
    BY GotoTyped, ReturnTyped DEF StoreApproval, PCs
  <1>2. /\ walletLock' \in Callers \cup {NoCaller}
        /\ approvalLock' \in Callers \cup {NoCaller}
    BY ReturnTyped DEF StoreApproval, TypeOK
  <1>3. job' \in [Callers -> Job]
    <2>1. [job EXCEPT ![c].stage = "trade"] \in [Callers -> Job]
      BY JobField DEF TypeOK, Stages
    <2>2. [job EXCEPT ![c].stage = "trade", ![c].hash = NoHash] \in [Callers -> Job]
      BY <2>1, JobField
    <2>. QED BY <2>2, ReturnTyped DEF StoreApproval
  <1>. QED BY <1>1, <1>2, <1>3 DEF StoreApproval, TypeOK, node

LEMMA TypeNode == ASSUME TypeOK, Mine \/ Evict PROVE TypeOK'
  <1>1. \A h \in Hashes : \A s \in {"mined", "reverted", "dropped"} :
          [tx EXCEPT ![h].state = s] \in [Hashes -> Tx]
    BY DEF TypeOK, Tx
  <1>2. tx' \in [Hashes -> Tx] /\ confirmed' \in Nat
    <2>1. CASE Mine
      <3>1. PICK h \in Pool, state \in {"mined", "reverted"} :
              tx' = [tx EXCEPT ![h].state = state] /\ confirmed' = confirmed + 1
        BY <2>1 DEF Mine
      <3>2. h \in Hashes /\ state \in {"mined", "reverted", "dropped"}
        BY DEF Pool
      <3>3. tx' \in [Hashes -> Tx]
        BY <1>1, <3>1, <3>2
      <3>. QED BY <3>1, <3>3 DEF TypeOK
    <2>2. CASE Evict
      <3>1. PICK h \in Pool : tx' = [tx EXCEPT ![h].state = "dropped"]
        BY <2>2 DEF Evict
      <3>. QED BY <1>1, <2>2, <3>1 DEF Evict, Pool, TypeOK
    <2>. QED BY <2>1, <2>2
  <1>. QED BY <1>2 DEF Mine, Evict, TypeOK, memory

\* Every action keeps every variable in its set.
LEMMA TypeStep == ASSUME TypeOK, [Next]_vars PROVE TypeOK'
  <1>1. CASE UNCHANGED vars
    BY <1>1 DEF vars, memory, node, TypeOK
  <1>2. ASSUME NEW c \in Callers, ClearRow(c) PROVE TypeOK'
    BY <1>2, FixedTyped DEF ClearRow, TypeOK, memory, node
  <1>3. CASE Restart
    BY <1>3, FixedTyped DEF Restart, TypeOK, node, PCs
  <1>. QED
    BY <1>1, <1>2, <1>3, TypeCall, TypeLocks, TypeReserveNonce, TypePrice, TypeSendRaw,
       TypeAnswered, TypeWaitReceipt, TypeStoreApproval, TypeNode DEF Next, Step

\* Every variable keeps to its set.
THEOREM TypeCorrect == Spec => []TypeOK
  BY TypeInit, TypeStep, PTL DEF Spec

-----------------------------------------------------------------------------
(* The mutex of the wallet.                                                *)

\* From the reservation to the answer of the node a call holds the mutex.
Locked(c) == pc[c] \in {"reserve", "price", "send", "answered"}
MutexHeld == \A c \in Callers : Locked(c) => walletLock = c

\* A step of a call leaves the other calls where they are.
LEMMA OthersStay ==
  ASSUME TypeOK, NEW c \in Callers, Call(c) \/ Step(c) \/ ClearRow(c)
  PROVE  \A d \in Callers : d # c => pc'[d] = pc[d] /\ job'[d] = job[d]
  <1>1. Return(c) => \A d \in Callers : d # c => pc'[d] = pc[d] /\ job'[d] = job[d]
    BY DEF Return, Goto, TypeOK
  <1>2. CASE Call(c)
    BY <1>2 DEF Call, Goto, TypeOK
  <1>3. CASE LockApproval(c)
    BY <1>1, <1>3 DEF LockApproval, Goto, TypeOK
  <1>4. CASE LockWallet(c)
    BY <1>4 DEF LockWallet, Goto, TypeOK
  <1>5. CASE ReserveNonce(c)
    BY <1>1, <1>5 DEF ReserveNonce, Goto, TypeOK
  <1>6. CASE Price(c)
    BY <1>1, <1>6 DEF Price, Goto, TypeOK
  <1>7. CASE SendRaw(c)
    BY <1>1, <1>7 DEF SendRaw, Goto, TypeOK
  <1>8. CASE Answered(c)
    BY <1>1, <1>8 DEF Answered, Goto, TypeOK
  <1>9. CASE WaitReceipt(c)
    BY <1>1, <1>9 DEF WaitReceipt, Goto, TypeOK
  <1>10. CASE StoreApproval(c)
    BY <1>1, <1>10 DEF StoreApproval, Goto, TypeOK
  <1>11. CASE ClearRow(c)
    BY <1>11 DEF ClearRow, memory
  <1>. QED
    BY <1>2, <1>3, <1>4, <1>5, <1>6, <1>7, <1>8, <1>9, <1>10, <1>11 DEF Step

\* The mutex changes hands only when it is free, or when its holder releases it.
LEMMA MutexStep == ASSUME TypeOK, MutexHeld, [Next]_vars PROVE MutexHeld'
  <1>1. ASSUME NEW c \in Callers, Call(c) \/ Step(c) \/ ClearRow(c) PROVE MutexHeld'
    <2>1. \A d \in Callers : d # c => pc'[d] = pc[d]
      BY <1>1, OthersStay
    <2>2. \/ walletLock' = walletLock \/ walletLock = NoCaller
          \/ walletLock = c /\ walletLock' = NoCaller
      BY <1>1, WalletAssumption
      DEF Step, Call, LockApproval, LockWallet, ReserveNonce, Price, SendRaw, Answered,
          WaitReceipt, StoreApproval, ClearRow, Return, MayLock, memory, MutexHeld, Locked
    <2>3. Locked(c)' => walletLock' = c
      <3>1. CASE Return(c) \/ Call(c) \/ LockApproval(c) \/ WaitReceipt(c) \/ StoreApproval(c)
        <4>1. ~Locked(c)'
          BY <3>1 DEF Call, LockApproval, WaitReceipt, StoreApproval, Return, Goto, TypeOK, Locked
        <4>. QED BY <4>1
      <3>2. CASE LockWallet(c)
        BY <3>2 DEF LockWallet
      <3>3. CASE ClearRow(c)
        BY <3>3 DEF ClearRow, memory, MutexHeld, Locked
      <3>4. CASE ~Return(c) /\ (ReserveNonce(c) \/ Price(c) \/ SendRaw(c))
        BY <3>4 DEF ReserveNonce, Price, SendRaw, MutexHeld, Locked
      <3>5. CASE ~Return(c) /\ Answered(c)
        <4>1. ~Locked(c)'
          BY <3>5 DEF Answered, Goto, TypeOK, Locked
        <4>. QED BY <4>1
      <3>. QED BY <1>1, <3>1, <3>2, <3>3, <3>4, <3>5 DEF Step
    <2>. QED BY <2>1, <2>2, <2>3, WalletAssumption DEF MutexHeld, Locked, WalletAssumption
  <1>2. CASE Restart
    BY <1>2 DEF Restart, MutexHeld, Locked
  <1>3. CASE Mine \/ Evict \/ UNCHANGED vars
    BY <1>3 DEF Mine, Evict, vars, memory, MutexHeld, Locked
  <1>. QED BY <1>1, <1>2, <1>3 DEF Next

-----------------------------------------------------------------------------
(* The nonces of the node.                                                 *)

\* Mining moves a nonce from the pool to the confirmed ones.
LEMMA HeldMine == ASSUME TypeOK, Mine PROVE Held' = Held
  <1>1. PICK h \in Pool, state \in {"mined", "reverted"} :
          /\ tx[h].nonce = confirmed
          /\ tx' = [tx EXCEPT ![h].state = state]
          /\ confirmed' = confirmed + 1
    BY DEF Mine
  <1>2. h \in Hashes /\ tx[h].state = "pool" /\ confirmed \in Nat
    BY DEF Pool, TypeOK
  <1>3. Pool' = Pool \ {h}
    BY <1>1, <1>2 DEF Pool, TypeOK, Tx
  <1>4. \A g \in Hashes : tx'[g].nonce = tx[g].nonce
    BY <1>1, <1>2 DEF TypeOK, Tx
  <1>5. {tx'[g].nonce : g \in Pool'} = {tx[g].nonce : g \in Pool \ {h}}
    BY <1>3, <1>4 DEF Pool
  <1>6. {tx[g].nonce : g \in Pool} = {tx[g].nonce : g \in Pool \ {h}} \cup {confirmed}
    BY <1>1
  <1>7. 0 .. confirmed' - 1 = (0 .. confirmed - 1) \cup {confirmed}
    BY <1>1, <1>2
  <1>. QED BY <1>5, <1>6, <1>7 DEF Held

\* A bid that the node takes adds its nonce, a replaced one keeps it.
LEMMA HeldSend ==
  ASSUME TypeOK, NEW j \in Job, NEW h \in Hashes, tx[h].state = "none",
         tx' = Accepted(h, j), confirmed' = confirmed
  PROVE  /\ Held' = Held \cup {j.nonce}
         /\ tx'[h] = [state |-> "pool", nonce |-> j.nonce, fee |-> j.fee,
                      stage |-> j.stage, asked |-> j.asked # NoNonce]
         /\ \A g \in Hashes \ {h} :
              /\ tx'[g].nonce = tx[g].nonce /\ tx'[g].stage = tx[g].stage
              /\ tx'[g].asked = tx[g].asked
              /\ tx'[g].state = tx[g].state \/ (tx[g].state = "pool" /\ tx'[g].state = "replaced")
  <1>1. tx'[h] = [state |-> "pool", nonce |-> j.nonce, fee |-> j.fee,
                  stage |-> j.stage, asked |-> j.asked # NoNonce]
    BY DEF Accepted
  <1>2. \A g \in Hashes \ {h} : tx'[g] = IF g \in Pool /\ tx[g].nonce = j.nonce
                                         THEN [tx[g] EXCEPT !.state = "replaced"] ELSE tx[g]
    BY DEF Accepted
  <1>3. \A g \in Hashes \ {h} :
              /\ tx'[g].nonce = tx[g].nonce /\ tx'[g].stage = tx[g].stage
              /\ tx'[g].asked = tx[g].asked
              /\ tx'[g].state = tx[g].state \/ (tx[g].state = "pool" /\ tx'[g].state = "replaced")
    <2>. SUFFICES ASSUME NEW g \in Hashes \ {h}
                  PROVE  /\ tx'[g].nonce = tx[g].nonce /\ tx'[g].stage = tx[g].stage
                         /\ tx'[g].asked = tx[g].asked
                         /\ tx'[g].state = tx[g].state \/ (tx[g].state = "pool" /\ tx'[g].state = "replaced")
      OBVIOUS
    <2>1. tx[g] \in Tx
      BY DEF TypeOK
    <2>2. CASE g \in Pool /\ tx[g].nonce = j.nonce
      <3>1. tx'[g] = [tx[g] EXCEPT !.state = "replaced"] /\ tx[g].state = "pool"
        BY <1>2, <2>2 DEF Pool
      <3>. QED BY <2>1, <3>1 DEF Tx
    <2>3. CASE ~(g \in Pool /\ tx[g].nonce = j.nonce)
      <3>1. tx'[g] = tx[g]
        BY <1>2, <2>3
      <3>. QED BY <3>1
    <2>. QED BY <2>2, <2>3
  <1>4. Pool' = (Pool \ {g \in Pool : tx[g].nonce = j.nonce}) \cup {h}
    <2>1. h \in Pool'
      BY <1>1 DEF Pool
    <2>2. ASSUME NEW g \in Hashes \ {h} PROVE g \in Pool' <=> g \in Pool /\ tx[g].nonce # j.nonce
      <3>1. CASE g \in Pool /\ tx[g].nonce = j.nonce
        <4>1. tx'[g] = [tx[g] EXCEPT !.state = "replaced"] /\ tx[g] \in Tx
          BY <1>2, <3>1 DEF TypeOK
        <4>2. tx'[g].state = "replaced"
          BY <4>1 DEF Tx
        <4>. QED BY <3>1, <4>2 DEF Pool
      <3>2. CASE ~(g \in Pool /\ tx[g].nonce = j.nonce)
        BY <1>2, <3>2 DEF Pool
      <3>. QED BY <3>1, <3>2
    <2>. QED BY <2>1, <2>2 DEF Pool
  <1>5. {tx'[g].nonce : g \in Pool'} = {tx[g].nonce : g \in Pool} \cup {j.nonce}
    <2>1. ASSUME NEW g \in Pool' PROVE tx'[g].nonce \in {tx[f].nonce : f \in Pool} \cup {j.nonce}
      BY <1>1, <1>3, <1>4 DEF Pool
    <2>2. ASSUME NEW g \in Pool PROVE tx[g].nonce \in {tx'[f].nonce : f \in Pool'}
      BY <1>1, <1>3, <1>4 DEF Pool
    <2>3. j.nonce \in {tx'[f].nonce : f \in Pool'}
      BY <1>1, <1>4
    <2>. QED BY <2>1, <2>2, <2>3
  <1>. QED BY <1>1, <1>3, <1>5 DEF Held

LEMMA HeldNat == ASSUME TypeOK PROVE Held \subseteq Nat
  BY DEF TypeOK, Held, Pool, Tx

\* What holds of the nonces as long as the node drops nothing.  The nonces held
\* are an initial segment; the rows and the calls ask for nonces of it; between
\* the reservation and the send, all below the reserved nonce is held, and all
\* below the cursor but for the reserved one.
InFlight(c) == pc[c] = "send" \/ (pc[c] = "price" /\ job[c].call # "native")
Downward == \A m \in Held : 0 .. m - 1 \subseteq Held
AskedHeld == \A c \in Callers :
  /\ row[c].nonce # NoNonce => row[c].nonce \in Held
  /\ job[c].asked # NoNonce => job[c].asked \in Held
  /\ pc[c] = "answered" => job[c].nonce \in Held
BelowHeld == \A c \in Callers : InFlight(c) => 0 .. job[c].nonce - 1 \subseteq Held
CursorHeld == cursor.initialized =>
  \A m \in 0 .. cursor.next - 1 : m \in Held \/ \E c \in Callers : InFlight(c) /\ job[c].nonce = m
GapInv == Downward /\ AskedHeld /\ BelowHeld /\ CursorHeld

\* What holds as long as no transaction replaces another by request, either: the
\* reserved nonce is free, and so is the cursor.
FreshFree == \A c \in Callers :
  InFlight(c) /\ job[c].asked = NoNonce =>
    /\ job[c].nonce \notin Held
    /\ cursor.initialized /\ cursor.next = job[c].nonce + 1
CursorFree == cursor.initialized =>
  cursor.next \notin Held \/ \E c \in Callers : InFlight(c) /\ job[c].asked # NoNonce
FreshInv == FreshFree /\ CursorFree

NonceInv == ~Dropped => GapInv /\ (~Replaced => FreshInv)

\* A hash that is not used has no transaction.
Unsent == \A h \in Hashes : tx[h].state = "none" => ~tx[h].asked

\* The node's part of a step: nothing, a bid, a block or a drop.
LEMMA NodeStep ==
  ASSUME TypeOK, [Next]_vars
  PROVE  \/ UNCHANGED node
         \/ Mine \/ Evict
         \/ \E c \in Callers, h \in Hashes : /\ SendRaw(c)
                                             /\ tx[h].state = "none" /\ tx' = Accepted(h, job[c])
                                             /\ confirmed' = confirmed
  BY DEF Next, Step, Call, LockApproval, LockWallet, ReserveNonce, Price, SendRaw, Answered,
         WaitReceipt, StoreApproval, ClearRow, Restart, vars, node

\* What the node has dropped or replaced stays so.
LEMMA FlagsStable ==
  ASSUME TypeOK, Unsent, [Next]_vars
  PROVE  (Dropped => Dropped') /\ (Replaced => Replaced') /\ Unsent'
  <1>1. CASE UNCHANGED node
    BY <1>1 DEF node, Dropped, Replaced, Unsent
  <1>2. CASE Mine \/ Evict
    <2>1. PICK h \in Pool, s \in {"mined", "reverted", "dropped"} : tx' = [tx EXCEPT ![h].state = s]
      BY <1>2 DEF Mine, Evict
    <2>2. h \in Hashes /\ tx[h].state = "pool"
      BY DEF Pool
    <2>3. \A g \in Hashes : /\ tx'[g].asked = tx[g].asked
                            /\ g # h => tx'[g].state = tx[g].state
                            /\ g = h => tx'[g].state = s
      BY <2>1, <2>2 DEF TypeOK, Tx
    <2>. QED BY <2>2, <2>3 DEF Dropped, Replaced, Unsent
  <1>3. ASSUME NEW c \in Callers, NEW h \in Hashes, tx[h].state = "none",
               tx' = Accepted(h, job[c]), confirmed' = confirmed
        PROVE  (Dropped => Dropped') /\ (Replaced => Replaced') /\ Unsent'
    <2>1. /\ tx'[h].state = "pool"
          /\ \A g \in Hashes \ {h} :
               /\ tx'[g].asked = tx[g].asked
               /\ tx'[g].state = tx[g].state \/ (tx[g].state = "pool" /\ tx'[g].state = "replaced")
      <3>1. job[c] \in Job
        BY DEF TypeOK
      <3>2. /\ tx'[h] = [state |-> "pool", nonce |-> job[c].nonce, fee |-> job[c].fee,
                         stage |-> job[c].stage, asked |-> job[c].asked # NoNonce]
            /\ \A g \in Hashes \ {h} :
                 /\ tx'[g].asked = tx[g].asked
                 /\ tx'[g].state = tx[g].state \/ (tx[g].state = "pool" /\ tx'[g].state = "replaced")
        BY <1>3, <3>1, HeldSend
      <3>. QED BY <3>2
    <2>. QED BY <1>3, <2>1 DEF Dropped, Replaced, Unsent
  <1>. QED BY <1>1, <1>2, <1>3, NodeStep

\* While nothing is dropped, the nonces held only grow, by the bids of SendRaw.
LEMMA HeldStep ==
  ASSUME TypeOK, [Next]_vars, ~Dropped'
  PROVE  \/ Held' = Held
         \/ \E c \in Callers : SendRaw(c) /\ Held' = Held \cup {job[c].nonce}
  <1>1. CASE UNCHANGED node
    BY <1>1 DEF node, Held, Pool
  <1>2. ASSUME Evict PROVE FALSE
    <2>1. PICK h \in Pool : tx' = [tx EXCEPT ![h].state = "dropped"]
      BY <1>2 DEF Evict
    <2>2. h \in Hashes /\ tx'[h].state = "dropped"
      BY <2>1 DEF Pool, TypeOK, Tx
    <2>. QED BY <2>2 DEF Dropped
  <1>3. ASSUME NEW c \in Callers, NEW h \in Hashes, SendRaw(c), tx[h].state = "none",
               tx' = Accepted(h, job[c]), confirmed' = confirmed
        PROVE  Held' = Held \cup {job[c].nonce}
    <2>1. job[c] \in Job
      BY DEF TypeOK
    <2>. QED BY <1>3, <2>1, HeldSend
  <1>. QED BY <1>1, <1>2, <1>3, NodeStep, HeldMine

\* A call asks for the nonce of its row, if it asks for one.
LEMMA CallAsks ==
  ASSUME TypeOK, NEW c \in Callers, Call(c) PROVE job'[c].asked \in {row[c].nonce, NoNonce}
  <1>1. PICK call \in Calls[c] :
          job' = [job EXCEPT ![c] =
                [NoJob EXCEPT !.call = call,
                              !.stage = IF call \in {"approve", "approvedSwap"} THEN "allow" ELSE "trade",
                              !.asked = IF call = "buy" THEN row[c].nonce ELSE NoNonce,
                              !.fee = IF call = "buy" THEN row[c].fee ELSE 0]]
    BY DEF Call
  <1>2. job'[c].asked = [NoJob EXCEPT !.call = call,
                              !.stage = IF call \in {"approve", "approvedSwap"} THEN "allow" ELSE "trade",
                              !.asked = IF call = "buy" THEN row[c].nonce ELSE NoNonce,
                              !.fee = IF call = "buy" THEN row[c].fee ELSE 0].asked
    BY <1>1 DEF TypeOK
  <1>. QED BY <1>2 DEF NoJob

\* What a call asks for and what a row names is held: a buy reads its row, and a
\* row is written when the node has taken the bid.
LEMMA AskedStep ==
  ASSUME TypeOK, AskedHeld, NEW c \in Callers, Call(c) \/ Step(c) \/ ClearRow(c),
         Held \subseteq Held', SendRaw(c) /\ pc'[c] = "answered" => job[c].nonce \in Held'
  PROVE  AskedHeld'
  <1>1. \A d \in Callers : d # c => pc'[d] = pc[d] /\ job'[d] = job[d]
    BY OthersStay
  <1>2. /\ \A d \in Callers : d # c => row'[d] = row[d]
        /\ row'[c] \in {row[c], NoRow} \/ (pc[c] = "answered" /\ row'[c].nonce = job[c].nonce)
    <2>1. CASE Answered(c)
      <3>1. CASE UNCHANGED row
        BY <3>1
      <3>2. CASE row' = [row EXCEPT ![c] = [nonce |-> job[c].nonce, fee |-> job[c].fee]]
        BY <2>1, <3>2 DEF Answered, TypeOK
      <3>. QED BY <2>1, <3>1, <3>2 DEF Answered
    <2>2. CASE ClearRow(c)
      BY <2>2 DEF ClearRow, TypeOK
    <2>3. CASE UNCHANGED row
      BY <2>3
    <2>. QED BY <2>1, <2>2, <2>3 DEF Step, Call, LockApproval, LockWallet, ReserveNonce, Price,
                                     SendRaw, WaitReceipt, StoreApproval
  <1>3. row'[c].nonce # NoNonce => row'[c].nonce \in Held'
    BY <1>2 DEF AskedHeld, NoRow
  <1>4. job'[c].asked \in {job[c].asked, row[c].nonce, NoNonce}
    <2>1. Return(c) => job'[c].asked = NoNonce
      BY DEF Return, NoJob, TypeOK
    <2>2. CASE Call(c)
      BY <2>2, CallAsks
    <2>3. CASE LockApproval(c) \/ LockWallet(c)
      BY <2>1, <2>3 DEF LockApproval, LockWallet, TypeOK, Job
    <2>4. CASE ReserveNonce(c) \/ Price(c)
      BY <2>1, <2>4 DEF ReserveNonce, Price, TypeOK, Job
    <2>5. CASE SendRaw(c) \/ Answered(c)
      BY <2>1, <2>5 DEF SendRaw, Answered, TypeOK, Job
    <2>6. CASE WaitReceipt(c) \/ StoreApproval(c) \/ ClearRow(c)
      BY <2>1, <2>6 DEF WaitReceipt, StoreApproval, ClearRow, memory, TypeOK, Job
    <2>. QED BY <2>2, <2>3, <2>4, <2>5, <2>6 DEF Step
  <1>5. pc'[c] = "answered" => job'[c].nonce \in Held'
    <2>1. CASE SendRaw(c)
      BY <2>1 DEF SendRaw, Return, Goto, TypeOK, Job
    <2>2. CASE ClearRow(c)
      BY <2>2 DEF ClearRow, memory, AskedHeld
    <2>3. CASE ~SendRaw(c) /\ ~ClearRow(c)
      BY <2>3 DEF Step, Call, LockApproval, LockWallet, ReserveNonce, Price, Answered,
                  WaitReceipt, StoreApproval, Return, Goto, TypeOK
    <2>. QED BY <2>1, <2>2, <2>3
  <1>. QED BY <1>1, <1>2, <1>3, <1>4, <1>5 DEF AskedHeld

\* A step before the reservation or after the answer disturbs no cursor and no
\* reserved nonce.
Quiet(c) ==
  /\ UNCHANGED <<cursor, node>>
  /\ ~InFlight(c) /\ ~InFlight(c)'

LEMMA QuietStep ==
  ASSUME TypeOK, GapInv, AskedHeld', NEW c \in Callers, Quiet(c),
         \A d \in Callers : d # c => pc'[d] = pc[d] /\ job'[d] = job[d]
  PROVE  GapInv' /\ (FreshInv => FreshInv')
  <1>1. Held' = Held
    BY DEF Quiet, node, Held, Pool
  <1>2. \A d \in Callers : /\ InFlight(d)' <=> InFlight(d)
                           /\ InFlight(d) => job'[d] = job[d]
    BY DEF Quiet, InFlight
  <1>3. Downward' /\ BelowHeld' /\ CursorHeld'
    BY <1>1, <1>2 DEF GapInv, Downward, BelowHeld, CursorHeld, Quiet
  <1>4. FreshInv => FreshInv'
    BY <1>1, <1>2 DEF FreshInv, FreshFree, CursorFree, Quiet
  <1>. QED BY <1>3, <1>4 DEF GapInv

\* A failure after the reservation forgets the cursor.
LEMMA FailStep ==
  ASSUME TypeOK, GapInv, AskedHeld', NEW c \in Callers, Locked(c), MutexHeld,
         cursor' = Invalidated(cursor), Return(c), Held \subseteq Held', Downward'
  PROVE  GapInv' /\ FreshInv'
  <1>1. ~cursor'.initialized
    BY DEF Invalidated, TypeOK
  <1>2. \A d \in Callers : ~InFlight(d)'
    <2>1. \A d \in Callers : d # c => ~InFlight(d) /\ pc'[d] = pc[d] /\ job'[d] = job[d]
      BY DEF MutexHeld, Locked, InFlight, Return, Goto, TypeOK
    <2>2. pc'[c] = "idle"
      BY DEF Return, Goto, TypeOK
    <2>. QED BY <2>1, <2>2 DEF InFlight
  <1>. QED BY <1>1, <1>2 DEF GapInv, BelowHeld, CursorHeld, FreshInv, FreshFree, CursorFree

\* The reservation of a nonce.
LEMMA ReserveStep ==
  ASSUME TypeOK, TypeOK', GapInv, AskedHeld', NEW c \in Callers, MutexHeld, ReserveNonce(c)
  PROVE  GapInv' /\ (FreshInv => FreshInv')
  <1>1. Held' = Held /\ Held \subseteq Nat
    BY HeldNat DEF ReserveNonce, node, Held, Pool
  <1>2. \A d \in Callers : d # c => ~InFlight(d) /\ pc'[d] = pc[d] /\ job'[d] = job[d]
    BY OthersStay DEF MutexHeld, Locked, InFlight, ReserveNonce, Step
  <1>3. ~InFlight(c) /\ \A d \in Callers : d # c => ~InFlight(d)'
    BY <1>2 DEF InFlight, ReserveNonce
  <1>4. CASE Return(c) /\ UNCHANGED cursor
    <2>1. Quiet(c)
      <3>1. pc'[c] = "idle"
        BY <1>4 DEF Return, Goto, TypeOK
      <3>. QED BY <1>3, <1>4, <3>1 DEF Quiet, InFlight, ReserveNonce
    <2>. QED BY <1>2, <2>1, QuietStep
  <1>5. ASSUME Goto(c, "send") \/ Goto(c, "price"), job'[c].nonce \in Nat,
               0 .. job'[c].nonce - 1 \subseteq Held,
               cursor'.initialized,
               \A m \in 0 .. cursor'.next - 1 : m \in Held \/ m = job'[c].nonce,
               InFlight(c)'
        PROVE  GapInv'
    <2>1. BelowHeld'
      BY <1>1, <1>2, <1>3, <1>5 DEF BelowHeld
    <2>2. CursorHeld'
      BY <1>1, <1>5 DEF CursorHeld
    <2>. QED BY <1>1, <2>1, <2>2 DEF GapInv, Downward
  <1>6. CASE Replaces(job[c]) /\ cursor' = AfterExplicit(job[c].asked)
             /\ job' = [job EXCEPT ![c].nonce = job[c].asked]
             /\ Goto(c, IF job[c].call = "native" THEN "send" ELSE "price")
    <2>1. /\ job'[c].nonce = job[c].asked /\ job'[c].asked = job[c].asked
          /\ job'[c].call = job[c].call
          /\ job[c].asked \in Held /\ job[c].asked # NoNonce
      BY <1>6 DEF TypeOK, Job, Replaces, GapInv, AskedHeld
    <2>2. InFlight(c)'
      BY <1>6, <2>1 DEF InFlight, Goto, TypeOK
    <2>3. /\ job'[c].nonce \in Nat
          /\ 0 .. job'[c].nonce - 1 \subseteq Held
      BY <1>1, <2>1 DEF GapInv, Downward
    <2>4. cursor'.initialized
      BY <1>6 DEF AfterExplicit
    <2>5. \A m \in 0 .. cursor'.next - 1 : m \in Held \/ m = job'[c].nonce
      <3>1. CASE cursor' = cursor /\ cursor.initialized
        BY <1>2, <1>3, <3>1 DEF GapInv, CursorHeld
      <3>2. CASE cursor' = [next |-> job[c].asked + 1, initialized |-> TRUE]
        BY <2>1, <2>3, <3>2
      <3>. QED BY <1>6, <3>1, <3>2 DEF AfterExplicit
    <2>6. FreshInv'
      BY <1>3, <2>1, <2>2 DEF FreshInv, FreshFree, CursorFree
    <2>. QED BY <1>5, <1>6, <2>2, <2>3, <2>4, <2>5, <2>6
  <1>7. ASSUME NEW n \in 0 .. Cardinality(Hashes), ~Replaces(job[c]),
               IF cursor.initialized THEN n = cursor.next ELSE IsPendingCount(n),
               cursor' = [next |-> n + 1, initialized |-> TRUE],
               job' = [job EXCEPT ![c].nonce = n],
               Goto(c, IF job[c].call = "native" THEN "send" ELSE "price")
        PROVE  GapInv' /\ (FreshInv => FreshInv')
    <2>1. /\ job'[c].nonce = n /\ job'[c].asked = NoNonce /\ job'[c].call = job[c].call
          /\ n \in Nat
      BY <1>7 DEF TypeOK, Job, Replaces
    <2>2. InFlight(c)'
      BY <1>7, <2>1 DEF InFlight, Goto, TypeOK
    <2>3. 0 .. n - 1 \subseteq Held
      BY <1>2, <1>3, <1>7 DEF IsPendingCount, GapInv, CursorHeld
    <2>4. \A m \in 0 .. cursor'.next - 1 : m \in Held \/ m = job'[c].nonce
      BY <1>7, <2>1, <2>3
    <2>5. GapInv'
      BY <1>5, <1>7, <2>1, <2>2, <2>3, <2>4
    <2>6. ASSUME FreshInv PROVE FreshInv'
      <3>1. n \notin Held
        BY <1>2, <1>3, <1>7, <2>6 DEF FreshInv, CursorFree, IsPendingCount
      <3>2. n + 1 \notin Held
        BY <2>1, <3>1 DEF GapInv, Downward
      <3>. QED BY <1>1, <1>2, <1>3, <1>7, <2>1, <3>1, <3>2 DEF FreshInv, FreshFree, CursorFree
    <2>. QED BY <2>5, <2>6
  <1>. QED BY <1>4, <1>6, <1>7 DEF ReserveNonce

\* A failure after the reservation, with the node as it was.
LEMMA FailQuietly ==
  ASSUME TypeOK, GapInv, AskedHeld', NEW c \in Callers, Locked(c), MutexHeld,
         cursor' = Invalidated(cursor), Return(c), UNCHANGED node
  PROVE  GapInv' /\ FreshInv'
  <1>1. Held' = Held
    BY DEF node, Held, Pool
  <1>2. Downward'
    BY <1>1 DEF GapInv, Downward
  <1>. QED BY <1>1, <1>2, FailStep

\* A price is only of another fee: the nonce is the reserved one.
LEMMA PriceStep ==
  ASSUME TypeOK, GapInv, AskedHeld', NEW c \in Callers, MutexHeld, Price(c)
  PROVE  GapInv' /\ (FreshInv => FreshInv')
  <1>1. Held' = Held
    BY DEF Price, node, Held, Pool
  <1>2. \A d \in Callers : d # c => ~InFlight(d) /\ pc'[d] = pc[d] /\ job'[d] = job[d]
    BY OthersStay DEF MutexHeld, Locked, InFlight, Price, Step
  <1>3. CASE job[c].call # "native" /\ cursor' = Invalidated(cursor) /\ Return(c)
    BY <1>3, FailQuietly DEF Price, Locked
  <1>4. CASE job[c].call = "native" /\ cursor' = cursor /\ Return(c)
    <2>1. pc'[c] = "idle"
      BY <1>4 DEF Return, Goto, TypeOK
    <2>2. Quiet(c)
      BY <1>4, <2>1 DEF Quiet, InFlight, Price
    <2>. QED BY <1>2, <2>2, QuietStep
  <1>5. ASSUME NEW fee \in Fees, job' = [job EXCEPT ![c].fee = fee], UNCHANGED cursor,
               Goto(c, IF job[c].call = "native" THEN "reserve" ELSE "send")
        PROVE  GapInv' /\ (FreshInv => FreshInv')
    <2>1. /\ job'[c].nonce = job[c].nonce /\ job'[c].asked = job[c].asked
          /\ job'[c].call = job[c].call
          /\ pc'[c] = IF job[c].call = "native" THEN "reserve" ELSE "send"
          /\ pc[c] = "price"
      BY <1>5 DEF TypeOK, Job, Goto, Price
    <2>2. InFlight(c)' <=> InFlight(c)
      BY <2>1 DEF InFlight
    <2>3. \A d \in Callers : /\ InFlight(d)' <=> InFlight(d)
                             /\ job'[d].nonce = job[d].nonce /\ job'[d].asked = job[d].asked
      BY <1>2, <2>1, <2>2 DEF InFlight
    <2>4. Downward' /\ BelowHeld' /\ CursorHeld'
      BY <1>1, <1>5, <2>3 DEF GapInv, Downward, BelowHeld, CursorHeld
    <2>5. FreshInv => FreshInv'
      BY <1>1, <1>5, <2>3 DEF FreshInv, FreshFree, CursorFree
    <2>. QED BY <2>4, <2>5 DEF GapInv
  <1>. QED BY <1>3, <1>4, <1>5 DEF Price

\* A bid keeps the held nonces an initial segment, for all below it is held.
LEMMA SendStep ==
  ASSUME TypeOK, GapInv, AskedHeld', NEW c \in Callers, MutexHeld, SendRaw(c),
         Held' = Held \/ Held' = Held \cup {job[c].nonce}
  PROVE  GapInv' /\ (FreshInv /\ ~Replaced' => FreshInv')
  <1>1. /\ \A d \in Callers : d # c => ~InFlight(d) /\ pc'[d] = pc[d] /\ job'[d] = job[d]
        /\ Locked(c) /\ InFlight(c)
    BY OthersStay DEF MutexHeld, Locked, InFlight, SendRaw, Step
  <1>2. 0 .. job[c].nonce - 1 \subseteq Held /\ job[c].nonce \in Nat /\ Held \subseteq Nat
    BY <1>1, HeldNat DEF GapInv, BelowHeld, TypeOK, Job
  <1>3. Held \subseteq Held' /\ Downward'
    <2>1. \A m \in Held : 0 .. m - 1 \subseteq Held
      BY DEF GapInv, Downward
    <2>2. \A m \in Held \cup {job[c].nonce} : 0 .. m - 1 \subseteq Held
      BY <1>2, <2>1
    <2>. QED BY <2>2 DEF Downward
  <1>4. CASE cursor' = Invalidated(cursor) /\ Return(c)
    BY <1>1, <1>3, <1>4, FailStep
  <1>5. ASSUME NEW h \in Hashes, tx[h].state = "none", tx' = Accepted(h, job[c]),
               Goto(c, "answered"), job' = [job EXCEPT ![c].hash = h], UNCHANGED cursor
        PROVE  GapInv' /\ (FreshInv /\ ~Replaced' => FreshInv')
    <2>1. pc'[c] = "answered" /\ job'[c].nonce = job[c].nonce
      BY <1>5 DEF Goto, TypeOK, Job
    <2>2. \A d \in Callers : ~InFlight(d)'
      BY <1>1, <2>1 DEF InFlight
    <2>3. job[c].nonce \in Held'
      BY <2>1 DEF AskedHeld
    <2>4. Held' = Held \cup {job[c].nonce}
      BY <2>3
    <2>5. BelowHeld' /\ CursorHeld'
      <3>1. \A m \in Nat : (\E d \in Callers : InFlight(d) /\ job[d].nonce = m) => m \in Held'
        BY <1>1, <2>3
      <3>. QED BY <1>3, <1>5, <2>2, <3>1 DEF GapInv, BelowHeld, CursorHeld, TypeOK
    <2>6. ASSUME FreshInv, ~Replaced' PROVE FreshInv'
      <3>1. job[c].asked = NoNonce
        <4>1. job[c] \in Job /\ confirmed' = confirmed
          BY DEF TypeOK, SendRaw
        <4>2. tx'[h] = [state |-> "pool", nonce |-> job[c].nonce, fee |-> job[c].fee,
                        stage |-> job[c].stage, asked |-> job[c].asked # NoNonce]
          BY <1>5, <4>1, HeldSend
        <4>3. tx'[h].asked = (job[c].asked # NoNonce)
          BY <4>2
        <4>4. ~tx'[h].asked
          BY <2>6 DEF Replaced
        <4>. QED BY <4>3, <4>4
      <3>2. job[c].nonce \notin Held /\ cursor.initialized /\ cursor.next = job[c].nonce + 1
        BY <1>1, <2>6, <3>1 DEF FreshInv, FreshFree
      <3>3. job[c].nonce + 1 \notin Held'
        BY <1>2, <2>4, <3>2 DEF GapInv, Downward
      <3>. QED BY <1>5, <2>2, <3>2, <3>3 DEF FreshInv, FreshFree, CursorFree
    <2>. QED BY <1>3, <2>5, <2>6 DEF GapInv
  <1>. QED BY <1>4, <1>5 DEF SendRaw

\* The steps outside the reservation and the send are quiet.
LEMMA QuietCalls ==
  ASSUME TypeOK, NEW c \in Callers,
         \/ Call(c) \/ LockApproval(c) \/ LockWallet(c) \/ Answered(c) \/ WaitReceipt(c)
         \/ StoreApproval(c)
  PROVE  Quiet(c)
  <1>0. Return(c) => pc'[c] = "idle"
    BY DEF Return, Goto, TypeOK
  <1>1. CASE LockWallet(c)
    BY <1>1 DEF LockWallet, Quiet, InFlight, Goto, TypeOK
  <1>2. CASE Call(c)
    BY <1>2 DEF Call, Quiet, InFlight, Goto, TypeOK
  <1>3. CASE LockApproval(c)
    BY <1>0, <1>3 DEF LockApproval, Quiet, InFlight, Goto, TypeOK
  <1>4. CASE Answered(c)
    BY <1>0, <1>4 DEF Answered, Quiet, InFlight, Goto, TypeOK
  <1>5. CASE WaitReceipt(c)
    BY <1>0, <1>5 DEF WaitReceipt, Quiet, InFlight, Goto, TypeOK
  <1>6. CASE StoreApproval(c)
    BY <1>0, <1>6 DEF StoreApproval, Quiet, InFlight, Goto, TypeOK
  <1>. QED BY <1>1, <1>2, <1>3, <1>4, <1>5, <1>6

\* Every step of every goroutine and of the node keeps the nonces in order.
LEMMA NonceStep ==
  ASSUME TypeOK, MutexHeld, Unsent, NonceInv, [Next]_vars
  PROVE  NonceInv'
  <1>. SUFFICES ASSUME ~Dropped' PROVE GapInv' /\ (~Replaced' => FreshInv')
    BY DEF NonceInv
  <1>1. /\ GapInv /\ (~Replaced' => FreshInv)
        /\ TypeOK'
    BY FlagsStable, TypeStep DEF NonceInv
  <1>2. Held \subseteq Held' /\ (Held' = Held \/ \E c \in Callers : SendRaw(c))
    BY HeldStep
  <1>3. ASSUME NEW c \in Callers, Call(c) \/ Step(c) \/ ClearRow(c)
        PROVE  GapInv' /\ (~Replaced' => FreshInv')
    <2>1. SendRaw(c) => Held' = Held \/ Held' = Held \cup {job[c].nonce}
      <3>1. \A d \in Callers : SendRaw(c) /\ SendRaw(d) => d = c
        BY WalletAssumption DEF SendRaw, MutexHeld, Locked
      <3>. QED BY <3>1, HeldStep
    <2>2. SendRaw(c) /\ pc'[c] = "answered" => job[c].nonce \in Held'
      <3>1. SUFFICES ASSUME NEW h \in Hashes, tx[h].state = "none", tx' = Accepted(h, job[c]),
                            confirmed' = confirmed
                     PROVE  job[c].nonce \in Held'
        <4>1. ASSUME Return(c), pc'[c] = "answered" PROVE FALSE
          BY <4>1 DEF Return, Goto, TypeOK
        <4>. QED BY <3>1, <4>1 DEF SendRaw
      <3>2. job[c] \in Job
        BY DEF TypeOK
      <3>. QED BY <3>1, <3>2, HeldSend
    <2>3. AskedHeld'
      BY <1>1, <1>2, <1>3, <2>2, AskedStep DEF GapInv
    <2>4. \A d \in Callers : d # c => pc'[d] = pc[d] /\ job'[d] = job[d]
      BY <1>3, OthersStay
    <2>5. CASE ReserveNonce(c)
      BY <1>1, <2>3, <2>5, ReserveStep
    <2>6. CASE Price(c)
      BY <1>1, <2>3, <2>6, PriceStep
    <2>7. CASE SendRaw(c)
      BY <1>1, <2>1, <2>3, <2>7, SendStep
    <2>8. CASE Quiet(c)
      BY <1>1, <2>3, <2>4, <2>8, QuietStep
    <2>9. CASE ClearRow(c)
      <3>1. Held' = Held
        BY <2>9 DEF ClearRow, node, Held, Pool
      <3>2. /\ Downward' /\ BelowHeld' /\ CursorHeld'
            /\ FreshInv => FreshInv'
        BY <1>1, <2>9, <3>1
        DEF ClearRow, memory, GapInv, Downward, BelowHeld, CursorHeld, InFlight, FreshInv,
            FreshFree, CursorFree
      <3>. QED BY <1>1, <2>3, <3>2 DEF GapInv
    <2>. QED BY <1>3, <2>5, <2>6, <2>7, <2>8, <2>9, QuietCalls DEF Step
  <1>4. ASSUME UNCHANGED memory, UNCHANGED row, Held' = Held
        PROVE  GapInv' /\ (~Replaced' => FreshInv')
    BY <1>1, <1>4
    DEF memory, GapInv, Downward, AskedHeld, BelowHeld, CursorHeld, InFlight, FreshInv, FreshFree,
        CursorFree
  <1>5. CASE Mine
    BY <1>4, <1>5, HeldMine DEF Mine
  <1>6. CASE UNCHANGED vars
    BY <1>4, <1>6 DEF vars, node, Held, Pool
  <1>7. CASE Evict
    <2>1. PICK h \in Pool : tx' = [tx EXCEPT ![h].state = "dropped"]
      BY <1>7 DEF Evict
    <2>2. h \in Hashes /\ tx'[h].state = "dropped"
      BY <2>1 DEF Pool, TypeOK, Tx
    <2>. QED BY <2>2 DEF Dropped
  <1>8. CASE Restart
    <2>1. Held' = Held
      BY <1>8 DEF Restart, node, Held, Pool
    <2>2. /\ \A d \in Callers : pc'[d] = "idle" /\ job'[d].asked = NoNonce
          /\ ~cursor'.initialized /\ UNCHANGED row
      BY <1>8 DEF Restart, NoJob
    <2>. QED BY <1>1, <2>1, <2>2
         DEF GapInv, Downward, AskedHeld, BelowHeld, CursorHeld, InFlight, FreshInv, FreshFree,
             CursorFree
  <1>. QED BY <1>3, <1>5, <1>6, <1>7, <1>8 DEF Next

LEMMA NonceInit == Init => MutexHeld /\ Unsent /\ NonceInv
  <1>. SUFFICES ASSUME Init PROVE MutexHeld /\ Unsent /\ NonceInv
    OBVIOUS
  <1>1. Held = {}
    BY DEF Init, Held, Pool, NoTx
  <1>2. \A c \in Callers : /\ pc[c] = "idle" /\ job[c].asked = NoNonce
                           /\ row[c].nonce = NoNonce
    BY DEF Init, NoJob, NoRow
  <1>3. MutexHeld /\ Unsent
    BY <1>2 DEF MutexHeld, Locked, Unsent, Init, NoTx
  <1>4. GapInv /\ FreshInv
    BY <1>1, <1>2
    DEF Init, GapInv, Downward, AskedHeld, BelowHeld, CursorHeld, InFlight, FreshInv, FreshFree,
        CursorFree
  <1>. QED BY <1>3, <1>4 DEF NonceInv

LEMMA NoncesInOrder == Spec => [](TypeOK /\ MutexHeld /\ Unsent /\ NonceInv)
  <1>1. TypeOK /\ MutexHeld /\ Unsent /\ NonceInv /\ [Next]_vars
          => (TypeOK /\ MutexHeld /\ Unsent /\ NonceInv)'
    BY TypeStep, MutexStep, FlagsStable, NonceStep
  <1>. QED BY TypeInit, NonceInit, <1>1, PTL DEF Spec

\* Nothing is sent above a nonce that the wallet does not use or bid for, as
\* long as the node drops nothing: whatever calls fail or lose their answer.
THEOREM GapFree == Spec => []NoNonceGap
  <1>1. NonceInv => NoNonceGap
    BY DEF NonceInv, GapInv, BelowHeld, InFlight, NoNonceGap
  <1>. QED BY <1>1, NoncesInOrder, PTL

\* A transaction that replaces none bids for a free nonce, until the node drops
\* a transaction or one is replaced by request.
THEOREM FreshIsFree == Spec => []FreshUnlessReplaced
  <1>1. NonceInv => FreshUnlessReplaced
    BY DEF NonceInv, FreshInv, FreshFree, InFlight, FreshUnlessReplaced, FreshNonceFree
  <1>. QED BY <1>1, NoncesInOrder, PTL

-----------------------------------------------------------------------------
(* The approvals of a token.                                               *)

StageMined(stage) == \E h \in Hashes : tx[h].stage = stage /\ tx[h].state = "mined"

\* What a call waits for is its own transaction, the second approval is asked for
\* when the first is mined, and the cache is written when the second is mined too.
WaitsForOwn == \A c \in Callers :
  pc[c] \in {"answered", "receipt"} =>
    /\ job[c].hash \in Hashes /\ tx[job[c].hash].state # "none"
    /\ tx[job[c].hash].stage = job[c].stage
AllowFirst == \A c \in Callers :
  /\ job[c].stage = "permit" => StageMined("allow")
  /\ pc[c] = "approval" => StageMined("allow") /\ StageMined("permit")
CacheMined == approved => StageMined("allow") /\ StageMined("permit")
ApprovalInv == WaitsForOwn /\ AllowFirst /\ CacheMined

\* A transaction keeps its stage, and what is mined stays mined.
LEMMA TxStable ==
  ASSUME TypeOK, [Next]_vars
  PROVE  \A h \in Hashes : tx[h].state # "none" =>
           /\ tx'[h].state # "none" /\ tx'[h].stage = tx[h].stage
           /\ tx[h].state = "mined" => tx'[h].state = "mined"
  <1>1. CASE UNCHANGED node
    BY <1>1 DEF node
  <1>2. CASE Mine \/ Evict
    <2>1. PICK h \in Pool, s \in {"mined", "reverted", "dropped"} : tx' = [tx EXCEPT ![h].state = s]
      BY <1>2 DEF Mine, Evict
    <2>2. h \in Hashes /\ tx[h].state = "pool"
      BY DEF Pool
    <2>. QED BY <2>1, <2>2 DEF TypeOK, Tx
  <1>3. ASSUME NEW c \in Callers, NEW h \in Hashes, tx[h].state = "none",
               tx' = Accepted(h, job[c]), confirmed' = confirmed
        PROVE  \A g \in Hashes : tx[g].state # "none" =>
                 /\ tx'[g].state # "none" /\ tx'[g].stage = tx[g].stage
                 /\ tx[g].state = "mined" => tx'[g].state = "mined"
    <2>1. job[c] \in Job
      BY DEF TypeOK
    <2>2. \A g \in Hashes \ {h} :
            /\ tx'[g].stage = tx[g].stage
            /\ tx'[g].state = tx[g].state \/ (tx[g].state = "pool" /\ tx'[g].state = "replaced")
      BY <1>3, <2>1, HeldSend
    <2>. QED BY <1>3, <2>2
  <1>. QED BY <1>1, <1>2, <1>3, NodeStep

\* What a bid leaves behind is the transaction of the call's own stage.
LEMMA OwnBid ==
  ASSUME TypeOK, NEW c \in Callers, SendRaw(c), pc'[c] = "answered"
  PROVE  /\ job'[c].hash \in Hashes /\ tx'[job'[c].hash].state # "none"
         /\ tx'[job'[c].hash].stage = job'[c].stage
         /\ job'[c].stage = job[c].stage
  <1>1. PICK h \in Hashes : /\ tx[h].state = "none" /\ tx' = Accepted(h, job[c])
                            /\ job' = [job EXCEPT ![c].hash = h]
    BY DEF SendRaw, Return, Goto, TypeOK
  <1>2. job[c] \in Job /\ confirmed' = confirmed
    BY DEF TypeOK, SendRaw
  <1>3. tx'[h] = [state |-> "pool", nonce |-> job[c].nonce, fee |-> job[c].fee,
                  stage |-> job[c].stage, asked |-> job[c].asked # NoNonce]
    BY <1>1, <1>2, HeldSend
  <1>4. tx'[h].state = "pool" /\ tx'[h].stage = job[c].stage
    BY <1>3
  <1>5. job'[c].hash = h /\ job'[c].stage = job[c].stage
    BY <1>1, <1>2 DEF TypeOK, Job
  <1>. QED BY <1>4, <1>5

\* The step of the call itself.
LEMMA ApprovalCall ==
  ASSUME TypeOK, ApprovalInv, NEW c \in Callers, Call(c) \/ Step(c) \/ ClearRow(c),
         \A s \in Stages : StageMined(s) => StageMined(s)',
         \A h \in Hashes : tx[h].state # "none" => tx'[h].state # "none" /\ tx'[h].stage = tx[h].stage
  PROVE  /\ pc'[c] \in {"answered", "receipt"} =>
              /\ job'[c].hash \in Hashes /\ tx'[job'[c].hash].state # "none"
              /\ tx'[job'[c].hash].stage = job'[c].stage
         /\ job'[c].stage = "permit" => StageMined("allow")'
         /\ pc'[c] = "approval" => StageMined("allow")' /\ StageMined("permit")'
         /\ CacheMined'
  <1>1. /\ StageMined("allow") => StageMined("allow")'
        /\ StageMined("permit") => StageMined("permit")'
    BY DEF Stages
  <1>2. Return(c) => pc'[c] = "idle" /\ job'[c].stage = "trade"
    BY DEF Return, Goto, TypeOK, NoJob
  <1>3. approved' = approved \/ (StoreApproval(c) /\ pc[c] = "approval")
    BY DEF Step, Call, LockApproval, LockWallet, ReserveNonce, Price, SendRaw, Answered,
           WaitReceipt, StoreApproval, ClearRow, memory
  <1>4. CacheMined'
    BY <1>1, <1>3 DEF ApprovalInv, CacheMined, AllowFirst
  <1>5. CASE Call(c)
    <2>1. pc'[c] \in {"wantApproval", "wantWallet"}
      BY <1>5 DEF Call, Goto, TypeOK
    <2>2. job'[c].stage # "permit"
      <3>1. PICK call \in Calls[c] :
              job' = [job EXCEPT ![c] =
                [NoJob EXCEPT !.call = call,
                              !.stage = IF call \in {"approve", "approvedSwap"} THEN "allow" ELSE "trade",
                              !.asked = IF call = "buy" THEN row[c].nonce ELSE NoNonce,
                              !.fee = IF call = "buy" THEN row[c].fee ELSE 0]]
        BY <1>5 DEF Call
      <3>2. job'[c].stage = [NoJob EXCEPT !.call = call,
                              !.stage = IF call \in {"approve", "approvedSwap"} THEN "allow" ELSE "trade",
                              !.asked = IF call = "buy" THEN row[c].nonce ELSE NoNonce,
                              !.fee = IF call = "buy" THEN row[c].fee ELSE 0].stage
        BY <3>1 DEF TypeOK
      <3>. QED BY <3>2 DEF NoJob
    <2>. QED BY <1>4, <2>1, <2>2
  <1>6. CASE LockApproval(c) \/ LockWallet(c)
    <2>1. pc'[c] \in {"idle", "wantWallet", "price", "reserve"}
      BY <1>2, <1>6 DEF LockApproval, LockWallet, Goto, TypeOK
    <2>2. job'[c].stage \in {job[c].stage, "trade"}
      BY <1>2, <1>6 DEF LockApproval, LockWallet, TypeOK, Job
    <2>. QED BY <1>1, <1>4, <2>1, <2>2 DEF ApprovalInv, AllowFirst
  <1>7. CASE ReserveNonce(c) \/ Price(c)
    <2>1. pc'[c] \in {"idle", "price", "send", "reserve"}
      BY <1>2, <1>7 DEF ReserveNonce, Price, Goto, TypeOK
    <2>2. job'[c].stage \in {job[c].stage, "trade"}
      BY <1>2, <1>7 DEF ReserveNonce, Price, TypeOK, Job
    <2>. QED BY <1>1, <1>4, <2>1, <2>2 DEF ApprovalInv, AllowFirst
  <1>8. CASE SendRaw(c)
    <2>1. (pc'[c] = "idle" /\ job'[c].stage = "trade") \/ pc'[c] = "answered"
      BY <1>2, <1>8 DEF SendRaw, Goto, TypeOK
    <2>. QED BY <1>1, <1>4, <1>8, <2>1, OwnBid DEF ApprovalInv, AllowFirst
  <1>9. CASE Answered(c)
    <2>1. \/ pc'[c] = "idle" /\ job'[c].stage = "trade"
          \/ pc'[c] = "receipt" /\ pc[c] = "answered" /\ job'[c] = job[c]
      BY <1>2, <1>9 DEF Answered, Goto, TypeOK
    <2>. QED BY <1>1, <1>4, <2>1 DEF ApprovalInv, AllowFirst, WaitsForOwn
  <1>10. CASE WaitReceipt(c)
    <2>1. CASE Return(c)
      BY <1>2, <1>4, <2>1
    <2>2. CASE Confirms(job[c].hash) /\ job[c].stage = "allow" /\ Goto(c, "wantWallet")
               /\ job' = [job EXCEPT ![c].stage = "permit", ![c].hash = NoHash]
      <3>1. StageMined("allow")
        BY <1>10, <2>2 DEF WaitReceipt, ApprovalInv, WaitsForOwn, Confirms, StageMined
      <3>2. pc'[c] = "wantWallet"
        BY <2>2 DEF Goto, TypeOK
      <3>. QED BY <1>1, <1>4, <3>1, <3>2
    <2>3. CASE Confirms(job[c].hash) /\ job[c].stage = "permit" /\ Goto(c, "approval")
               /\ UNCHANGED job
      <3>1. StageMined("permit")
        BY <1>10, <2>3 DEF WaitReceipt, ApprovalInv, WaitsForOwn, Confirms, StageMined
      <3>2. StageMined("allow") /\ pc'[c] = "approval" /\ job'[c] = job[c]
        BY <2>3 DEF Goto, TypeOK, ApprovalInv, AllowFirst
      <3>. QED BY <1>1, <1>4, <3>1, <3>2
    <2>. QED BY <1>10, <2>1, <2>2, <2>3 DEF WaitReceipt
  <1>11. CASE StoreApproval(c)
    <2>1. pc'[c] \in {"idle", "wantWallet"} /\ job'[c].stage = "trade"
      <3>1. CASE Return(c)
        BY <1>2, <3>1
      <3>2. CASE Goto(c, "wantWallet") /\ job' = [job EXCEPT ![c].stage = "trade", ![c].hash = NoHash]
        BY <3>2 DEF Goto, TypeOK, Job
      <3>. QED BY <1>11, <3>1, <3>2 DEF StoreApproval
    <2>. QED BY <1>4, <2>1
  <1>12. CASE ClearRow(c)
    BY <1>1, <1>4, <1>12 DEF ClearRow, memory, node, ApprovalInv, WaitsForOwn, AllowFirst
  <1>. QED BY <1>5, <1>6, <1>7, <1>8, <1>9, <1>10, <1>11, <1>12 DEF Step

LEMMA ApprovalStep == ASSUME TypeOK, ApprovalInv, [Next]_vars PROVE ApprovalInv'
  <1>1. /\ \A h \in Hashes : tx[h].state # "none" => tx'[h].state # "none" /\ tx'[h].stage = tx[h].stage
        /\ \A s \in Stages : StageMined(s) => StageMined(s)'
    BY TxStable DEF StageMined
  <1>2. ASSUME NEW c \in Callers, Call(c) \/ Step(c) \/ ClearRow(c) PROVE ApprovalInv'
    <2>1. \A d \in Callers : d # c => pc'[d] = pc[d] /\ job'[d] = job[d]
      BY <1>2, OthersStay
    <2>2. \A d \in Callers : d # c =>
            /\ pc'[d] \in {"answered", "receipt"} =>
                 /\ job'[d].hash \in Hashes /\ tx'[job'[d].hash].state # "none"
                 /\ tx'[job'[d].hash].stage = job'[d].stage
            /\ job'[d].stage = "permit" => StageMined("allow")'
            /\ pc'[d] = "approval" => StageMined("allow")' /\ StageMined("permit")'
      BY <1>1, <2>1 DEF ApprovalInv, WaitsForOwn, AllowFirst, Stages
    <2>3. /\ pc'[c] \in {"answered", "receipt"} =>
              /\ job'[c].hash \in Hashes /\ tx'[job'[c].hash].state # "none"
              /\ tx'[job'[c].hash].stage = job'[c].stage
          /\ job'[c].stage = "permit" => StageMined("allow")'
          /\ pc'[c] = "approval" => StageMined("allow")' /\ StageMined("permit")'
          /\ CacheMined'
      BY <1>1, <1>2, ApprovalCall
    <2>. QED BY <2>2, <2>3 DEF ApprovalInv, WaitsForOwn, AllowFirst
  <1>3. CASE Mine \/ Evict \/ UNCHANGED vars
    BY <1>1, <1>3
    DEF Mine, Evict, vars, memory, ApprovalInv, WaitsForOwn, AllowFirst, CacheMined, Stages
  <1>4. CASE Restart
    BY <1>4 DEF Restart, NoJob, ApprovalInv, WaitsForOwn, AllowFirst, CacheMined
  <1>. QED BY <1>2, <1>3, <1>4 DEF Next

\* Whatever fails, is evicted or restarts, the cache calls a token approved only
\* when both of its approvals are mined.
THEOREM ApprovedOnlyMined == Spec => []ApprovalIsMined
  <1>1. Init => ApprovalInv
    BY DEF Init, NoJob, ApprovalInv, WaitsForOwn, AllowFirst, CacheMined
  <1>2. TypeOK /\ ApprovalInv /\ [Next]_vars => ApprovalInv'
    BY ApprovalStep
  <1>3. ApprovalInv => ApprovalIsMined
    BY DEF ApprovalInv, CacheMined, StageMined, ApprovalIsMined
  <1>. QED BY <1>1, <1>2, <1>3, TypeCorrect, PTL DEF Spec
=============================================================================
