------------------------ MODULE ExecuteFundsProofs ------------------------
(* Theorems about ExecuteFunds, for any requests, keys and amounts. *)
EXTENDS ExecuteFunds, SequenceTheorems, FiniteSetTheorems, WellFoundedInduction, TLAPS

-----------------------------------------------------------------------------
(* The invariants.                                                         *)

\* Which handler is at which step.
Runs(r) ==
  \/ pc[r] = "idle" /\ job[r].op = "none"
  \/ pc[r] = "addBatch" /\ job[r].op = "addLine"
  \/ pc[r] = "checkEmpty" /\ job[r].op = "deleteLine"
  \/ pc[r] = "upsert" /\ job[r].op = "autoSwap"
  \/ pc[r] \in {"start", "checkSwept", "setBoss", "newBatch"} /\ job[r].op = "start"
  \/ pc[r] \in {"wallet", "fund"} /\ job[r].op = "generate"
  \/ pc[r] \in {"replace", "insert", "deactivate"} /\ job[r].op = "next"
  \/ pc[r] \in {"recycle", "recheck"} /\ job[r].op = "end"
  \/ pc[r] = "sweep" /\ job[r].op \in {"start", "next", "end", "withdraw"}
  \/ pc[r] = "await" /\ job[r].op \in {"start", "next", "end", "withdraw", "generate"}
  \/ pc[r] = "track" /\ job[r].op = "check"
  \/ pc[r] = "trade" /\ job[r].op \in {"buy", "sell", "sellPart"}

\* The keys and the batch that the steps to come use are there.
KeysGiven(r) ==
  /\ \/ pc[r] \in {"sweep", "insert", "deactivate", "recheck"}
     \/ pc[r] = "await" /\ job[r].op # "generate"
     => job[r].old \in Keys
  /\ \/ job[r].op \in {"addLine", "start", "autoSwap", "end"}
     \/ job[r].op = "generate" /\ pc[r] # "wallet"
     \/ job[r].op = "next" /\ pc[r] # "replace"
     => job[r].new \in Keys
  /\ job[r].op \in {"generate", "next", "end", "withdraw", "check", "buy", "sell", "sellPart"}
     => job[r].eid \in DOMAIN batches

\* nextWallet replaces active wallets of its batch.
Replaces(r) ==
  job[r].op = "next" =>
    /\ job[r].todo \subseteq ActiveWallets(job[r].eid)
    /\ pc[r] # "replace" => job[r].old \in ActiveWallets(job[r].eid) \ job[r].todo

\* The lifecycle handlers hold the mutex from their first step to their last.
Holds(r) == /\ pc[r] \notin {"idle", "upsert", "start", "track", "trade"}
            /\ job[r].op # "withdraw"
MutexHeld == \A r \in Requests : mutex = r <=> Holds(r)

TypeInv ==
  /\ TypeOK
  /\ MutexHeld
  /\ \A r \in Requests : Runs(r) /\ KeysGiven(r) /\ Replaces(r)

\* The keys of lines and batches, and the keys of wallets.
Addrs == {w.addr : w \in wallets}
Fresh(r) == job[r].op = "next" /\ pc[r] \in {"sweep", "await", "insert"}
LineKeys == ({line} \cup {Boss(e) : e \in DOMAIN batches}
             \cup {job[r].new : r \in {q \in Requests : job[q].op \in {"addLine", "start", "autoSwap"}}})
WalletKeys == Addrs \cup {job[r].new : r \in {q \in Requests : Fresh(q)}}
KeyUse ==
  /\ LineKeys \cap WalletKeys = {}
  /\ \A k \in LineKeys \cup WalletKeys \cup imported \cup discarded : k <= made
  /\ \A w, v \in wallets : w.addr = v.addr => w = v
  /\ \A r \in Requests : Fresh(r) => job[r].new \notin Addrs

ActiveOnce ==
  faults = 0 => \A w, v \in wallets :
    w.active /\ v.active /\ w.eid = v.eid /\ w.index = v.index /\ w # v =>
      \E r \in Requests : pc[r] = "deactivate" /\ {w.addr, v.addr} = {job[r].old, job[r].new}

EmptySoFar ==
  \A r \in Requests : pc[r] = "checkEmpty" =>
    \A e \in Active : \A k \in {Boss(e)} \cup ActiveWallets(e) :
      k \in job[r].todo \/ native[k] = 0 \/ k \in credited

DustSoFar ==
  \A r \in Requests : job[r].op = "end" =>
    \A k \in WalletsOf(job[r].eid) :
      \/ k \in job[r].todo \/ native[k] <= Gas \/ k \in credited
      \/ pc[r] # "recycle" /\ k = job[r].old

Bosses == {Boss(e) : e \in Rows}
Known == Bosses \cup Addrs \cup imported \cup discarded
Carries(r) == /\ pc[r] \in {"addBatch", "sweep", "await", "insert", "setBoss", "newBatch"}
              /\ job[r].op \in {"addLine", "next", "start"}
\* Nothing is on the key or on its way from it or to it, but by r.
CleanBut(k, r) ==
  /\ native[k] = 0 /\ tokens[k] = 0 /\ pool[k] = <<>>
  /\ \A x \in Keys : \A i \in DOMAIN pool[x] :
       pool[x][i].kind = "transfer" /\ pool[x][i].to = k => r # NoRequest /\ pool[x][i].by = r
Clean(k) == CleanBut(k, NoRequest)
Accounted == \A k \in Keys : Clean(k) \/ k \in Known \/ \E r \in Requests : Carries(r) /\ job[r].new = k

Source(r) == IF job[r].op = "generate" THEN Boss(job[r].eid) ELSE job[r].old
\* The only transaction that a request waits for from a key, if it is in the pool.
OwnTx(r, k, i) ==
  /\ k \in job[r].wait
  /\ \A j \in DOMAIN pool[k] : pool[k][j].by = r => i = j
  /\ \/ pc[r] = "trade" /\ pool[k][i].kind # "transfer" /\ k \notin job[r].todo
     \/ pc[r] = "await" /\ k = Source(r) /\ pool[k][i].kind = "transfer" /\ pool[k][i].to = job[r].new
OwnTxs ==
  \A r \in Requests : \A k \in Keys : \A i \in DOMAIN pool[k] : pool[k][i].by = r => OwnTx(r, k, i)
Waits ==
  \A r \in Requests :
    /\ pc[r] = "await" => job[r].wait \subseteq {Source(r)}
    /\ pc[r] \notin {"await", "trade"} => ~job[r].failed

\* The boss of the batch that is about to be made.
Carried == {job[r].new : r \in {q \in Requests : pc[q] \in {"addBatch", "newBatch"}}}
LinesKnown ==
  /\ line # NoKey => line \in Known \cup Carried
  /\ \A r \in Requests :
       job[r].op = "autoSwap" \/ pc[r] \in {"start", "checkSwept"} => job[r].new \in Known \cup Carried
  /\ \A r \in Requests : job[r].op = "start" /\ pc[r] \in {"sweep", "await", "setBoss", "newBatch"} =>
       line # NoKey \/ job[r].new \in Known
  /\ Active # {} \/ (\E r \in Requests : pc[r] = "addBatch") => line # NoKey
SourcesKnown ==
  \A r \in Requests :
    /\ pc[r] = "sweep" => job[r].old \in Known
    /\ job[r].op \in {"next", "end", "buy", "sell", "sellPart"} => job[r].todo \subseteq Known
    /\ job[r].op = "generate" => Boss(job[r].eid) \in Known
    /\ job[r].op = "end" \/ pc[r] = "fund" => job[r].new \in Known
    /\ job[r].op = "withdraw" => job[r].new = NoKey
\* A new key that waits for its coins is unknown, and empty but for them.
FreshKey(r) ==
  /\ job[r].new \notin Known
  /\ CleanBut(job[r].new, r) \/ (pc[r] = "await" /\ job[r].wait = {} /\ ~job[r].failed)
  /\ pc[r] = "await" /\ job[r].failed => Clean(job[r].new)
  /\ job[r].failed => job[r].wait = {}
FreshUnknown ==
  \A r \in Requests : pc[r] \in {"sweep", "await"} /\ job[r].op \in {"start", "next"} => FreshKey(r)
FundsInv == faults = 0 =>
  Accounted /\ OwnTxs /\ Waits /\ LinesKnown /\ SourcesKnown /\ FreshUnknown

-----------------------------------------------------------------------------
(* What a step may change.                                                 *)

LEMMA KeysNat ==
  /\ MaxKeys \in Nat /\ 1 \in Keys /\ 2 \in Keys /\ NoKey \notin Keys /\ Keys \subseteq Nat \ {0}
  /\ Gas \in Nat \ {0} /\ NoRequest \notin Requests
  /\ WalletCount \in Nat /\ MaxCalls \in Nat /\ MaxFaults \in Nat /\ Deposit \in Nat
  /\ Yield \in Nat /\ Funding \in Nat \ {0} /\ Stake \in Nat \ {0}
  BY FundsAssumption DEF FundsAssumption, Keys, NoKey, Gas

LEMMA CallFrame ==
  ASSUME NEW r \in Requests, Call(r)
  PROVE  /\ UNCHANGED <<wallets, native, tokens, pool, discarded, faults>>
         /\ AddLine(r) \/ ImportBoss(r) \/ UNCHANGED <<line, made, imported>>
         /\ DeleteToken(r) \/ UNCHANGED batches
         /\ DeleteLine(r) \/ End(r) \/ UNCHANGED credited
         /\ pc[r] = "idle" /\ calls < MaxCalls /\ calls' = calls + 1
  BY DEF Call, AddLine, ImportBoss, DeleteLine, AutoSwap, Start, GenerateWallets, NextWallet, End,
    Withdraw, CheckToken, DeleteToken, Trade, Begin, tables, chain, keys

LEMMA StepFrame ==
  ASSUME NEW r \in Requests, Step(r)
  PROVE  /\ UNCHANGED <<native, tokens, imported, credited, calls>>
         /\ AddBatch(r) \/ DeleteRows(r) \/ UpsertLine(r) \/ SetExecuteLineBoss(r) \/ UNCHANGED line
         /\ \/ AddBatch(r) \/ DeleteRows(r) \/ NewBatch(r) \/ TrackToken(r) \/ UpdateTokenStatus(r)
            \/ UNCHANGED batches
         /\ \/ DeleteRows(r) \/ GenerateWallet(r) \/ InsertWallet(r) \/ DeactivateWallet(r)
            \/ UNCHANGED wallets
         /\ FundWallet(r) \/ Sweep(r) \/ ExecuteTrade(r) \/ UNCHANGED pool
         /\ ChooseBoss(r) \/ GenerateWallet(r) \/ ReplaceWallet(r) \/ UNCHANGED made
         /\ DeleteRows(r) \/ UNCHANGED discarded
         /\ UNCHANGED faults \/ Fault
  <1>1. CASE \/ AddBatch(r) \/ CheckEmpty(r) \/ DeleteRows(r) \/ UpsertLine(r) \/ ReadActiveBatch(r)
             \/ CheckSwept(r) \/ ChooseBoss(r)
    BY <1>1 DEF AddBatch, CheckEmpty, DeleteRows, UpsertLine, ReadActiveBatch, CheckSwept, ChooseBoss,
      tables, chain, keys, bounds
  <1>2. CASE \/ SetExecuteLineBoss(r) \/ NewBatch(r) \/ GenerateWallet(r) \/ FundWallet(r)
             \/ ReplaceWallet(r) \/ InsertWallet(r) \/ DeactivateWallet(r)
    BY <1>2 DEF SetExecuteLineBoss, NewBatch, GenerateWallet, FundWallet, ReplaceWallet, InsertWallet,
      DeactivateWallet, tables, chain, keys, bounds
  <1>3. CASE \/ Recycle(r) \/ Recheck(r) \/ Sweep(r) \/ Awaited(r) \/ TrackToken(r) \/ ExecuteTrade(r)
             \/ UpdateTokenStatus(r)
    BY <1>3 DEF Recycle, Recheck, Sweep, Awaited, TrackToken, ExecuteTrade, UpdateTokenStatus,
      tables, chain, keys, bounds
  <1>. QED BY <1>1, <1>2, <1>3 DEF Step

LEMMA OtherFrame ==
  ASSUME (\E r \in Requests : Fail(r)) \/ Crash \/ (\E k \in Keys : Mine(k))
  PROVE  /\ UNCHANGED <<line, batches, wallets, made, imported, discarded, calls>>
         /\ (\E k \in Keys : Mine(k)) \/ UNCHANGED <<native, tokens, credited>>
         /\ UNCHANGED faults \/ Fault
  BY DEF Fail, Crash, Mine, tables, keys

-----------------------------------------------------------------------------
(* Type correctness.                                                       *)

LEMMA FunctionIsSeq ==
  ASSUME NEW S, NEW n \in Nat, NEW f, f = [i \in 1 .. n |-> f[i]], \A i \in 1 .. n : f[i] \in S
  PROVE  f \in Seq(S)
  <1>1. f \in [1 .. n -> S]
    OBVIOUS
  <1>. QED BY <1>1, SeqDef

LEMMA BatchesSeq ==
  ASSUME TypeOK
  PROVE  /\ Len(batches) \in Nat /\ DOMAIN batches = 1 .. Len(batches)
         /\ \A e \in DOMAIN batches : batches[e] \in Batch
         /\ Rows \subseteq DOMAIN batches /\ Active \subseteq Rows
         /\ \A e \in DOMAIN batches : e \in Nat /\ Boss(e) \in Keys
  <1>1. Len(batches) \in Nat /\ DOMAIN batches = 1 .. Len(batches)
        /\ \A e \in DOMAIN batches : batches[e] \in Batch
    BY DEF TypeOK
  <1>2. Rows \subseteq DOMAIN batches /\ Active \subseteq Rows
    BY DEF Rows, Active
  <1>. QED BY <1>1, <1>2 DEF Boss, Batch

\* A new batch closes the others.
LEMMA WithBatchIs ==
  ASSUME TypeOK, NEW boss
  PROVE  /\ Len(WithBatch(boss)) = Len(batches) + 1
         /\ DOMAIN WithBatch(boss) = 1 .. Len(batches) + 1
         /\ \A e \in DOMAIN batches : WithBatch(boss)[e] = Closed(batches[e])
         /\ WithBatch(boss)[Len(batches) + 1] = [boss |-> boss, status |-> "active", task |-> "none"]
         /\ boss \in Keys => WithBatch(boss) \in Seq(Batch)
  <1>. DEFINE old == [e \in DOMAIN batches |-> Closed(batches[e])]
              new == [boss |-> boss, status |-> "active", task |-> "none"]
  <1>1. \A e \in DOMAIN batches : Closed(batches[e]) \in Batch
    BY BatchesSeq DEF Closed, Batch
  <1>2. old \in Seq(Batch) /\ Len(old) = Len(batches) /\ DOMAIN old = DOMAIN batches
    BY <1>1, BatchesSeq
  <1>3. boss \in Keys => new \in Batch
    BY DEF Batch
  <1>4. WithBatch(boss) = Append(old, new)
    BY DEF WithBatch
  <1>5. \A e \in DOMAIN batches : old[e] = Closed(batches[e])
    OBVIOUS
  <1>. HIDE DEF old, new
  <1>6. \A n : /\ Len(Append(old, n)) = Len(old) + 1 /\ DOMAIN Append(old, n) = 1 .. Len(old) + 1
               /\ \A e \in 1 .. Len(old) : Append(old, n)[e] = old[e]
               /\ Append(old, n)[Len(old) + 1] = n
               /\ n \in Batch => Append(old, n) \in Seq(Batch)
    BY <1>2
  <1>7. new = [boss |-> boss, status |-> "active", task |-> "none"]
    BY DEF new
  <1>. QED BY <1>2, <1>3, <1>4, <1>5, <1>6, <1>7, BatchesSeq

\* The status of a token is written into a row of its batch.
LEMMA TaskIs ==
  ASSUME TypeOK, NEW e, NEW task \in {"none", "pending", "buy", "sell"},
         batches' = [batches EXCEPT ![e].task = task]
  PROVE  /\ DOMAIN batches' = DOMAIN batches /\ batches' \in Seq(Batch)
         /\ \A d \in DOMAIN batches : /\ batches'[d].boss = batches[d].boss
                                      /\ batches'[d].status = batches[d].status
  <1>1. \A d \in DOMAIN batches : [batches[d] EXCEPT !.task = task] \in Batch
    BY BatchesSeq DEF Batch
  <1>2. /\ DOMAIN batches' = DOMAIN batches
        /\ \A d \in DOMAIN batches : batches'[d] = IF d = e THEN [batches[d] EXCEPT !.task = task] ELSE batches[d]
    OBVIOUS
  <1>3. \A d \in DOMAIN batches : batches'[d] \in Batch
    BY <1>1, <1>2, BatchesSeq
  <1>4. batches' = [d \in 1 .. Len(batches) |-> batches'[d]]
    BY BatchesSeq
  <1>5. batches' \in Seq(Batch)
    BY <1>2, <1>3, <1>4, BatchesSeq, FunctionIsSeq
  <1>6. \A d \in DOMAIN batches : /\ [batches[d] EXCEPT !.task = task].boss = batches[d].boss
                                  /\ [batches[d] EXCEPT !.task = task].status = batches[d].status
    BY BatchesSeq DEF Batch
  <1>. QED BY <1>2, <1>5, <1>6

LEMMA DeleteRowsIs ==
  ASSUME TypeOK, NEW r \in Requests, DeleteRows(r)
  PROVE  /\ DOMAIN batches' = DOMAIN batches /\ batches' \in Seq(Batch)
         /\ \A d \in DOMAIN batches : /\ batches'[d].boss = batches[d].boss
                                      /\ batches'[d].status = "deleted"
  <1>1. batches' = [e \in DOMAIN batches |-> [batches[e] EXCEPT !.status = "deleted", !.task = "none"]]
    BY DEF DeleteRows
  <1>2. \A e \in DOMAIN batches :
          /\ [batches[e] EXCEPT !.status = "deleted", !.task = "none"] \in Batch
          /\ [batches[e] EXCEPT !.status = "deleted", !.task = "none"].boss = batches[e].boss
          /\ [batches[e] EXCEPT !.status = "deleted", !.task = "none"].status = "deleted"
    BY BatchesSeq DEF Batch
  <1>3. /\ DOMAIN batches' = DOMAIN batches
        /\ \A d \in DOMAIN batches : /\ batches'[d].boss = batches[d].boss
                                     /\ batches'[d].status = "deleted"
                                     /\ batches'[d] \in Batch
    BY <1>1, <1>2
  <1>4. batches' = [d \in 1 .. Len(batches) |-> batches'[d]]
    BY <1>1, BatchesSeq
  <1>5. batches' \in Seq(Batch)
    BY <1>3, <1>4, BatchesSeq, FunctionIsSeq
  <1>. QED BY <1>3, <1>5

\* Batches are added at the end, deleted all at once, or keep their boss and status.
LEMMA BatchesChange ==
  ASSUME TypeInv, [Next]_vars
  PROVE  \/ UNCHANGED batches
         \/ \E r \in Requests : /\ (AddBatch(r) \/ NewBatch(r)) /\ pc[r] \in {"addBatch", "newBatch"}
                              /\ batches' = WithBatch(job[r].new) /\ job[r].new \in Keys
         \/ \E r \in Requests : DeleteRows(r)
         \/ /\ DOMAIN batches' = DOMAIN batches /\ batches' \in Seq(Batch)
            /\ \A e \in DOMAIN batches : /\ batches'[e].boss = batches[e].boss
                                         /\ batches'[e].status = batches[e].status
  <1>0. TypeOK
    BY DEF TypeInv
  <1>1. ASSUME NEW r \in Requests, AddBatch(r) \/ NewBatch(r)
        PROVE  \/ UNCHANGED batches
               \/ /\ pc[r] \in {"addBatch", "newBatch"}
                  /\ batches' = WithBatch(job[r].new) /\ job[r].new \in Keys
    <2>1. pc[r] \in {"addBatch", "newBatch"} /\ (UNCHANGED batches \/ batches' = WithBatch(job[r].new))
      BY <1>1 DEF AddBatch, NewBatch
    <2>2. Runs(r) /\ KeysGiven(r)
      BY DEF TypeInv
    <2>. QED BY <2>1, <2>2 DEF Runs, KeysGiven
  <1>2. ASSUME NEW r \in Requests, TrackToken(r) \/ DeleteToken(r) \/ UpdateTokenStatus(r)
        PROVE  \/ UNCHANGED batches
               \/ \E e, task : task \in {"none", "pending", "buy", "sell"} /\ batches' = [batches EXCEPT ![e].task = task]
    <2>1. CASE TrackToken(r)
      BY <2>1 DEF TrackToken
    <2>2. CASE DeleteToken(r)
      BY <2>2 DEF DeleteToken
    <2>3. CASE UpdateTokenStatus(r)
      <3>1. job[r].op \in {"buy", "sell", "sellPart"} /\ job[r].task \in {"none", "pending", "buy", "sell"}
        <4>1. pc[r] = "trade" /\ Runs(r) /\ job[r] \in Job
          BY <2>3 DEF UpdateTokenStatus, TypeInv, TypeOK
        <4>. QED BY <4>1 DEF Runs, Job
      <3>. QED BY <2>3, <3>1 DEF UpdateTokenStatus
    <2>. QED BY <1>2, <2>1, <2>2, <2>3
  <1>3. ASSUME NEW e, NEW task \in {"none", "pending", "buy", "sell"}, batches' = [batches EXCEPT ![e].task = task]
        PROVE  /\ DOMAIN batches' = DOMAIN batches /\ batches' \in Seq(Batch)
               /\ \A d \in DOMAIN batches : /\ batches'[d].boss = batches[d].boss
                                            /\ batches'[d].status = batches[d].status
    BY <1>0, <1>3, TaskIs
  <1>4. \/ UNCHANGED batches
        \/ \E r \in Requests : \/ AddBatch(r) \/ NewBatch(r) \/ DeleteRows(r)
                             \/ TrackToken(r) \/ DeleteToken(r) \/ UpdateTokenStatus(r)
    BY CallFrame, StepFrame, OtherFrame DEF Next, vars, tables
  <1>. QED BY <1>1, <1>2, <1>3, <1>4

\* Of some wallets one is the newest.
LEMMA NewestIn == ASSUME NEW S \in SUBSET Wallet, S # {} PROVE Newest(S) \in S
  <1>. DEFINE R == {p \in Nat \X Nat : p[1] < p[2]}
              T == {MaxKeys - w.addr : w \in S}
  <1>1. \A w \in S : w.addr \in Nat /\ w.addr <= MaxKeys
    BY KeysNat DEF Wallet, Keys
  <1>2. T \subseteq Nat /\ T # {}
    BY <1>1, KeysNat
  <1>3. IsWellFoundedOn(R, Nat)
    BY NatLessThanWellFounded DEF OpToRel
  <1>4. PICK t \in T : \A u \in T : ~(<<u, t>> \in R)
    BY <1>2, <1>3, WFMin
  <1>5. \A u \in T : t \in Nat /\ u \in Nat /\ <<u, t>> \in Nat \X Nat /\ <<u, t>>[1] = u /\ <<u, t>>[2] = t
    BY <1>2
  <1>6. \A u \in T : u \in Nat /\ t \in Nat /\ ~(u < t)
    BY <1>4, <1>5
  <1>7. PICK x \in S : t = MaxKeys - x.addr
    BY DEF T
  <1>8. ASSUME NEW w \in S PROVE w.addr <= x.addr
    <2>1. MaxKeys - w.addr \in T
      OBVIOUS
    <2>2. ~(MaxKeys - w.addr < MaxKeys - x.addr)
      BY <1>6, <1>7, <2>1
    <2>. QED BY <1>1, <2>2, KeysNat
  <1>. QED BY <1>8 DEF Newest

LEMMA IndexOfIs ==
  ASSUME TypeOK, NEW k \in Addrs
  PROVE  \E w \in wallets : w.addr = k /\ w.index = IndexOf(k) /\ IndexOf(k) \in Nat
  <1>1. \E w \in wallets : w.addr = k
    BY DEF Addrs
  <1>2. PICK w \in wallets : w = (CHOOSE v \in wallets : v.addr = k) /\ w.addr = k
    BY <1>1
  <1>. QED BY <1>2 DEF IndexOf, TypeOK, Wallet

LEMMA ActiveAddrs ==
  \A e : ActiveWallets(e) \subseteq WalletsOf(e) /\ WalletsOf(e) \subseteq Addrs
  BY DEF ActiveWallets, WalletsOf, Addrs

\* The keys are numbered as they are made.
LEMMA MadeTyped ==
  ASSUME TypeInv, [Next]_vars
  PROVE  made' \in Keys /\ made' >= made /\ made' <= made + 1
  <1>1. made \in Keys
    BY DEF TypeInv, TypeOK
  <1>2. UNCHANGED made \/ (MayGenerate /\ made' = made + 1)
    <2>1. ASSUME NEW r \in Requests, \/ AddLine(r) \/ ImportBoss(r) \/ ChooseBoss(r) \/ GenerateWallet(r)
                                   \/ ReplaceWallet(r)
          PROVE  UNCHANGED made \/ (MayGenerate /\ made' = made + 1)
      BY <2>1 DEF AddLine, ImportBoss, ChooseBoss, GenerateWallet, ReplaceWallet
    <2>. QED BY <2>1, CallFrame, StepFrame, OtherFrame DEF Next, vars, keys
  <1>. QED BY <1>1, <1>2, KeysNat DEF MayGenerate, Keys

\* Rows are added for a new key, or a wallet is switched off, or all are deleted.
LEMMA WalletsChange ==
  ASSUME TypeInv, [Next]_vars
  PROVE  \/ UNCHANGED wallets
         \/ \E r \in Requests : DeleteRows(r)
         \/ \E r \in Requests : DeactivateWallet(r)
         \/ \E r \in Requests, row \in Wallet :
              /\ wallets' = wallets \cup {row} /\ row.eid = job[r].eid /\ row.active
              /\ \/ /\ GenerateWallet(r) /\ At(row.eid, row.index) = {} /\ row.addr = made + 1
                    /\ made' = made + 1
                 \/ InsertWallet(r) /\ row.addr = job[r].new /\ row.index = IndexOf(job[r].old)
  <1>0. TypeOK
    BY DEF TypeInv
  <1>1. ASSUME NEW r \in Requests, GenerateWallet(r), ~UNCHANGED wallets
        PROVE  \E row \in Wallet :
                 /\ wallets' = wallets \cup {row} /\ row.eid = job[r].eid /\ row.active
                 /\ At(row.eid, row.index) = {} /\ row.addr = made + 1 /\ made' = made + 1
    <2>. DEFINE row == [eid |-> job[r].eid, index |-> job[r].index, addr |-> made', active |-> TRUE]
    <2>1. /\ wallets' = wallets \cup {row} /\ At(job[r].eid, job[r].index) = {} /\ made' = made + 1
      BY <1>1 DEF GenerateWallet
    <2>2. job[r].eid \in Nat /\ job[r].index \in Nat
      BY <1>0 DEF TypeOK, Job
    <2>3. [Next]_vars /\ made' \in Keys
      BY MadeTyped
    <2>4. row \in Wallet
      BY <2>1, <2>2, <2>3 DEF Wallet
    <2>. QED BY <2>1, <2>4
  <1>2. ASSUME NEW r \in Requests, InsertWallet(r)
        PROVE  \E row \in Wallet :
                 /\ wallets' = wallets \cup {row} /\ row.eid = job[r].eid /\ row.active
                 /\ row.addr = job[r].new /\ row.index = IndexOf(job[r].old)
    <2>. DEFINE row == [eid |-> job[r].eid, index |-> IndexOf(job[r].old), addr |-> job[r].new, active |-> TRUE]
    <2>1. wallets' = wallets \cup {row} /\ pc[r] = "insert"
      BY <1>2 DEF InsertWallet, Inserted
    <2>2. job[r].eid \in Nat
      BY <1>0 DEF TypeOK, Job
    <2>3. job[r].new \in Keys /\ job[r].old \in ActiveWallets(job[r].eid)
      BY <2>1 DEF TypeInv, Runs, KeysGiven, Replaces
    <2>4. IndexOf(job[r].old) \in Nat
      BY <1>0, <2>3, ActiveAddrs, IndexOfIs
    <2>5. row \in Wallet
      BY <2>2, <2>3, <2>4 DEF Wallet
    <2>. QED BY <2>1, <2>5
  <1>3. \/ UNCHANGED wallets
        \/ \E r \in Requests : DeleteRows(r) \/ GenerateWallet(r) \/ InsertWallet(r) \/ DeactivateWallet(r)
    BY CallFrame, StepFrame, OtherFrame DEF Next, vars, tables
  <1>. QED BY <1>1, <1>2, <1>3

LEMMA DeactivateIs ==
  ASSUME TypeOK, NEW r \in Requests, DeactivateWallet(r)
  PROVE  /\ \A w \in wallets : w.addr # job[r].old => w \in wallets'
         /\ \A v \in wallets' : \E w \in wallets :
              /\ v.eid = w.eid /\ v.index = w.index /\ v.addr = w.addr /\ v \in Wallet
              /\ IF w.addr = job[r].old THEN ~v.active ELSE v = w
         /\ Addrs' = Addrs
  <1>1. wallets' = {IF w.addr = job[r].old THEN [w EXCEPT !.active = FALSE] ELSE w : w \in wallets}
    BY DEF DeactivateWallet
  <1>2. \A w \in wallets : /\ [w EXCEPT !.active = FALSE] \in Wallet /\ ~[w EXCEPT !.active = FALSE].active
                           /\ [w EXCEPT !.active = FALSE].eid = w.eid
                           /\ [w EXCEPT !.active = FALSE].index = w.index
                           /\ [w EXCEPT !.active = FALSE].addr = w.addr
                           /\ w \in Wallet
    BY DEF TypeOK, Wallet
  <1>3. \A v \in wallets' : \E w \in wallets :
              /\ v.eid = w.eid /\ v.index = w.index /\ v.addr = w.addr /\ v \in Wallet
              /\ IF w.addr = job[r].old THEN ~v.active ELSE v = w
    <2>1. ASSUME NEW v \in wallets'
          PROVE  \E w \in wallets :
                   v = IF w.addr = job[r].old THEN [w EXCEPT !.active = FALSE] ELSE w
      BY <1>1, <2>1
    <2>2. ASSUME NEW v \in wallets'
          PROVE  \E w \in wallets :
              /\ v.eid = w.eid /\ v.index = w.index /\ v.addr = w.addr /\ v \in Wallet
              /\ IF w.addr = job[r].old THEN ~v.active ELSE v = w
      <3>1. PICK w \in wallets :
              v = IF w.addr = job[r].old THEN [w EXCEPT !.active = FALSE] ELSE w
        BY <2>1
      <3>2. CASE w.addr = job[r].old
        BY <1>2, <3>1, <3>2
      <3>3. CASE w.addr # job[r].old
        BY <1>2, <3>1, <3>3
      <3>. QED BY <3>2, <3>3
    <2>. QED BY <2>2
  <1>4. \A w \in wallets : \E v \in wallets' : v.addr = w.addr
    BY <1>1, <1>2
  <1>5. Addrs' = Addrs
    BY <1>3, <1>4 DEF Addrs
  <1>. QED BY <1>1, <1>3, <1>5

LEMMA TablesTyped ==
  ASSUME TypeInv, [Next]_vars
  PROVE  line' \in Keys \cup {NoKey} /\ batches' \in Seq(Batch) /\ wallets' \subseteq Wallet
         /\ DOMAIN batches \subseteq DOMAIN batches'
  <1>0. TypeOK
    BY DEF TypeInv
  <1>1. line' \in Keys \cup {NoKey}
    <2>1. ASSUME NEW r \in Requests, AddLine(r) \/ ImportBoss(r)
          PROVE  line' \in Keys \cup {NoKey}
      BY <2>1, MadeTyped DEF AddLine, ImportBoss
    <2>2. ASSUME NEW r \in Requests, \/ AddBatch(r) \/ DeleteRows(r) \/ UpsertLine(r) \/ SetExecuteLineBoss(r)
          PROVE  line' \in Keys \cup {NoKey}
      <3>1. job[r].new \in Keys \cup {NoKey} /\ line \in Keys \cup {NoKey}
        BY <1>0 DEF TypeOK, Job
      <3>. QED BY <2>2, <3>1 DEF AddBatch, DeleteRows, UpsertLine, SetExecuteLineBoss
    <2>. QED BY <1>0, <2>1, <2>2, CallFrame, StepFrame, OtherFrame DEF Next, vars, tables, TypeOK
  <1>2. batches' \in Seq(Batch) /\ DOMAIN batches \subseteq DOMAIN batches'
    <2>1. ASSUME NEW boss \in Keys, batches' = WithBatch(boss)
          PROVE  batches' \in Seq(Batch) /\ DOMAIN batches \subseteq DOMAIN batches'
      <3>1. DOMAIN batches' = 1 .. Len(batches) + 1 /\ batches' \in Seq(Batch)
        BY <1>0, <2>1, WithBatchIs
      <3>2. DOMAIN batches = 1 .. Len(batches) /\ Len(batches) \in Nat
        BY <1>0, BatchesSeq
      <3>3. DOMAIN batches \subseteq DOMAIN batches'
        BY <3>1, <3>2
      <3>. QED BY <3>1, <3>3
    <2>. QED BY <1>0, <2>1, BatchesChange, DeleteRowsIs DEF TypeOK
  <1>3. wallets' \subseteq Wallet
    <2>1. ASSUME NEW r \in Requests, DeleteRows(r) PROVE wallets' = {}
      BY <2>1 DEF DeleteRows
    <2>2. ASSUME NEW r \in Requests, DeactivateWallet(r) PROVE wallets' \subseteq Wallet
      BY <1>0, <2>2, DeactivateIs
    <2>. QED BY <1>0, <2>1, <2>2, WalletsChange DEF TypeOK
  <1>. QED BY <1>1, <1>2, <1>3

\* A transaction is added at the end of those of its sender.
AddsTx(r, from, tx) ==
  /\ pool' = [pool EXCEPT ![from] = Append(pool[from], tx)]
  /\ from \in Keys /\ tx \in Tx /\ tx.by = r
Pays(r, from, tx) ==
  /\ tx.kind = "transfer" /\ tx.to = job[r].new /\ pc'[r] = "await" /\ job'[r].wait = {from}
  /\ \/ FundWallet(r) /\ pc[r] = "fund" /\ from = Boss(job[r].eid)
     \/ Sweep(r) /\ pc[r] = "sweep" /\ from = job[r].old

LEMMA SentIs ==
  ASSUME TypeOK, NEW r \in Requests, NEW from \in Keys, NEW to \in Keys \cup {NoKey},
         NEW kind \in {"transfer", "buy", "sell"}, NEW qty \in Nat, Sent(r, from, to, kind, qty)
  PROVE  \E tx : AddsTx(r, from, tx) /\ tx.kind = kind /\ tx.to = to
  <1>. DEFINE tx == [kind |-> kind, to |-> to, qty |-> qty, by |-> r]
  <1>1. tx \in Tx
    BY DEF Tx
  <1>2. pool' = [pool EXCEPT ![from] = Append(pool[from], tx)]
    BY DEF Sent
  <1>3. tx.kind = kind /\ tx.to = to /\ tx.by = r
    OBVIOUS
  <1>. HIDE DEF tx
  <1>. QED BY <1>1, <1>2, <1>3 DEF AddsTx

LEMMA JobFields ==
  ASSUME TypeInv, NEW r \in Requests
  PROVE  /\ job \in [Requests -> Job] /\ pc \in [Requests -> PCs] /\ pc[r] \in PCs
         /\ job[r] \in Job /\ job[r].op \in Ops \cup {"none"} /\ job[r].eid \in Nat /\ job[r].index \in Nat
         /\ job[r].todo \in SUBSET Keys /\ job[r].old \in Keys \cup {NoKey} /\ job[r].new \in Keys \cup {NoKey}
         /\ job[r].qty \in [Keys -> Nat] /\ job[r].wait \in SUBSET Keys /\ job[r].failed \in BOOLEAN
         /\ job[r].task \in {"none", "pending", "buy", "sell"}
         /\ Runs(r) /\ KeysGiven(r) /\ Replaces(r) /\ (mutex = r <=> Holds(r))
  BY DEF TypeInv, TypeOK, Job, MutexHeld

LEMMA PoolChange ==
  ASSUME TypeInv, [Next]_vars
  PROVE  \/ UNCHANGED pool
         \/ \E r \in Requests : \E from, tx : AddsTx(r, from, tx) /\ Pays(r, from, tx)
         \/ \E r \in Requests : \E from, tx :
              AddsTx(r, from, tx) /\ ExecuteTrade(r) /\ from \in job[r].todo /\ tx.kind # "transfer"
         \/ \E k \in Keys : Mine(k)
         \/ \E r \in Requests : Fail(r)
         \/ Crash
  <1>0. TypeOK
    BY DEF TypeInv
  <1>1. ASSUME NEW r \in Requests, FundWallet(r), ~UNCHANGED pool
        PROVE  \E from, tx : AddsTx(r, from, tx) /\ Pays(r, from, tx)
    <2>. DEFINE amount == Funding - native[job[r].new]
                from == Boss(job[r].eid)
    <2>1. /\ pc[r] = "fund" /\ amount > 0 /\ Sent(r, from, job[r].new, "transfer", amount)
          /\ job' = [job EXCEPT ![r].wait = {from}] /\ Goto(r, "await")
      BY <1>1 DEF FundWallet, IsShort
    <2>2. job[r].op = "generate" /\ job[r].new \in Keys /\ job[r].eid \in DOMAIN batches
      BY <2>1, JobFields DEF Runs, KeysGiven
    <2>3. from \in Keys /\ amount \in Nat
      <3>1. native[job[r].new] \in Nat /\ Funding \in Nat
        BY <1>0, <2>2, KeysNat DEF TypeOK
      <3>2. from \in Keys
        BY <1>0, <2>2, BatchesSeq
      <3>. QED BY <2>1, <3>1, <3>2
    <2>4. PICK tx : AddsTx(r, from, tx) /\ tx.kind = "transfer" /\ tx.to = job[r].new
      BY <1>0, <2>1, <2>2, <2>3, SentIs
    <2>5. pc'[r] = "await" /\ job'[r].wait = {from}
      BY <2>1, JobFields DEF Goto, Job
    <2>. QED BY <1>1, <2>1, <2>4, <2>5 DEF Pays
  <1>2. ASSUME NEW r \in Requests, Sweep(r), ~UNCHANGED pool
        PROVE  \E from, tx : AddsTx(r, from, tx) /\ Pays(r, from, tx)
    <2>. DEFINE amount == native[job[r].old] - Gas
                from == job[r].old
    <2>1. /\ pc[r] = "sweep" /\ amount > 0 /\ Sent(r, from, job[r].new, "transfer", amount)
          /\ job' = [job EXCEPT ![r].wait = {from}] /\ Goto(r, "await")
      BY <1>2 DEF Sweep
    <2>2. from \in Keys /\ job[r].new \in Keys \cup {NoKey}
      BY <2>1, JobFields DEF KeysGiven
    <2>3. amount \in Nat
      <3>1. native[from] \in Nat /\ Gas \in Nat
        BY <1>0, <2>2, KeysNat DEF TypeOK
      <3>. QED BY <2>1, <3>1
    <2>4. PICK tx : AddsTx(r, from, tx) /\ tx.kind = "transfer" /\ tx.to = job[r].new
      BY <1>0, <2>1, <2>2, <2>3, SentIs
    <2>5. pc'[r] = "await" /\ job'[r].wait = {from}
      BY <2>1, JobFields DEF Goto, Job
    <2>. QED BY <1>2, <2>1, <2>4, <2>5 DEF Pays
  <1>3. ASSUME NEW r \in Requests, ExecuteTrade(r), ~UNCHANGED pool
        PROVE  \E from, tx : AddsTx(r, from, tx) /\ from \in job[r].todo /\ tx.kind # "transfer"
    <2>1. PICK k \in job[r].todo :
            Sent(r, k, NoKey, IF job[r].op = "buy" THEN "buy" ELSE "sell", job[r].qty[k])
      BY <1>3 DEF ExecuteTrade
    <2>2. PICK kind \in {"buy", "sell"} : Sent(r, k, NoKey, kind, job[r].qty[k])
      BY <2>1
    <2>3. k \in Keys /\ job[r].qty[k] \in Nat
      BY JobFields
    <2>4. \E tx : AddsTx(r, k, tx) /\ tx.kind = kind
      BY <1>0, <2>2, <2>3, SentIs
    <2>. QED BY <2>4
  <1>. QED BY <1>1, <1>2, <1>3, CallFrame, StepFrame DEF Next, vars, chain

LEMMA ForsakenIs ==
  ASSUME TypeOK, NEW rs
  PROVE  /\ Forsaken(rs) \in [Keys -> Seq(Tx)]
         /\ \A k \in Keys : /\ DOMAIN Forsaken(rs)[k] = DOMAIN pool[k]
                            /\ (pool[k] = <<>> => Forsaken(rs)[k] = <<>>)
                            /\ \A i \in DOMAIN pool[k] :
                                 /\ Forsaken(rs)[k][i].kind = pool[k][i].kind
                                 /\ Forsaken(rs)[k][i].to = pool[k][i].to
  <1>. DEFINE new(k, i) == IF pool[k][i].by \in rs THEN [pool[k][i] EXCEPT !.by = NoRequest] ELSE pool[k][i]
              queue(k) == [i \in DOMAIN pool[k] |-> new(k, i)]
  <1>1. \A k \in Keys : /\ Len(pool[k]) \in Nat /\ DOMAIN pool[k] = 1 .. Len(pool[k])
                        /\ \A i \in DOMAIN pool[k] : pool[k][i] \in Tx
    BY DEF TypeOK
  <1>2. \A k \in Keys : \A i \in DOMAIN pool[k] :
          new(k, i) \in Tx /\ new(k, i).kind = pool[k][i].kind /\ new(k, i).to = pool[k][i].to
    BY <1>1 DEF Tx
  <1>3. Forsaken(rs) = [k \in Keys |-> queue(k)]
    BY DEF Forsaken
  <1>4. ASSUME NEW k \in Keys
        PROVE  /\ queue(k) \in Seq(Tx) /\ DOMAIN queue(k) = DOMAIN pool[k]
               /\ \A i \in DOMAIN pool[k] : queue(k)[i] = new(k, i)
    <2>1. queue(k) = [i \in 1 .. Len(pool[k]) |-> queue(k)[i]]
      BY <1>1
    <2>2. \A i \in 1 .. Len(pool[k]) : queue(k)[i] \in Tx
      BY <1>1, <1>2
    <2>3. queue(k) \in Seq(Tx)
      <3>. HIDE DEF queue
      <3>. QED BY <1>1, <2>1, <2>2, FunctionIsSeq
    <2>. QED BY <2>3
  <1>5. ASSUME NEW k \in Keys, pool[k] = <<>> PROVE queue(k) = <<>>
    <2>1. Len(pool[k]) = 0
      BY <1>5
    <2>2. DOMAIN queue(k) = {} /\ queue(k) \in Seq(Tx)
      BY <1>1, <1>4, <2>1
    <2>. HIDE DEF queue
    <2>. QED BY <2>2
  <1>. HIDE DEF new, queue
  <1>. QED BY <1>2, <1>3, <1>4, <1>5

\* What is mined: the fee is paid, and what arrives is credited.
LEMMA TxTyped ==
  ASSUME TypeOK, NEW k \in Keys, pool[k] # <<>>
  PROVE  /\ Head(pool[k]) \in Tx /\ Tail(pool[k]) \in Seq(Tx) /\ Len(pool[k]) \in Nat \ {0}
         /\ Len(Tail(pool[k])) = Len(pool[k]) - 1
         /\ DOMAIN Tail(pool[k]) = 1 .. Len(pool[k]) - 1 /\ DOMAIN pool[k] = 1 .. Len(pool[k])
         /\ \A i \in 1 .. Len(pool[k]) - 1 : Tail(pool[k])[i] = pool[k][i + 1]
         /\ Head(pool[k]) = pool[k][1] /\ 1 \in DOMAIN pool[k]
         /\ Cost(Head(pool[k])) \in Nat /\ Gain(Head(pool[k])) \in Nat
         /\ Earned(k, Head(pool[k])) \subseteq Keys
  <1>1. pool[k] \in Seq(Tx)
    BY DEF TypeOK
  <1>2. Head(pool[k]) \in Tx /\ Tail(pool[k]) \in Seq(Tx) /\ Len(pool[k]) \in Nat /\ Len(pool[k]) # 0
        /\ Len(Tail(pool[k])) = Len(pool[k]) - 1 /\ Head(pool[k]) = pool[k][1]
        /\ DOMAIN pool[k] = 1 .. Len(pool[k])
        /\ \A i \in 1 .. Len(pool[k]) - 1 : Tail(pool[k])[i] = pool[k][i + 1]
    BY <1>1
  <1>3. DOMAIN Tail(pool[k]) = 1 .. Len(Tail(pool[k]))
    BY <1>2
  <1>4. Cost(Head(pool[k])) \in Nat
    <2>1. Head(pool[k]).qty \in Nat /\ Gas \in Nat
      BY <1>2, KeysNat DEF Tx
    <2>. QED BY <2>1 DEF Cost
  <1>5. Gain(Head(pool[k])) \in Nat
    BY <1>2, KeysNat DEF Gain, Tx
  <1>6. Earned(k, Head(pool[k])) \subseteq Keys
    BY <1>2 DEF Earned, Tx
  <1>. QED BY <1>2, <1>3, <1>4, <1>5, <1>6

LEMMA MineChain ==
  ASSUME TypeInv, NEW k \in Keys, Mine(k)
  PROVE  /\ native' \in [Keys -> Nat] /\ tokens' \in [Keys -> Nat] /\ pool' \in [Keys -> Seq(Tx)]
         /\ credited \subseteq credited' /\ credited' \subseteq Keys
         /\ \A x \in Keys : native'[x] <= native[x] \/ x \in Earned(k, Head(pool[k])) \cap credited'
         /\ \A x \in Keys \ {k} : tokens'[x] = tokens[x]
  <1>. DEFINE tx == Head(pool[k])
  <1>0. /\ native \in [Keys -> Nat] /\ tokens \in [Keys -> Nat] /\ pool \in [Keys -> Seq(Tx)]
        /\ credited \subseteq Keys /\ TypeOK
    BY DEF TypeInv, TypeOK
  <1>1. pool[k] # <<>> /\ pool' = [pool EXCEPT ![k] = Tail(pool[k])]
    BY DEF Mine
  <1>2. tx \in Tx /\ Cost(tx) \in Nat /\ Gain(tx) \in Nat /\ Earned(k, tx) \subseteq Keys
        /\ Tail(pool[k]) \in Seq(Tx)
    BY <1>0, <1>1, TxTyped
  <1>3. pool' \in [Keys -> Seq(Tx)]
    BY <1>0, <1>1, <1>2
  <1>4. ASSUME native[k] >= Cost(tx), tx.kind = "sell" => tokens[k] >= tx.qty,
               native' = [x \in Keys |-> native[x] - (IF x = k THEN Cost(tx) ELSE 0)
                                                  + (IF x \in Earned(k, tx) THEN Gain(tx) ELSE 0)],
               tokens' = [tokens EXCEPT ![k] = CASE tx.kind = "buy" -> @ + 1
                                                 [] tx.kind = "sell" -> @ - tx.qty
                                                 [] tx.kind = "transfer" -> @],
               credited' = credited \cup Earned(k, tx)
        PROVE  /\ native' \in [Keys -> Nat] /\ tokens' \in [Keys -> Nat]
               /\ credited \subseteq credited' /\ credited' \subseteq Keys
               /\ \A x \in Keys : native'[x] <= native[x] \/ x \in Earned(k, tx) \cap credited'
               /\ \A x \in Keys \ {k} : tokens'[x] = tokens[x]
    <2>. HIDE DEF tx
    <2>1. ASSUME NEW x \in Keys
          PROVE  native'[x] \in Nat /\ (native'[x] <= native[x] \/ x \in Earned(k, tx))
      <3>1. native'[x] = native[x] - (IF x = k THEN Cost(tx) ELSE 0) + (IF x \in Earned(k, tx) THEN Gain(tx) ELSE 0)
        BY <1>4
      <3>2. native[x] \in Nat /\ native[k] \in Nat
        BY <1>0
      <3>3. CASE x = k
        BY <1>2, <1>4, <3>1, <3>2, <3>3
      <3>4. CASE x # k
        BY <1>2, <3>1, <3>2, <3>4
      <3>. QED BY <3>3, <3>4
    <2>2. native' = [x \in Keys |-> native'[x]]
      BY <1>4
    <2>3. native' \in [Keys -> Nat]
      BY <2>1, <2>2
    <2>4. tx.kind \in {"transfer", "buy", "sell"} /\ tx.qty \in Nat
      BY <1>2 DEF Tx
    <2>5. PICK t \in Nat : tokens' = [tokens EXCEPT ![k] = t]
      <3>1. tokens[k] \in Nat
        BY <1>0
      <3>2. CASE tx.kind = "buy"
        <4>1. tokens[k] + 1 \in Nat
          BY <3>1
        <4>. QED BY <1>4, <3>2, <4>1
      <3>3. CASE tx.kind = "sell"
        <4>1. tokens[k] - tx.qty \in Nat
          BY <1>4, <2>4, <3>1, <3>3
        <4>. QED BY <1>4, <3>3, <4>1
      <3>4. CASE tx.kind = "transfer"
        BY <1>4, <3>1, <3>4
      <3>. QED BY <2>4, <3>2, <3>3, <3>4
    <2>. QED BY <1>0, <1>2, <1>4, <2>1, <2>3, <2>5
  <1>5. ASSUME native' = [native EXCEPT ![k] = IF @ >= Gas THEN @ - Gas ELSE @],
               UNCHANGED <<tokens, credited>>
        PROVE  /\ native' \in [Keys -> Nat] /\ tokens' \in [Keys -> Nat]
               /\ credited \subseteq credited' /\ credited' \subseteq Keys
               /\ \A x \in Keys : native'[x] <= native[x]
               /\ \A x \in Keys \ {k} : tokens'[x] = tokens[x]
    <2>1. PICK n \in Nat : native' = [native EXCEPT ![k] = n] /\ n <= native[k]
      <3>1. native[k] \in Nat /\ Gas \in Nat
        BY <1>0, KeysNat
      <3>2. CASE native[k] >= Gas
        <4>1. native[k] - Gas \in Nat /\ native[k] - Gas <= native[k]
          BY <3>1, <3>2
        <4>. QED BY <1>5, <3>2, <4>1
      <3>3. CASE ~(native[k] >= Gas)
        <4>1. native' = [native EXCEPT ![k] = native[k]]
          BY <1>5, <3>3
        <4>2. native[k] \in Nat /\ native[k] <= native[k]
          BY <3>1
        <4>. QED BY <4>1, <4>2
      <3>. QED BY <3>2, <3>3
    <2>2. \A x \in Keys : native'[x] <= native[x]
      BY <1>0, <2>1
    <2>. QED BY <1>0, <1>5, <2>1, <2>2
  <1>6. ASSUME UNCHANGED <<native, tokens, credited>>
        PROVE  /\ native' \in [Keys -> Nat] /\ tokens' \in [Keys -> Nat]
               /\ credited \subseteq credited' /\ credited' \subseteq Keys
               /\ \A x \in Keys : native'[x] <= native[x]
               /\ \A x \in Keys \ {k} : tokens'[x] = tokens[x]
    BY <1>0, <1>6
  <1>. QED BY <1>3, <1>4, <1>5, <1>6 DEF Mine

LEMMA PoolTyped == ASSUME TypeInv, [Next]_vars PROVE pool' \in [Keys -> Seq(Tx)]
  <1>1. pool \in [Keys -> Seq(Tx)] /\ TypeOK
    BY DEF TypeInv, TypeOK
  <1>2. ASSUME NEW r, NEW from, NEW tx, AddsTx(r, from, tx) PROVE pool' \in [Keys -> Seq(Tx)]
    BY <1>1, <1>2 DEF AddsTx
  <1>3. ASSUME Crash \/ \E r \in Requests : Fail(r) PROVE pool' \in [Keys -> Seq(Tx)]
    BY <1>1, <1>3, ForsakenIs DEF Crash, Fail
  <1>. QED BY <1>1, <1>2, <1>3, PoolChange, MineChain

LEMMA ChainTyped ==
  ASSUME TypeInv, [Next]_vars
  PROVE  /\ native' \in [Keys -> Nat] /\ tokens' \in [Keys -> Nat] /\ pool' \in [Keys -> Seq(Tx)]
         /\ credited' \subseteq Keys
  <1>1. /\ native \in [Keys -> Nat] /\ tokens \in [Keys -> Nat] /\ credited \subseteq Keys
    BY DEF TypeInv, TypeOK
  <1>2. \A r \in Requests : DeleteLine(r) \/ End(r) => credited' = {}
    BY DEF DeleteLine, End
  <1>. QED BY <1>1, <1>2, CallFrame, StepFrame, OtherFrame, MineChain, PoolTyped DEF Next, vars, chain

LEMMA KeysTyped ==
  ASSUME TypeInv, [Next]_vars
  PROVE  imported' \subseteq Keys /\ discarded' \subseteq Keys
         /\ calls' \in 0 .. MaxCalls /\ faults' \in 0 .. MaxFaults
  <1>0. TypeOK /\ imported \subseteq Keys /\ discarded \subseteq Keys
        /\ calls \in 0 .. MaxCalls /\ faults \in 0 .. MaxFaults
    BY DEF TypeInv, TypeOK
  <1>1. imported' \subseteq Keys
    <2>1. \A r \in Requests : AddLine(r) \/ ImportBoss(r) => imported' \subseteq imported \cup {made'}
      BY DEF AddLine, ImportBoss
    <2>. QED BY <1>0, <2>1, CallFrame, StepFrame, OtherFrame, MadeTyped DEF Next, vars, keys
  <1>2. discarded' \subseteq Keys
    <2>1. Stored \subseteq Keys
      <3>1. \A w \in wallets : w.addr \in Keys
        BY <1>0 DEF TypeOK, Wallet
      <3>2. \A e \in Rows : Boss(e) \in Keys
        BY <1>0, BatchesSeq
      <3>. QED BY <1>0, <3>1, <3>2 DEF Stored, TypeOK
    <2>2. \A r \in Requests : DeleteRows(r) => discarded' = discarded \cup Stored
      BY DEF DeleteRows
    <2>. QED BY <1>0, <2>1, <2>2, CallFrame, StepFrame, OtherFrame DEF Next, vars, keys
  <1>3. calls' \in 0 .. MaxCalls
    BY <1>0, KeysNat, CallFrame, StepFrame, OtherFrame DEF Next, vars, bounds
  <1>4. faults' \in 0 .. MaxFaults
    <2>1. UNCHANGED faults \/ Fault
      BY CallFrame, StepFrame, OtherFrame DEF Next, vars, bounds
    <2>. QED BY <1>0, <2>1, KeysNat DEF Fault
  <1>. QED BY <1>1, <1>2, <1>3, <1>4

\* What a request knows, where it is, and whether it holds the mutex.
Local(r) == /\ pc[r] \in PCs /\ job[r] \in Job
            /\ Runs(r) /\ KeysGiven(r) /\ Replaces(r) /\ (mutex = r <=> Holds(r))
OthersKeep(r) == \A q \in Requests : q # r => (mutex = q <=> mutex' = q)

LEMMA NoJobTyped ==
  /\ NoJob \in Job /\ NoJob.op = "none" /\ NoJob.eid = 0 /\ NoJob.index = 0 /\ NoJob.todo = {}
  /\ NoJob.old = NoKey /\ NoJob.new = NoKey /\ NoJob.qty \in [Keys -> Nat] /\ NoJob.wait = {}
  /\ NoJob.failed = FALSE /\ NoJob.task = "none"
  BY DEF Job, NoJob

\* The keys that the handlers go through are keys.
LEMMA AddrsTyped ==
  ASSUME TypeOK
  PROVE  /\ Addrs \subseteq Keys /\ \A e : ActiveWallets(e) \subseteq Keys /\ WalletsOf(e) \subseteq Keys
         /\ line # NoKey => KeptByLine \subseteq Keys
  <1>1. Addrs \subseteq Keys
    BY DEF TypeOK, Wallet, Addrs
  <1>2. \A e : ActiveWallets(e) \subseteq Keys /\ WalletsOf(e) \subseteq Keys
    BY <1>1, ActiveAddrs
  <1>3. line # NoKey => KeptByLine \subseteq Keys
    BY <1>2, BatchesSeq DEF KeptByLine, TypeOK
  <1>. QED BY <1>1, <1>2, <1>3

LEMMA LocalReturn ==
  ASSUME TypeInv, NEW r \in Requests, Return(r)
  PROVE  Local(r)' /\ OthersKeep(r)
  <1>1. pc'[r] = "idle" /\ job'[r] = NoJob /\ mutex' = Released(r)
    BY JobFields DEF Return, Goto
  <1>2. NoJob \in Job /\ NoJob.op = "none"
    BY KeysNat DEF NoJob, Job
  <1>3. mutex' # r /\ OthersKeep(r)
    BY <1>1, KeysNat DEF Released, OthersKeep
  <1>. QED BY <1>1, <1>2, <1>3 DEF Local, PCs, Runs, KeysGiven, Replaces, Holds

\* The first step of a handler.
LEMMA LocalCall ==
  ASSUME TypeInv, NEW r \in Requests, Call(r)
  PROVE  Local(r)' /\ OthersKeep(r)
  <1>0. TypeOK /\ pc[r] = "idle" /\ mutex # r /\ job \in [Requests -> Job] /\ pc \in [Requests -> PCs]
    BY CallFrame, JobFields DEF TypeInv, Runs, Holds
  <1>1. CASE AddLine(r)
    <2>. DEFINE j == [NoJob EXCEPT !.op = "addLine", !.new = made']
    <2>1. pc'[r] = "addBatch" /\ job'[r] = j /\ mutex' = r /\ mutex = NoRequest
      BY <1>0, <1>1 DEF AddLine, Goto, Lock, MayEnter
    <2>2. made' \in Keys /\ job'[r] \in Job
      <3>1. made' \in Keys
        BY SMTT(30), <1>0, <1>1, KeysNat DEF AddLine, MayGenerate, TypeOK, Keys
      <3>. QED BY <2>1, <3>1, NoJobTyped DEF Job, Ops
    <2>3. j.op = "addLine" /\ j.new = made'
      BY DEF NoJob
    <2>. HIDE DEF j
    <2>. QED BY <2>1, <2>2, <2>3, KeysNat DEF Local, PCs, Runs, KeysGiven, Replaces, Holds, OthersKeep
  <1>2. CASE ImportBoss(r) \/ DeleteToken(r)
    <2>1. UNCHANGED <<pc, job, mutex>>
      BY <1>2 DEF ImportBoss, DeleteToken
    <2>2. job[r].op = "none" /\ job[r] \in Job
      BY <1>0, JobFields DEF Runs
    <2>. QED BY <1>0, <2>1, <2>2 DEF Local, PCs, Runs, KeysGiven, Replaces, Holds, OthersKeep
  <1>3. CASE DeleteLine(r)
    <2>1. /\ pc'[r] = "checkEmpty" /\ mutex' = r /\ mutex = NoRequest
          /\ job'[r] = [NoJob EXCEPT !.op = "deleteLine", !.eid = 0, !.todo = KeptByLine]
      BY <1>0, <1>3 DEF DeleteLine, Goto, Lock, MayEnter, Started
    <2>2. job'[r] \in Job /\ job'[r].op = "deleteLine"
      <3>1. KeptByLine \in SUBSET Keys
        BY <1>0, <1>3, AddrsTyped DEF DeleteLine
      <3>. QED BY <2>1, <3>1, NoJobTyped DEF Job, Ops
    <2>. QED BY <2>1, <2>2, KeysNat DEF Local, PCs, Runs, KeysGiven, Replaces, Holds, OthersKeep
  <1>4. CASE AutoSwap(r) \/ Start(r)
    <2>0. line # NoKey /\ line \in Keys /\ UNCHANGED mutex
      BY <1>0, <1>4 DEF AutoSwap, Start, TypeOK
    <2>1. CASE AutoSwap(r)
      <3>1. pc'[r] = "upsert" /\ job'[r] = [NoJob EXCEPT !.op = "autoSwap", !.new = line]
        BY <1>0, <2>1 DEF AutoSwap, Goto
      <3>2. job'[r] \in Job /\ job'[r].op = "autoSwap" /\ job'[r].new = line
        BY <2>0, <3>1, NoJobTyped DEF Job, Ops
      <3>. QED BY <1>0, <2>0, <3>1, <3>2 DEF Local, PCs, Runs, KeysGiven, Replaces, Holds, OthersKeep
    <2>2. CASE Start(r)
      <3>1. pc'[r] = "start" /\ job'[r] = [NoJob EXCEPT !.op = "start", !.new = line]
        BY <1>0, <2>2 DEF Start, Goto
      <3>2. job'[r] \in Job /\ job'[r].op = "start" /\ job'[r].new = line
        BY <2>0, <3>1, NoJobTyped DEF Job, Ops
      <3>. QED BY <1>0, <2>0, <3>1, <3>2 DEF Local, PCs, Runs, KeysGiven, Replaces, Holds, OthersKeep
    <2>. QED BY <1>4, <2>1, <2>2
  <1>5. CASE GenerateWallets(r)
    <2>1. PICK e \in Rows : job'[r] = [NoJob EXCEPT !.op = "generate", !.eid = e, !.todo = {}]
      BY <1>0, <1>5 DEF GenerateWallets, Started
    <2>2. pc'[r] = "wallet" /\ mutex' = r /\ mutex = NoRequest /\ UNCHANGED batches
      BY <1>0, <1>5 DEF GenerateWallets, Goto, Lock, MayEnter, tables
    <2>3. e \in Nat /\ e \in DOMAIN batches
      BY <1>0, BatchesSeq
    <2>4. job'[r] \in Job /\ job'[r].op = "generate" /\ job'[r].eid = e
      BY <2>1, <2>3, NoJobTyped DEF Job, Ops
    <2>. QED BY <2>2, <2>3, <2>4, KeysNat DEF Local, PCs, Runs, KeysGiven, Replaces, Holds, OthersKeep
  <1>10. CASE CheckToken(r)
    <2>1. PICK e \in Rows : job'[r] = [NoJob EXCEPT !.op = "check", !.eid = e, !.todo = {}]
      BY <1>0, <1>10 DEF CheckToken, Started
    <2>2. pc'[r] = "track" /\ UNCHANGED <<batches, mutex>>
      BY <1>0, <1>10 DEF CheckToken, Goto, tables
    <2>3. e \in Nat /\ e \in DOMAIN batches
      BY <1>0, BatchesSeq
    <2>4. job'[r] \in Job /\ job'[r].op = "check" /\ job'[r].eid = e
      BY <2>1, <2>3, NoJobTyped DEF Job, Ops
    <2>. QED BY <1>0, <2>2, <2>3, <2>4 DEF Local, PCs, Runs, KeysGiven, Replaces, Holds, OthersKeep
  <1>6. CASE NextWallet(r)
    <2>0. PICK e \in Rows : \E W \in {ActiveWallets(e)} \cup {{k} : k \in ActiveWallets(e)} :
            job' = [job EXCEPT ![r] = [NoJob EXCEPT !.op = "next", !.eid = e, !.todo = W]]
      BY <1>6 DEF NextWallet, Started
    <2>1. PICK W \in {ActiveWallets(e)} \cup {{k} : k \in ActiveWallets(e)} :
            job' = [job EXCEPT ![r] = [NoJob EXCEPT !.op = "next", !.eid = e, !.todo = W]]
      BY <2>0
    <2>2. /\ pc'[r] = "replace" /\ mutex' = r /\ mutex = NoRequest /\ UNCHANGED <<wallets, batches>>
          /\ job'[r] = [NoJob EXCEPT !.op = "next", !.eid = e, !.todo = W]
      BY <1>0, <1>6, <2>1 DEF NextWallet, Goto, Lock, MayEnter, tables
    <2>3. W \subseteq ActiveWallets(e) /\ W \in SUBSET Keys /\ e \in Nat /\ e \in DOMAIN batches
      <3>1. W \subseteq ActiveWallets(e)
        OBVIOUS
      <3>2. ActiveWallets(e) \subseteq Keys
        BY <1>0, AddrsTyped
      <3>3. e \in Nat /\ e \in DOMAIN batches
        BY <1>0, BatchesSeq
      <3>. QED BY <3>1, <3>2, <3>3
    <2>4. job'[r] \in Job /\ job'[r].op = "next" /\ job'[r].eid = e /\ job'[r].todo = W
      BY <2>2, <2>3, NoJobTyped DEF Job, Ops
    <2>5. ActiveWallets(e)' = ActiveWallets(e)
      BY <2>2 DEF ActiveWallets
    <2>6. Replaces(r)'
      BY <2>2, <2>3, <2>4, <2>5 DEF Replaces, ActiveWallets
    <2>. QED BY <2>2, <2>3, <2>4, <2>6, KeysNat DEF Local, PCs, Runs, KeysGiven, Holds, OthersKeep
  <1>7. CASE End(r)
    <2>1. PICK e \in Rows :
            job' = [job EXCEPT ![r] = [NoJob EXCEPT !.op = "end", !.eid = e, !.new = Boss(e), !.todo = Recycled(e)]]
      BY <1>7 DEF End
    <2>2. /\ pc'[r] = "recycle" /\ mutex' = r /\ mutex = NoRequest /\ UNCHANGED batches
          /\ job'[r] = [NoJob EXCEPT !.op = "end", !.eid = e, !.new = Boss(e), !.todo = Recycled(e)]
      BY <1>0, <1>7, <2>1 DEF End, Goto, Lock, MayEnter, tables
    <2>3. e \in Nat /\ e \in DOMAIN batches /\ Boss(e) \in Keys /\ Recycled(e) \in SUBSET Keys
      BY <1>0, BatchesSeq, AddrsTyped DEF Recycled
    <2>4. job'[r] \in Job /\ job'[r].op = "end" /\ job'[r].eid = e /\ job'[r].new = Boss(e)
      BY <2>2, <2>3, NoJobTyped DEF Job, Ops
    <2>. QED BY <2>2, <2>3, <2>4, KeysNat DEF Local, PCs, Runs, KeysGiven, Replaces, Holds, OthersKeep
  <1>8. CASE Withdraw(r)
    <2>1. PICK e \in Rows :
            /\ pc'[r] = "sweep" /\ UNCHANGED <<mutex, batches>>
            /\ job'[r] = [NoJob EXCEPT !.op = "withdraw", !.eid = e, !.old = Boss(e)]
      BY <1>0, <1>8 DEF Withdraw, Goto, tables
    <2>2. e \in Nat /\ e \in DOMAIN batches /\ Boss(e) \in Keys
      BY <1>0, BatchesSeq
    <2>3. job'[r] \in Job /\ job'[r].op = "withdraw" /\ job'[r].eid = e /\ job'[r].old = Boss(e)
      BY <2>1, <2>2, NoJobTyped DEF Job, Ops
    <2>. QED BY <1>0, <2>1, <2>2, <2>3 DEF Local, PCs, Runs, KeysGiven, Replaces, Holds, OthersKeep
  <1>9. CASE Trade(r)
    <2>0. PICK e \in Rows, op \in {"buy", "sell", "sellPart"} :
            LET able == {k \in ActiveWallets(e) : op = "buy" \/ tokens[k] > 0} IN
            \E W \in {able} \cup {{k} : k \in able} :
              job' = [job EXCEPT ![r] =
                [NoJob EXCEPT !.op = op, !.eid = e, !.todo = W, !.task = batches[e].task,
                   !.qty = [k \in Keys |-> IF k \in W THEN Amount(op, k) ELSE 0]]]
      BY <1>9 DEF Trade
    <2>. DEFINE able == {k \in ActiveWallets(e) : op = "buy" \/ tokens[k] > 0}
    <2>5. PICK W \in {able} \cup {{k} : k \in able} :
              job' = [job EXCEPT ![r] =
                [NoJob EXCEPT !.op = op, !.eid = e, !.todo = W, !.task = batches[e].task,
                   !.qty = [k \in Keys |-> IF k \in W THEN Amount(op, k) ELSE 0]]]
      BY <2>0
    <2>6. W \in SUBSET Keys
      <3>1. able \subseteq Keys
        BY <1>0, AddrsTyped
      <3>. HIDE DEF able
      <3>. QED BY <3>1
    <2>1. /\ pc'[r] = "trade" /\ UNCHANGED <<mutex, batches>>
          /\ job'[r] = [NoJob EXCEPT !.op = op, !.eid = e, !.todo = W, !.task = batches[e].task,
                           !.qty = [k \in Keys |-> IF k \in W THEN Amount(op, k) ELSE 0]]
      BY <1>0, <1>9, <2>5 DEF Trade, Goto, tables
    <2>2. job'[r] \in Job /\ e \in DOMAIN batches /\ job'[r].op = op /\ job'[r].eid = e
      <3>1. e \in Nat /\ e \in DOMAIN batches /\ batches[e].task \in {"none", "pending", "buy", "sell"}
        BY <1>0, BatchesSeq DEF Batch
      <3>2. \A k \in Keys : Amount(op, k) \in Nat
        BY <1>0, KeysNat DEF Amount, TypeOK
      <3>3. [k \in Keys |-> IF k \in W THEN Amount(op, k) ELSE 0] \in [Keys -> Nat]
        BY <3>2
      <3>. QED BY <2>1, <2>6, <3>1, <3>3, NoJobTyped DEF Job, Ops
    <2>. QED BY <1>0, <2>1, <2>2 DEF Local, PCs, Runs, KeysGiven, Replaces, Holds, OthersKeep
  <1>. QED BY <1>1, <1>2, <1>3, <1>4, <1>5, <1>6, <1>7, <1>8, <1>9, <1>10 DEF Call

\* The steps that end a handler, or that go through its keys.
LEMMA LocalKeys ==
  ASSUME TypeInv, NEW r \in Requests, NEW k, job' = [job EXCEPT ![r].todo = @ \ {k}],
         UNCHANGED <<pc, mutex, wallets, batches>>
  PROVE  Local(r)' /\ OthersKeep(r)
  <1>1. job'[r] = [job[r] EXCEPT !.todo = @ \ {k}] /\ pc'[r] = pc[r]
    BY JobFields
  <1>2. job'[r] \in Job /\ job'[r].op = job[r].op /\ job'[r].eid = job[r].eid /\ job'[r].old = job[r].old
        /\ job'[r].new = job[r].new /\ job'[r].todo = job[r].todo \ {k}
    BY <1>1, JobFields DEF Job
  <1>3. Replaces(r)'
    BY <1>1, <1>2, JobFields DEF Replaces, ActiveWallets
  <1>. QED BY <1>1, <1>2, <1>3, JobFields DEF Local, Runs, KeysGiven, Holds, OthersKeep

LEMMA LocalLine ==
  ASSUME TypeInv, NEW r \in Requests,
         \/ AddBatch(r) \/ CheckEmpty(r) \/ DeleteRows(r) \/ UpsertLine(r) \/ NewBatch(r)
         \/ CheckSwept(r) \/ TrackToken(r) \/ UpdateTokenStatus(r)
  PROVE  Local(r)' /\ OthersKeep(r)
  <1>1. CASE Return(r)
    BY <1>1, LocalReturn
  <1>2. CASE ~Return(r)
    <2>1. \E k : job' = [job EXCEPT ![r].todo = @ \ {k}] /\ UNCHANGED <<pc, mutex, wallets, batches>>
      BY <1>2 DEF AddBatch, CheckEmpty, DeleteRows, UpsertLine, NewBatch, CheckSwept, TrackToken,
        UpdateTokenStatus, Done, tables
    <2>. QED BY <2>1, LocalKeys
  <1>. QED BY <1>1, <1>2

LEMMA LocalStart ==
  ASSUME TypeInv, [Next]_vars, NEW r \in Requests,
         ReadActiveBatch(r) \/ ChooseBoss(r) \/ SetExecuteLineBoss(r)
  PROVE  Local(r)' /\ OthersKeep(r)
  <1>0. TypeOK
    BY DEF TypeInv
  <1>1. CASE ReadActiveBatch(r)
    <2>. DEFINE todo == UNION {ActiveWallets(e) : e \in Active}
    <2>1. /\ pc'[r] = "checkSwept" /\ pc[r] = "start" /\ mutex = NoRequest /\ mutex' = r
          /\ job'[r] = [job[r] EXCEPT !.todo = todo]
      BY <1>1, JobFields DEF ReadActiveBatch, Goto, Lock, MayEnter
    <2>2. todo \in SUBSET Keys
      BY <1>0, AddrsTyped
    <2>3. job[r].op = "start" /\ job[r].new \in Keys
      BY <2>1, JobFields DEF Runs, KeysGiven
    <2>. HIDE DEF todo
    <2>4. job'[r] \in Job /\ job'[r].op = "start" /\ job'[r].new = job[r].new
      BY <2>1, <2>2, <2>3, JobFields DEF Job
    <2>. QED BY <2>1, <2>3, <2>4, KeysNat DEF Local, PCs, Runs, KeysGiven, Replaces, Holds, OthersKeep
  <1>2. CASE ChooseBoss(r)
    <2>1. pc[r] = "checkSwept" /\ UNCHANGED mutex
      BY <1>2 DEF ChooseBoss
    <2>2. job[r].op = "start" /\ job[r].new \in Keys /\ mutex = r
      BY <2>1, JobFields DEF Runs, KeysGiven, Holds
    <2>3. CASE Active = {}
      <3>1. pc'[r] = "setBoss" /\ job'[r] = job[r]
        BY <1>2, <2>3, JobFields DEF ChooseBoss, Goto
      <3>. QED BY <2>1, <2>2, <3>1, JobFields DEF Local, PCs, Runs, KeysGiven, Replaces, Holds, OthersKeep
    <2>4. CASE Active # {}
      <3>1. PICK e \in Active : job' = [job EXCEPT ![r].old = Boss(e), ![r].new = made']
        BY <1>2, <2>4 DEF ChooseBoss
      <3>2. pc'[r] = "sweep" /\ job'[r] = [job[r] EXCEPT !.old = Boss(e), !.new = made']
        BY <1>2, <2>4, <3>1, JobFields DEF ChooseBoss, Goto
      <3>3. Boss(e) \in Keys /\ made' \in Keys
        BY <1>0, BatchesSeq, MadeTyped
      <3>4. job'[r] \in Job /\ job'[r].op = "start" /\ job'[r].old = Boss(e) /\ job'[r].new = made'
        BY <2>2, <3>2, <3>3, JobFields DEF Job
      <3>. QED BY <2>1, <2>2, <3>2, <3>3, <3>4 DEF Local, PCs, Runs, KeysGiven, Replaces, Holds, OthersKeep
    <2>. QED BY <2>3, <2>4
  <1>3. CASE SetExecuteLineBoss(r)
    <2>1. pc[r] = "setBoss" /\ pc'[r] = "newBatch" /\ UNCHANGED <<mutex, job>>
      BY <1>3, JobFields DEF SetExecuteLineBoss, Goto
    <2>2. job[r].op = "start" /\ job[r].new \in Keys /\ mutex = r
      BY <2>1, JobFields DEF Runs, KeysGiven, Holds
    <2>. QED BY <2>1, <2>2, JobFields DEF Local, PCs, Runs, KeysGiven, Replaces, Holds, OthersKeep
  <1>. QED BY <1>1, <1>2, <1>3

LEMMA LocalWallets ==
  ASSUME TypeInv, [Next]_vars, NEW r \in Requests,
         GenerateWallet(r) \/ FundWallet(r) \/ ReplaceWallet(r)
  PROVE  Local(r)' /\ OthersKeep(r)
  <1>0. TypeOK
    BY DEF TypeInv
  <1>r. CASE Return(r)
    BY <1>r, LocalReturn
  <1>1. CASE GenerateWallet(r) /\ ~Return(r)
    <2>1. pc[r] = "wallet" /\ job[r].index \in Indices /\ UNCHANGED <<mutex, batches>>
      BY <1>1 DEF GenerateWallet
    <2>2. job[r].op = "generate" /\ job[r].eid \in DOMAIN batches /\ mutex = r
      BY <2>1, JobFields DEF Runs, KeysGiven, Holds
    <2>3. ASSUME NEW k \in Keys, Funds(r, k) PROVE Local(r)' /\ OthersKeep(r)
      <3>1. pc'[r] = "fund" /\ job'[r] = [job[r] EXCEPT !.new = k]
        BY <2>3, JobFields DEF Funds, Goto
      <3>2. job'[r] \in Job /\ job'[r].op = "generate" /\ job'[r].new = k /\ job'[r].eid = job[r].eid
        BY <2>2, <3>1, JobFields DEF Job
      <3>. QED BY <2>1, <2>2, <3>1, <3>2 DEF Local, PCs, Runs, KeysGiven, Replaces, Holds, OthersKeep
    <2>4. ASSUME NextIndex(r), UNCHANGED pc PROVE Local(r)' /\ OthersKeep(r)
      <3>1. pc'[r] = "wallet" /\ job'[r] = [job[r] EXCEPT !.index = @ + 1]
        BY <2>1, <2>4, JobFields DEF NextIndex
      <3>2. job'[r] \in Job /\ job'[r].op = "generate" /\ job'[r].eid = job[r].eid
        BY SMTT(30), <2>2, <3>1, JobFields DEF Job
      <3>. QED BY <2>1, <2>2, <3>1, <3>2 DEF Local, PCs, Runs, KeysGiven, Replaces, Holds, OthersKeep
    <2>5. ASSUME At(job[r].eid, job[r].index) # {}
          PROVE  Newest(At(job[r].eid, job[r].index)).addr \in Keys
      <3>1. At(job[r].eid, job[r].index) \in SUBSET Wallet
        BY <1>0 DEF At, TypeOK
      <3>2. Newest(At(job[r].eid, job[r].index)) \in Wallet
        BY <2>5, <3>1, NewestIn
      <3>. QED BY <3>2 DEF Wallet
    <2>6. \/ Funds(r, made')
          \/ /\ At(job[r].eid, job[r].index) # {}
             /\ \/ Funds(r, Newest(At(job[r].eid, job[r].index)).addr)
                \/ NextIndex(r) /\ UNCHANGED pc
      BY <1>1, <2>1 DEF GenerateWallet
    <2>. QED BY <2>3, <2>4, <2>5, <2>6, MadeTyped
  <1>2. CASE FundWallet(r) /\ ~Return(r)
    <2>1. pc[r] = "fund" /\ UNCHANGED <<mutex, batches>>
      BY <1>2 DEF FundWallet, tables
    <2>2. job[r].op = "generate" /\ job[r].eid \in DOMAIN batches /\ mutex = r /\ job[r].new \in Keys
      BY <2>1, JobFields DEF Runs, KeysGiven, Holds
    <2>3. CASE Goto(r, "wallet") /\ NextIndex(r)
      <3>1. pc'[r] = "wallet" /\ job'[r] = [job[r] EXCEPT !.index = @ + 1]
        BY <2>3, JobFields DEF NextIndex, Goto
      <3>2. job'[r] \in Job /\ job'[r].op = "generate" /\ job'[r].eid = job[r].eid
        BY SMTT(30), <2>2, <3>1, JobFields DEF Job
      <3>. QED BY <2>1, <2>2, <3>1, <3>2 DEF Local, PCs, Runs, KeysGiven, Replaces, Holds, OthersKeep
    <2>4. CASE Goto(r, "await") /\ job' = [job EXCEPT ![r].wait = {Boss(job[r].eid)}]
      <3>1. pc'[r] = "await" /\ job'[r] = [job[r] EXCEPT !.wait = {Boss(job[r].eid)}]
        BY <2>4, JobFields DEF Goto
      <3>2. Boss(job[r].eid) \in Keys
        BY <1>0, <2>2, BatchesSeq
      <3>3. job'[r] \in Job /\ job'[r].op = "generate" /\ job'[r].eid = job[r].eid /\ job'[r].new = job[r].new
        BY <2>2, <3>1, <3>2, JobFields DEF Job
      <3>. QED BY <2>1, <2>2, <3>1, <3>3 DEF Local, PCs, Runs, KeysGiven, Replaces, Holds, OthersKeep
    <2>. QED BY <1>2, <2>3, <2>4 DEF FundWallet
  <1>3. CASE ReplaceWallet(r) /\ ~Return(r)
    <2>1. PICK k \in job[r].todo : job' = [job EXCEPT ![r].todo = @ \ {k}, ![r].old = k, ![r].new = made']
      BY <1>3 DEF ReplaceWallet
    <2>2. pc[r] = "replace" /\ pc'[r] = "sweep" /\ UNCHANGED <<mutex, wallets, batches>>
          /\ job'[r] = [job[r] EXCEPT !.todo = @ \ {k}, !.old = k, !.new = made']
      BY <1>3, <2>1, JobFields DEF ReplaceWallet, Goto, tables
    <2>3. job[r].op = "next" /\ job[r].eid \in DOMAIN batches /\ mutex = r /\ k \in Keys /\ made' \in Keys
      BY <2>2, JobFields, MadeTyped DEF Runs, KeysGiven, Holds
    <2>4. /\ job'[r] \in Job /\ job'[r].op = "next" /\ job'[r].eid = job[r].eid /\ job'[r].old = k
          /\ job'[r].new = made' /\ job'[r].todo = job[r].todo \ {k}
      <3>1. job[r] \in Job /\ job[r].todo \ {k} \in SUBSET Keys
        BY JobFields
      <3>2. job'[r] \in Job
        BY <2>2, <2>3, <3>1 DEF Job
      <3>3. QED
        BY <2>2, <2>3, <3>1 DEF Job
    <2>5. Replaces(r)'
      BY <2>2, <2>3, <2>4, JobFields DEF Replaces, ActiveWallets
    <2>. QED BY <2>2, <2>3, <2>4, <2>5 DEF Local, PCs, Runs, KeysGiven, Holds, OthersKeep
  <1>. QED BY <1>r, <1>1, <1>2, <1>3

\* Of a wallet and its replacement one is active at the end.
LEMMA LocalReplace ==
  ASSUME TypeInv, [Next]_vars, NEW r \in Requests, InsertWallet(r) \/ DeactivateWallet(r)
  PROVE  Local(r)' /\ OthersKeep(r)
  <1>0. TypeOK
    BY DEF TypeInv
  <1>1. pc[r] \in {"insert", "deactivate"} /\ UNCHANGED <<job, mutex, batches>>
    BY DEF InsertWallet, DeactivateWallet
  <1>2. /\ job[r].op = "next" /\ job[r].eid \in DOMAIN batches /\ mutex = r
        /\ job[r].new \in Keys /\ job[r].old \in Keys
        /\ job[r].todo \subseteq ActiveWallets(job[r].eid)
        /\ job[r].old \in ActiveWallets(job[r].eid) \ job[r].todo
    BY <1>1, JobFields DEF Runs, KeysGiven, Holds, Replaces
  <1>3. CASE InsertWallet(r)
    <2>1. pc'[r] = "deactivate" /\ wallets \subseteq wallets'
      BY <1>3, JobFields DEF InsertWallet, Goto, Inserted
    <2>2. ActiveWallets(job[r].eid) \subseteq ActiveWallets(job[r].eid)'
      BY <1>1, <2>1 DEF ActiveWallets
    <2>3. Replaces(r)'
      BY <1>1, <1>2, <2>1, <2>2 DEF Replaces, ActiveWallets
    <2>. QED BY <1>1, <1>2, <2>1, <2>3, JobFields DEF Local, PCs, Runs, KeysGiven, Holds, OthersKeep
  <1>4. CASE DeactivateWallet(r)
    <2>1. pc'[r] = "replace" /\ \A w \in wallets : w.addr # job[r].old => w \in wallets'
      BY <1>0, <1>4, JobFields, DeactivateIs DEF DeactivateWallet, Goto
    <2>2. ActiveWallets(job[r].eid) \ {job[r].old} \subseteq ActiveWallets(job[r].eid)'
      BY <1>1, <2>1 DEF ActiveWallets
    <2>3. Replaces(r)'
      BY <1>1, <1>2, <2>1, <2>2 DEF Replaces, ActiveWallets
    <2>. QED BY <1>1, <1>2, <2>1, <2>3, JobFields DEF Local, PCs, Runs, KeysGiven, Holds, OthersKeep
  <1>. QED BY <1>3, <1>4

\* Where a handler goes on after a transfer.
LEMMA LocalContinue ==
  ASSUME TypeInv, NEW r \in Requests, NEW label, Continue(r, label), pc[r] \in {"sweep", "await"},
         UNCHANGED <<wallets, batches>>,
         \/ label = "idle"
         \/ label = "setBoss" /\ job[r].op = "start"
         \/ label = "insert" /\ job[r].op = "next"
         \/ label \in {"recycle", "recheck"} /\ job[r].op = "end"
         \/ label = "wallet" /\ job[r].op = "generate"
  PROVE  Local(r)' /\ OthersKeep(r)
  <1>1. CASE label = "idle"
    <2>1. Return(r)
      BY <1>1 DEF Continue
    <2>. QED BY <2>1, LocalReturn
  <1>2. CASE label # "idle"
    <2>1. pc'[r] = label /\ UNCHANGED mutex
          /\ job'[r] = [job[r] EXCEPT !.index = IF label = "wallet" THEN @ + 1 ELSE @]
      BY <1>2, JobFields DEF Continue, Goto
    <2>2. (IF label = "wallet" THEN job[r].index + 1 ELSE job[r].index) \in Nat
      BY JobFields
    <2>3. /\ job'[r] \in Job /\ job'[r].op = job[r].op /\ job'[r].eid = job[r].eid
          /\ job'[r].old = job[r].old /\ job'[r].new = job[r].new /\ job'[r].todo = job[r].todo
      BY <2>1, <2>2, JobFields DEF Job
    <2>4. mutex = r
      BY <1>2, JobFields DEF Holds
    <2>5. Replaces(r)'
      BY <2>1, <2>3, JobFields DEF Replaces, ActiveWallets
    <2>6. Runs(r)' /\ KeysGiven(r)' /\ Holds(r)'
      BY <1>2, <2>1, <2>3, JobFields DEF Runs, KeysGiven, Holds
    <2>7. pc'[r] \in PCs
      BY <1>2, <2>1 DEF PCs
    <2>. QED BY <2>1, <2>3, <2>4, <2>5, <2>6, <2>7 DEF Local, OthersKeep
  <1>. QED BY <1>1, <1>2

LEMMA LocalSweep ==
  ASSUME TypeInv, NEW r \in Requests, Recycle(r) \/ Recheck(r) \/ Sweep(r) \/ Awaited(r) \/ ExecuteTrade(r)
  PROVE  Local(r)' /\ OthersKeep(r)
  <1>r. CASE Return(r)
    BY <1>r, LocalReturn
  <1>0. UNCHANGED <<wallets, batches>>
    BY DEF Recycle, Recheck, Sweep, Awaited, ExecuteTrade, tables
  <1>1. CASE Recycle(r) /\ ~Return(r)
    <2>1. PICK k \in job[r].todo : job' = [job EXCEPT ![r].todo = @ \ {k}, ![r].old = k]
      BY <1>1 DEF Recycle
    <2>2. pc[r] = "recycle" /\ pc'[r] = "sweep" /\ UNCHANGED mutex
          /\ job'[r] = [job[r] EXCEPT !.todo = @ \ {k}, !.old = k]
      BY <1>1, <2>1, JobFields DEF Recycle, Goto
    <2>3. job[r].op = "end" /\ job[r].eid \in DOMAIN batches /\ mutex = r /\ k \in Keys /\ job[r].new \in Keys
      BY <2>2, JobFields DEF Runs, KeysGiven, Holds
    <2>4. /\ job'[r] \in Job /\ job'[r].op = "end" /\ job'[r].eid = job[r].eid /\ job'[r].old = k
          /\ job'[r].new = job[r].new
      <3>1. job[r] \in Job /\ job[r].todo \ {k} \in SUBSET Keys
        BY JobFields
      <3>2. job'[r] \in Job
        BY <2>2, <2>3, <3>1 DEF Job
      <3>3. QED
        BY <2>2, <2>3, <3>1 DEF Job
    <2>. QED BY <1>0, <2>2, <2>3, <2>4 DEF Local, PCs, Runs, KeysGiven, Replaces, Holds, OthersKeep
  <1>2. CASE Recheck(r) /\ ~Return(r)
    <2>1. pc[r] = "recheck" /\ pc'[r] = "recycle" /\ UNCHANGED <<job, mutex>>
      BY <1>2, JobFields DEF Recheck, Goto
    <2>2. job[r].op = "end" /\ job[r].eid \in DOMAIN batches /\ mutex = r /\ job[r].new \in Keys
      BY <2>1, JobFields DEF Runs, KeysGiven, Holds
    <2>. QED BY <1>0, <2>1, <2>2, JobFields DEF Local, PCs, Runs, KeysGiven, Replaces, Holds, OthersKeep
  <1>3. CASE Sweep(r) /\ ~Return(r)
    <2>1. pc[r] = "sweep"
      BY <1>3 DEF Sweep
    <2>2. job[r].op \in {"start", "next", "end", "withdraw"} /\ job[r].old \in Keys
      BY <2>1, JobFields DEF Runs, KeysGiven
    <2>3. CASE job' = [job EXCEPT ![r].wait = {job[r].old}] /\ Goto(r, "await") /\ UNCHANGED mutex
      <3>1. pc'[r] = "await" /\ job'[r] = [job[r] EXCEPT !.wait = {job[r].old}]
        BY <2>3, JobFields DEF Goto
      <3>2. /\ job'[r] \in Job /\ job'[r].op = job[r].op /\ job'[r].eid = job[r].eid
            /\ job'[r].old = job[r].old /\ job'[r].new = job[r].new /\ job'[r].todo = job[r].todo
        BY <2>2, <3>1, JobFields DEF Job
      <3>3. Replaces(r)'
        BY <1>0, <2>1, <3>1, <3>2, JobFields DEF Replaces, ActiveWallets
      <3>4. Runs(r)' /\ KeysGiven(r)' /\ (Holds(r)' <=> Holds(r))
        BY <1>0, <2>1, <2>2, <3>1, <3>2, JobFields DEF Runs, KeysGiven, Holds
      <3>. QED BY <2>3, <3>1, <3>2, <3>3, <3>4, JobFields DEF Local, PCs, OthersKeep
    <2>4. CASE Continue(r, AfterDust(job[r].op))
      <3>1. \/ AfterDust(job[r].op) = "idle"
            \/ AfterDust(job[r].op) = "setBoss" /\ job[r].op = "start"
            \/ AfterDust(job[r].op) = "insert" /\ job[r].op = "next"
            \/ AfterDust(job[r].op) = "recycle" /\ job[r].op = "end"
        BY <2>2 DEF AfterDust
      <3>. QED BY <1>0, <2>1, <2>4, <3>1, LocalContinue
    <2>. QED BY <1>3, <2>3, <2>4 DEF Sweep
  <1>4. CASE Awaited(r) /\ ~Return(r)
    <2>1. pc[r] = "await" /\ Continue(r, AfterReceipt(job[r].op))
      BY <1>4 DEF Awaited
    <2>2. job[r].op \in {"start", "next", "end", "withdraw", "generate"}
      BY <2>1, JobFields DEF Runs
    <2>3. \/ AfterReceipt(job[r].op) = "idle"
          \/ AfterReceipt(job[r].op) = "setBoss" /\ job[r].op = "start"
          \/ AfterReceipt(job[r].op) = "insert" /\ job[r].op = "next"
          \/ AfterReceipt(job[r].op) = "recheck" /\ job[r].op = "end"
          \/ AfterReceipt(job[r].op) = "wallet" /\ job[r].op = "generate"
      BY <2>2 DEF AfterReceipt
    <2>. QED BY <1>0, <2>1, <2>3, LocalContinue
  <1>5. CASE ExecuteTrade(r)
    <2>1. pc[r] = "trade" /\ UNCHANGED <<pc, mutex>>
      BY <1>5 DEF ExecuteTrade
    <2>2. PICK k \in job[r].todo : \/ job' = [job EXCEPT ![r].todo = @ \ {k}, ![r].failed = TRUE]
                                   \/ job' = [job EXCEPT ![r].todo = @ \ {k}, ![r].wait = @ \cup {k}]
      BY <1>5 DEF ExecuteTrade
    <2>3. \/ job'[r] = [job[r] EXCEPT !.todo = @ \ {k}, !.failed = TRUE]
          \/ job'[r] = [job[r] EXCEPT !.todo = @ \ {k}, !.wait = @ \cup {k}]
      BY <2>2, JobFields
    <2>4. k \in Keys
      BY JobFields
    <2>5. job'[r] \in Job /\ job'[r].op = job[r].op /\ job'[r].eid = job[r].eid
      <3>1. CASE job'[r] = [job[r] EXCEPT !.todo = @ \ {k}, !.failed = TRUE]
        <4>1. PICK K \in SUBSET Keys, f \in BOOLEAN : job'[r] = [job[r] EXCEPT !.todo = K, !.failed = f]
          BY <3>1, JobFields
        <4>2. PICK j \in Job : j = job[r]
          BY JobFields
        <4>3. [j EXCEPT !.todo = K, !.failed = f] \in Job
              /\ [j EXCEPT !.todo = K, !.failed = f].op = j.op /\ [j EXCEPT !.todo = K, !.failed = f].eid = j.eid
          BY DEF Job
        <4>. QED BY <4>1, <4>2, <4>3
      <3>2. CASE job'[r] = [job[r] EXCEPT !.todo = @ \ {k}, !.wait = @ \cup {k}]
        <4>1. job[r].wait \cup {k} \in SUBSET Keys /\ job[r].todo \ {k} \in SUBSET Keys /\ job[r] \in Job
          BY <2>4, JobFields
        <4>. QED BY <3>2, <4>1 DEF Job
      <3>. QED BY <2>3, <3>1, <3>2
    <2>. QED BY <1>0, <2>1, <2>5, JobFields DEF Local, Runs, KeysGiven, Replaces, Holds, OthersKeep
  <1>. QED BY <1>r, <1>1, <1>2, <1>3, <1>4, <1>5

LEMMA LocalFail ==
  ASSUME TypeInv, NEW r \in Requests, Fail(r)
  PROVE  Local(r)' /\ OthersKeep(r)
  BY LocalReturn DEF Fail

LEMMA LocalMoves ==
  ASSUME TypeInv, [Next]_vars, NEW r \in Requests, Call(r) \/ Step(r) \/ Fail(r)
  PROVE  Local(r)' /\ OthersKeep(r)
  BY LocalCall, LocalLine, LocalStart, LocalWallets, LocalReplace, LocalSweep, LocalFail DEF Step

\* A request leaves the others where they are.
LEMMA OthersStay ==
  ASSUME TypeInv, NEW r \in Requests, Call(r) \/ Step(r) \/ Fail(r)
  PROVE  pc' = [pc EXCEPT ![r] = pc'[r]] /\ job' = [job EXCEPT ![r] = job'[r]]
  <1>0. job \in [Requests -> Job] /\ pc \in [Requests -> PCs]
    BY JobFields
  <1>1. CASE Call(r)
    <2>1. UNCHANGED <<pc, job>> \/ ((\E l : pc' = [pc EXCEPT ![r] = l]) /\ (\E j : job' = [job EXCEPT ![r] = j]))
      BY <1>1 DEF Call, AddLine, ImportBoss, DeleteLine, AutoSwap, Start, GenerateWallets, NextWallet, End,
        Withdraw, CheckToken, DeleteToken, Trade, Goto, Started
    <2>. QED BY <1>0, <2>1
  <1>2. CASE Step(r)
    <2>1. UNCHANGED pc \/ \E l : pc' = [pc EXCEPT ![r] = l]
      BY <1>2 DEF Step, AddBatch, CheckEmpty, DeleteRows, UpsertLine, ReadActiveBatch, CheckSwept,
        ChooseBoss, SetExecuteLineBoss, NewBatch, GenerateWallet, FundWallet, ReplaceWallet, InsertWallet,
        DeactivateWallet, Recycle, Recheck, Sweep, Awaited, TrackToken, ExecuteTrade, UpdateTokenStatus,
        Goto, Return, Continue, Funds
    <2>2. job' = [job EXCEPT ![r] = job'[r]]
      <3>1. CASE \/ AddBatch(r) \/ CheckEmpty(r) \/ DeleteRows(r) \/ UpsertLine(r) \/ ReadActiveBatch(r)
                 \/ CheckSwept(r) \/ SetExecuteLineBoss(r) \/ NewBatch(r) \/ GenerateWallet(r)
                 \/ FundWallet(r) \/ InsertWallet(r) \/ DeactivateWallet(r)
        BY <1>0, <3>1 DEF AddBatch, CheckEmpty, DeleteRows, UpsertLine, ReadActiveBatch, CheckSwept,
          SetExecuteLineBoss, NewBatch, GenerateWallet, FundWallet, InsertWallet,
          DeactivateWallet, Return, Done, Funds, NextIndex
      <3>2. CASE ChooseBoss(r)
        <4>1. UNCHANGED job \/ \E e \in Active : job' = [job EXCEPT ![r].old = Boss(e), ![r].new = made']
          BY <3>2 DEF ChooseBoss
        <4>. QED BY <1>0, <4>1
      <3>3. CASE ReplaceWallet(r) \/ Recycle(r) \/ Recheck(r)
        <4>1. \/ UNCHANGED job \/ Return(r)
              \/ \E k : job' = [job EXCEPT ![r].todo = @ \ {k}, ![r].old = k, ![r].new = made']
              \/ \E k : job' = [job EXCEPT ![r].todo = @ \ {k}, ![r].old = k]
          BY <3>3 DEF ReplaceWallet, Recycle, Recheck
        <4>. QED BY <1>0, <4>1 DEF Return
      <3>4. CASE Sweep(r) \/ Awaited(r) \/ TrackToken(r) \/ UpdateTokenStatus(r)
        <4>1. \/ Return(r) \/ (\E l : Continue(r, l))
              \/ job' = [job EXCEPT ![r].wait = {job[r].old}]
          BY <3>4 DEF Sweep, Awaited, TrackToken, UpdateTokenStatus
        <4>. QED BY <1>0, <4>1 DEF Return, Continue
      <3>5. CASE ExecuteTrade(r)
        <4>1. \E k : \/ job' = [job EXCEPT ![r].todo = @ \ {k}, ![r].failed = TRUE]
                     \/ job' = [job EXCEPT ![r].todo = @ \ {k}, ![r].wait = @ \cup {k}]
          BY <3>5 DEF ExecuteTrade
        <4>. QED BY <1>0, <4>1
      <3>. QED BY <1>2, <3>1, <3>2, <3>3, <3>4, <3>5 DEF Step
    <2>. QED BY <1>0, <2>1, <2>2
  <1>3. CASE Fail(r)
    BY <1>0, <1>3 DEF Fail, Return, Goto
  <1>. QED BY <1>1, <1>2, <1>3

\* So the others keep what they know.
LEMMA OthersSame ==
  ASSUME TypeInv, NEW r \in Requests, Call(r) \/ Step(r) \/ Fail(r), NEW q \in Requests, q # r
  PROVE  pc'[q] = pc[q] /\ job'[q] = job[q]
  BY OthersStay, JobFields

\* Only who holds the mutex changes the wallets.
LEMMA WalletsGuarded ==
  ASSUME TypeInv, NEW r \in Requests, Call(r) \/ Step(r) \/ Fail(r)
  PROVE  UNCHANGED wallets \/ mutex = r
  <1>1. UNCHANGED wallets \/ DeleteRows(r) \/ GenerateWallet(r) \/ InsertWallet(r) \/ DeactivateWallet(r)
    BY CallFrame, StepFrame, OtherFrame
  <1>2. UNCHANGED wallets \/ pc[r] \in {"checkEmpty", "wallet", "insert", "deactivate"}
    BY <1>1 DEF DeleteRows, GenerateWallet, InsertWallet, DeactivateWallet
  <1>. QED BY <1>2, JobFields DEF Runs, Holds

\* The answer of a mined transaction.
LEMMA AnswerIs ==
  ASSUME TypeInv, NEW k \in Keys, Mine(k), NEW r \in Requests, Head(pool[k]).by = r
  PROVE  \E j \in Job :
           /\ job' = [job EXCEPT ![r] = j]
           /\ \E f \in BOOLEAN : j = [job[r] EXCEPT !.wait = @ \ {k}, !.failed = f]
           /\ \A v \in {"op", "eid", "index", "todo", "old", "new", "qty", "task"} : j[v] = job[r][v]
  <1>1. PICK ok \in BOOLEAN : job' = Answer(Head(pool[k]), k, ok)
    BY DEF Mine
  <1>2. job' = [job EXCEPT ![r].wait = @ \ {k}, ![r].failed = @ \/ ~ok]
    BY <1>1, KeysNat DEF Answer
  <1>3. job' = [job EXCEPT ![r] = [job[r] EXCEPT !.wait = @ \ {k}, !.failed = @ \/ ~ok]]
    BY <1>2, JobFields
  <1>4. PICK f \in BOOLEAN : f = (job[r].failed \/ ~ok)
    OBVIOUS
  <1>5. job' = [job EXCEPT ![r] = [job[r] EXCEPT !.wait = @ \ {k}, !.failed = f]]
    BY <1>3, <1>4
  <1>6. PICK K \in SUBSET Keys : K = job[r].wait \ {k}
    BY JobFields
  <1>7. PICK j \in Job : j = job[r]
    BY JobFields
  <1>8. /\ [j EXCEPT !.wait = K, !.failed = f] \in Job
        /\ \A v \in {"op", "eid", "index", "todo", "old", "new", "qty", "task"} :
             [j EXCEPT !.wait = K, !.failed = f][v] = j[v]
    BY DEF Job
  <1>9. PICK n \in Job : n = [j EXCEPT !.wait = K, !.failed = f]
    BY <1>8
  <1>10. n = [job[r] EXCEPT !.wait = @ \ {k}, !.failed = f]
    BY <1>6, <1>7, <1>9
  <1>11. job' = [job EXCEPT ![r] = n]
    BY <1>5, <1>10
  <1>12. \A v \in {"op", "eid", "index", "todo", "old", "new", "qty", "task"} : n[v] = job[r][v]
    BY <1>7, <1>8, <1>9
  <1>. QED BY <1>10, <1>11, <1>12

LEMMA Answered ==
  ASSUME TypeInv, NEW k \in Keys, Mine(k)
  PROVE  /\ job' \in [Requests -> Job]
         /\ \A q \in Requests : Head(pool[k]).by # q => job'[q] = job[q]
         /\ \A q \in Requests :
              job'[q] = job[q] \/ \E f \in BOOLEAN : job'[q] = [job[q] EXCEPT !.wait = @ \ {k}, !.failed = f]
         /\ \A q \in Requests : \A v \in {"op", "eid", "index", "todo", "old", "new", "qty", "task"} :
              job'[q][v] = job[q][v]
  <1>0. pool[k] # <<>> /\ TypeOK /\ job \in [Requests -> Job]
    BY DEF Mine, TypeInv, TypeOK
  <1>1. Head(pool[k]).by \in Requests \cup {NoRequest}
    BY <1>0, TxTyped DEF Tx
  <1>2. CASE Head(pool[k]).by = NoRequest
    <2>1. job' = job
      BY <1>2 DEF Mine, Answer
    <2>. QED BY <1>0, <2>1
  <1>3. CASE Head(pool[k]).by \in Requests
    <2>1. PICK r \in Requests : Head(pool[k]).by = r
      BY <1>3
    <2>2. PICK j \in Job :
            /\ job' = [job EXCEPT ![r] = j]
            /\ \E f \in BOOLEAN : j = [job[r] EXCEPT !.wait = @ \ {k}, !.failed = f]
            /\ \A v \in {"op", "eid", "index", "todo", "old", "new", "qty", "task"} : j[v] = job[r][v]
      BY <2>1, AnswerIs
    <2>. QED BY <1>0, <2>1, <2>2
  <1>. QED BY <1>1, <1>2, <1>3

LEMMA TypeInit == Init => TypeInv
  <1>. SUFFICES ASSUME Init PROVE TypeInv
    OBVIOUS
  <1>1. NoJob \in Job
    BY NoJobTyped
  <1>2. batches \in Seq(Batch)
    <2>1. [boss |-> 1, status |-> "active", task |-> "pending"] \in Batch
      BY KeysNat DEF Batch
    <2>. QED BY <2>1 DEF Init
  <1>3. line \in Keys \cup {NoKey} /\ wallets \subseteq Wallet
    <2>1. [eid |-> 1, index |-> 0, addr |-> 2, active |-> TRUE] \in Wallet
      BY KeysNat DEF Wallet
    <2>. QED BY <2>1, KeysNat DEF Init
  <1>4. native \in [Keys -> Nat] /\ tokens \in [Keys -> Nat] /\ pool \in [Keys -> Seq(Tx)]
    BY KeysNat DEF Init
  <1>5. mutex \in Requests \cup {NoRequest} /\ pc \in [Requests -> PCs] /\ job \in [Requests -> Job]
    BY <1>1 DEF Init, PCs
  <1>6. TypeOK
    BY <1>2, <1>3, <1>4, <1>5, KeysNat DEF Init, TypeOK
  <1>7. ASSUME NEW r \in Requests PROVE Runs(r) /\ KeysGiven(r) /\ Replaces(r) /\ (mutex = r <=> Holds(r))
    <2>1. pc[r] = "idle" /\ job[r] = NoJob /\ mutex # r
      BY KeysNat DEF Init
    <2>2. job[r].op = "none"
      BY <2>1, NoJobTyped
    <2>. QED BY <2>1, <2>2 DEF Runs, KeysGiven, Replaces, Holds
  <1>. QED BY <1>6, <1>7 DEF TypeInv, MutexHeld

LEMMA TypeNext == TypeInv /\ [Next]_vars => TypeInv'
  <1>. SUFFICES ASSUME TypeInv, [Next]_vars
                PROVE  /\ pc' \in [Requests -> PCs] /\ job' \in [Requests -> Job]
                       /\ mutex' \in Requests \cup {NoRequest} /\ \A q \in Requests : Local(q)'
    BY TablesTyped, ChainTyped, KeysTyped, MadeTyped DEF TypeOK, Local, TypeInv, MutexHeld
  <1>0. TypeOK
    BY DEF TypeInv
  <1>1. ASSUME NEW r \in Requests, Call(r) \/ Step(r) \/ Fail(r)
        PROVE  /\ pc' \in [Requests -> PCs] /\ job' \in [Requests -> Job] /\ mutex' \in Requests \cup {NoRequest}
               /\ \A q \in Requests : Local(q)'
    <2>1. ASSUME NEW q \in Requests, q # r PROVE Local(q)'
      <3>1. pc'[q] = pc[q] /\ job'[q] = job[q] /\ (mutex = q <=> mutex' = q)
        BY <1>1, <2>1, OthersSame, LocalMoves DEF OthersKeep
      <3>2. DOMAIN batches \subseteq DOMAIN batches'
        BY TablesTyped
      <3>3. job[q].op = "next" => UNCHANGED wallets
        <4>1. job[q].op = "next" => mutex = q
          BY JobFields DEF Runs, Holds
        <4>. QED BY <1>1, <2>1, <4>1, WalletsGuarded
      <3>4. Replaces(q)'
        BY <3>1, <3>3, JobFields DEF Replaces, ActiveWallets
      <3>. QED BY <3>1, <3>2, <3>4, JobFields DEF Local, Runs, KeysGiven, Holds
    <2>2. \A q \in Requests : Local(q)'
      BY <1>1, <2>1, LocalMoves
    <2>3. mutex' \in Requests \cup {NoRequest}
      BY <1>0, <1>1 DEF Call, Step, Fail, AddLine, ImportBoss, DeleteLine, AutoSwap, Start, GenerateWallets,
        NextWallet, End, Withdraw, CheckToken, DeleteToken, Trade, TypeOK, Lock, AddBatch, CheckEmpty,
        DeleteRows, UpsertLine, ReadActiveBatch, CheckSwept, ChooseBoss, SetExecuteLineBoss, NewBatch,
        GenerateWallet, FundWallet, ReplaceWallet, InsertWallet, DeactivateWallet, Recycle, Recheck, Sweep,
        Awaited, TrackToken, ExecuteTrade, UpdateTokenStatus, Return, Continue, Released
    <2>4. pc'[r] \in PCs /\ job'[r] \in Job
      BY <2>2 DEF Local
    <2>5. pc' \in [Requests -> PCs] /\ job' \in [Requests -> Job]
      BY <1>1, <2>4, OthersStay, JobFields
    <2>. QED BY <2>2, <2>3, <2>5
  <1>2. ASSUME NEW k \in Keys, Mine(k)
        PROVE  /\ pc' \in [Requests -> PCs] /\ job' \in [Requests -> Job] /\ mutex' \in Requests \cup {NoRequest}
               /\ \A q \in Requests : Local(q)'
    <2>1. UNCHANGED <<pc, mutex, wallets, batches>>
      BY <1>2 DEF Mine, tables
    <2>2. ASSUME NEW q \in Requests PROVE Local(q)'
      <3>1. /\ job'[q] \in Job /\ job'[q].op = job[q].op /\ job'[q].eid = job[q].eid
            /\ job'[q].old = job[q].old /\ job'[q].new = job[q].new /\ job'[q].todo = job[q].todo
        BY <1>2, Answered
      <3>2. ActiveWallets(job[q].eid)' = ActiveWallets(job[q].eid)
        BY <2>1, <3>1 DEF ActiveWallets
      <3>3. Replaces(q)'
        BY <2>1, <3>1, <3>2, JobFields DEF Replaces
      <3>. QED BY <2>1, <3>1, <3>3, JobFields DEF Local, Runs, KeysGiven, Holds
    <2>. QED BY <1>0, <1>2, <2>1, <2>2, Answered DEF TypeOK
  <1>3. CASE Crash
    <2>1. /\ pc' = [q \in Requests |-> "idle"] /\ job' = [q \in Requests |-> NoJob] /\ mutex' = NoRequest
      BY <1>3 DEF Crash
    <2>2. \A q \in Requests : Local(q)'
      BY <2>1, NoJobTyped, KeysNat DEF Local, PCs, Runs, KeysGiven, Replaces, Holds
    <2>3. pc' \in [Requests -> PCs] /\ job' \in [Requests -> Job]
      BY <2>1, NoJobTyped DEF PCs
    <2>. QED BY <2>1, <2>2, <2>3
  <1>4. CASE UNCHANGED vars
    <2>1. UNCHANGED <<wallets, batches, pc, job, mutex>>
      BY <1>4 DEF vars, tables
    <2>2. \A q \in Requests : Local(q)'
      BY <2>1, JobFields DEF Local, Runs, KeysGiven, Replaces, Holds, ActiveWallets
    <2>. QED BY <1>0, <2>1, <2>2 DEF TypeOK
  <1>. QED BY <1>1, <1>2, <1>3, <1>4 DEF Next

LEMMA TypeInductive == Spec => []TypeInv
  BY TypeInit, TypeNext, PTL DEF Spec

(* Every variable keeps its type: the rows name generated keys, the mined     *)
(* transactions leave no negative balance, and executeMu is free or taken by  *)
(* a request that runs.                                                       *)
THEOREM TypeCorrect == Spec => []TypeOK
  <1>1. TypeInv => TypeOK
    BY DEF TypeInv
  <1>. QED BY <1>1, TypeInductive, PTL

-----------------------------------------------------------------------------
(* What a step does to the local variables.                                *)

\* The first local variables of a handler.
LEMMA CallJob ==
  ASSUME TypeInv, NEW r \in Requests, Call(r)
  PROVE  \/ UNCHANGED <<pc, job>>
         \/ AddLine(r) /\ job'[r].op = "addLine" /\ job'[r].new = made'
         \/ DeleteLine(r) /\ job'[r].op = "deleteLine" /\ job'[r].todo = KeptByLine
         \/ AutoSwap(r) /\ job'[r].op = "autoSwap" /\ job'[r].new = line
         \/ Start(r) /\ job'[r].op = "start" /\ job'[r].new = line
         \/ NextWallet(r) /\ job'[r].op = "next"
         \/ End(r) /\ job'[r].op = "end" /\ \E e \in Rows : /\ job'[r].eid = e /\ job'[r].new = Boss(e)
                                                           /\ job'[r].todo = Recycled(e)
         \/ Withdraw(r) /\ job'[r].op = "withdraw" /\ \E e \in Rows : job'[r].old = Boss(e) /\ job'[r].new = NoKey
         \/ GenerateWallets(r) /\ job'[r].op = "generate" /\ job'[r].eid \in Rows
         \/ CheckToken(r) /\ job'[r].op = "check"
         \/ Trade(r) /\ job'[r].op \in {"buy", "sell", "sellPart"} /\ \E e : job'[r].todo \subseteq ActiveWallets(e)
  <1>0. job \in [Requests -> Job]
    BY JobFields
  <1>1. CASE ImportBoss(r) \/ DeleteToken(r)
    BY <1>1 DEF ImportBoss, DeleteToken
  <1>2. CASE AddLine(r) \/ DeleteLine(r) \/ AutoSwap(r) \/ Start(r)
    <2>1. \/ AddLine(r) /\ job'[r] = [NoJob EXCEPT !.op = "addLine", !.new = made']
          \/ DeleteLine(r) /\ job'[r] = [NoJob EXCEPT !.op = "deleteLine", !.eid = 0, !.todo = KeptByLine]
          \/ AutoSwap(r) /\ job'[r] = [NoJob EXCEPT !.op = "autoSwap", !.new = line]
          \/ Start(r) /\ job'[r] = [NoJob EXCEPT !.op = "start", !.new = line]
      BY <1>0, <1>2 DEF AddLine, DeleteLine, AutoSwap, Start, Started
    <2>. QED BY <2>1 DEF NoJob
  <1>3. CASE GenerateWallets(r) \/ NextWallet(r) \/ CheckToken(r)
    <2>1. \/ GenerateWallets(r) /\ \E e \in Rows : job'[r] = [NoJob EXCEPT !.op = "generate", !.eid = e, !.todo = {}]
          \/ NextWallet(r) /\ \E e, W : job'[r] = [NoJob EXCEPT !.op = "next", !.eid = e, !.todo = W]
          \/ CheckToken(r) /\ \E e : job'[r] = [NoJob EXCEPT !.op = "check", !.eid = e, !.todo = {}]
      BY <1>0, <1>3 DEF GenerateWallets, NextWallet, CheckToken, Started
    <2>. QED BY <2>1 DEF NoJob
  <1>4. CASE End(r) \/ Withdraw(r)
    <2>1. \/ End(r) /\ \E e \in Rows :
               job'[r] = [NoJob EXCEPT !.op = "end", !.eid = e, !.new = Boss(e), !.todo = Recycled(e)]
          \/ Withdraw(r) /\ \E e \in Rows : job'[r] = [NoJob EXCEPT !.op = "withdraw", !.eid = e, !.old = Boss(e)]
      BY <1>0, <1>4 DEF End, Withdraw
    <2>. QED BY <2>1 DEF NoJob
  <1>5. CASE Trade(r)
    <2>1. PICK e \in Rows, op \in {"buy", "sell", "sellPart"} :
            LET able == {k \in ActiveWallets(e) : op = "buy" \/ tokens[k] > 0} IN
            \E W \in {able} \cup {{k} : k \in able} :
              job' = [job EXCEPT ![r] =
                [NoJob EXCEPT !.op = op, !.eid = e, !.todo = W, !.task = batches[e].task,
                   !.qty = [k \in Keys |-> IF k \in W THEN Amount(op, k) ELSE 0]]]
      BY <1>5 DEF Trade
    <2>. DEFINE able == {k \in ActiveWallets(e) : op = "buy" \/ tokens[k] > 0}
    <2>2. PICK W \in {able} \cup {{k} : k \in able} :
              job' = [job EXCEPT ![r] =
                [NoJob EXCEPT !.op = op, !.eid = e, !.todo = W, !.task = batches[e].task,
                   !.qty = [k \in Keys |-> IF k \in W THEN Amount(op, k) ELSE 0]]]
      BY <2>1
    <2>3. W \subseteq ActiveWallets(e)
      OBVIOUS
    <2>. HIDE DEF able
    <2>4. job'[r].op = op /\ job'[r].todo = W
      BY <1>0, <2>2, NoJobTyped DEF NoJob
    <2>. QED BY <1>5, <2>3, <2>4
  <1>. QED BY <1>1, <1>2, <1>3, <1>4, <1>5 DEF Call

\* What a step of a handler that goes on leaves alone.
LEMMA StepJob ==
  ASSUME TypeInv, NEW r \in Requests, Step(r)
  PROVE  \/ Return(r)
         \/ /\ job'[r].op = job[r].op /\ job'[r].eid = job[r].eid
            /\ ChooseBoss(r) \/ GenerateWallet(r) \/ ReplaceWallet(r) \/ job'[r].new = job[r].new
            /\ ChooseBoss(r) \/ ReplaceWallet(r) \/ Recycle(r) \/ job'[r].old = job[r].old
            /\ \/ ReadActiveBatch(r)
               \/ (CheckEmpty(r) \/ CheckSwept(r) \/ ReplaceWallet(r) \/ Recycle(r) \/ ExecuteTrade(r))
                  /\ \E k \in job[r].todo : job'[r].todo = job[r].todo \ {k}
               \/ job'[r].todo = job[r].todo
            /\ ExecuteTrade(r) \/ FundWallet(r) \/ Sweep(r) \/ job'[r].wait = job[r].wait
            /\ ExecuteTrade(r) \/ job'[r].failed = job[r].failed
  <1>0. job \in [Requests -> Job] /\ job[r] \in Job
    BY JobFields
  <1>1. CASE UNCHANGED job
    BY <1>0, <1>1
  <1>2. CASE CheckEmpty(r) \/ CheckSwept(r)
    <2>1. Return(r) \/ \E k \in job[r].todo : job'[r] = [job[r] EXCEPT !.todo = @ \ {k}]
      BY <1>0, <1>2 DEF CheckEmpty, CheckSwept, Done
    <2>. QED BY <1>0, <1>2, <2>1 DEF Job
  <1>3. CASE ReadActiveBatch(r)
    <2>1. \E T : job'[r] = [job[r] EXCEPT !.todo = T]
      BY <1>0, <1>3 DEF ReadActiveBatch
    <2>. QED BY <1>0, <1>3, <2>1 DEF Job
  <1>4. CASE ChooseBoss(r)
    <2>1. UNCHANGED job \/ \E a, b : job' = [job EXCEPT ![r].old = a, ![r].new = b]
      BY <1>4 DEF ChooseBoss
    <2>2. job'[r] = job[r] \/ \E a, b : job'[r] = [job[r] EXCEPT !.old = a, !.new = b]
      BY <1>0, <2>1
    <2>. QED BY <1>0, <1>4, <2>2 DEF Job
  <1>5. CASE GenerateWallet(r)
    <2>1. Return(r) \/ NextIndex(r) \/ \E k : Funds(r, k)
      BY <1>5 DEF GenerateWallet
    <2>2. Return(r) \/ (\E n : job'[r] = [job[r] EXCEPT !.index = n]) \/ \E k : job'[r] = [job[r] EXCEPT !.new = k]
      BY <1>0, <2>1 DEF NextIndex, Funds
    <2>. QED BY <1>0, <1>5, <2>2 DEF Job
  <1>6. CASE FundWallet(r)
    <2>1. \/ Return(r) \/ (\E n : job'[r] = [job[r] EXCEPT !.index = n])
          \/ \E W : job'[r] = [job[r] EXCEPT !.wait = W]
      BY <1>0, <1>6 DEF FundWallet, NextIndex
    <2>. QED BY <1>0, <1>6, <2>1 DEF Job
  <1>7. CASE ReplaceWallet(r)
    <2>1. Return(r) \/ \E k \in job[r].todo : \E n : job' = [job EXCEPT ![r].todo = @ \ {k}, ![r].old = k, ![r].new = n]
      BY <1>7 DEF ReplaceWallet
    <2>2. Return(r) \/ \E k \in job[r].todo : \E n : job'[r] = [job[r] EXCEPT !.todo = @ \ {k}, !.old = k, !.new = n]
      BY <1>0, <2>1
    <2>. QED BY <1>0, <1>7, <2>2 DEF Job
  <1>8. CASE Recycle(r)
    <2>1. Return(r) \/ \E k \in job[r].todo : job' = [job EXCEPT ![r].todo = @ \ {k}, ![r].old = k]
      BY <1>8 DEF Recycle
    <2>2. Return(r) \/ \E k \in job[r].todo : job'[r] = [job[r] EXCEPT !.todo = @ \ {k}, !.old = k]
      BY <1>0, <2>1
    <2>. QED BY <1>0, <1>8, <2>2 DEF Job
  <1>9. CASE Sweep(r) \/ Awaited(r)
    <2>1. \/ Return(r) \/ (\E n : job' = [job EXCEPT ![r].index = n])
          \/ Sweep(r) /\ \E W : job' = [job EXCEPT ![r].wait = W]
      BY <1>9 DEF Sweep, Awaited, Continue
    <2>2. \/ Return(r) \/ (\E n : job'[r] = [job[r] EXCEPT !.index = n])
          \/ Sweep(r) /\ \E W : job'[r] = [job[r] EXCEPT !.wait = W]
      BY <1>0, <2>1
    <2>. QED BY <1>0, <1>9, <2>2 DEF Job
  <1>10. CASE ExecuteTrade(r)
    <2>1. \E k \in job[r].todo : \/ job' = [job EXCEPT ![r].todo = @ \ {k}, ![r].failed = TRUE]
                                 \/ job' = [job EXCEPT ![r].todo = @ \ {k}, ![r].wait = @ \cup {k}]
      BY <1>10 DEF ExecuteTrade
    <2>2. \E k \in job[r].todo : \/ job'[r] = [job[r] EXCEPT !.todo = @ \ {k}, !.failed = TRUE]
                                 \/ job'[r] = [job[r] EXCEPT !.todo = @ \ {k}, !.wait = @ \cup {k}]
      BY <1>0, <2>1
    <2>. QED BY <1>0, <1>10, <2>2 DEF Job
  <1>11. CASE \/ AddBatch(r) \/ DeleteRows(r) \/ UpsertLine(r) \/ NewBatch(r) \/ TrackToken(r)
              \/ UpdateTokenStatus(r)
    BY <1>11 DEF AddBatch, DeleteRows, UpsertLine, NewBatch, TrackToken, UpdateTokenStatus
  <1>12. CASE \/ SetExecuteLineBoss(r) \/ InsertWallet(r) \/ DeactivateWallet(r) \/ Recheck(r)
    <2>1. UNCHANGED job \/ Return(r)
      BY <1>12 DEF SetExecuteLineBoss, InsertWallet, DeactivateWallet, Recheck
    <2>. QED BY <1>1, <2>1
  <1>. QED BY <1>2, <1>3, <1>4, <1>5, <1>6, <1>7, <1>8, <1>9, <1>10, <1>11, <1>12 DEF Step

LEMMA Returned == ASSUME TypeInv, NEW r \in Requests, Return(r) PROVE pc'[r] = "idle" /\ job'[r] = NoJob
  BY JobFields DEF Return, Goto

\* Where each step is taken.
LEMMA Guards ==
  ASSUME NEW r
  PROVE  /\ AddBatch(r) => pc[r] = "addBatch"
         /\ CheckEmpty(r) \/ DeleteRows(r) => pc[r] = "checkEmpty"
         /\ UpsertLine(r) => pc[r] = "upsert"
         /\ ReadActiveBatch(r) => pc[r] = "start"
         /\ CheckSwept(r) \/ ChooseBoss(r) => pc[r] = "checkSwept"
         /\ SetExecuteLineBoss(r) => pc[r] = "setBoss"
         /\ NewBatch(r) => pc[r] = "newBatch"
         /\ GenerateWallet(r) => pc[r] = "wallet"
         /\ FundWallet(r) => pc[r] = "fund"
         /\ ReplaceWallet(r) => pc[r] = "replace"
         /\ InsertWallet(r) => pc[r] = "insert"
         /\ DeactivateWallet(r) => pc[r] = "deactivate"
         /\ Recycle(r) => pc[r] = "recycle"
         /\ Recheck(r) => pc[r] = "recheck"
         /\ Sweep(r) => pc[r] = "sweep"
         /\ Awaited(r) => pc[r] = "await"
         /\ TrackToken(r) => pc[r] = "track"
         /\ ExecuteTrade(r) \/ UpdateTokenStatus(r) => pc[r] = "trade"
  BY DEF AddBatch, CheckEmpty, DeleteRows, UpsertLine, ReadActiveBatch, CheckSwept, ChooseBoss,
    SetExecuteLineBoss, NewBatch, GenerateWallet, FundWallet, ReplaceWallet, InsertWallet,
    DeactivateWallet, Recycle, Recheck, Sweep, Awaited, TrackToken, ExecuteTrade, UpdateTokenStatus

\* A new key is the last one made.
LEMMA MadeNew ==
  ASSUME TypeInv, NEW r \in Requests
  PROVE  /\ AddLine(r) \/ ImportBoss(r) \/ (ReplaceWallet(r) /\ ~Return(r)) => made' = made + 1
         /\ ChooseBoss(r) => UNCHANGED <<made, job>> \/ (made' = made + 1 /\ job'[r].new = made')
         /\ ReplaceWallet(r) /\ ~Return(r) => job'[r].new = made'
  <1>0. job \in [Requests -> Job]
    BY JobFields
  <1>1. AddLine(r) \/ ImportBoss(r) \/ (ReplaceWallet(r) /\ ~Return(r)) => made' = made + 1
    BY DEF AddLine, ImportBoss, ReplaceWallet
  <1>2. ASSUME ChooseBoss(r), ~UNCHANGED <<made, job>> PROVE made' = made + 1 /\ job'[r].new = made'
    <2>1. made' = made + 1 /\ \E e \in Active : job' = [job EXCEPT ![r].old = Boss(e), ![r].new = made']
      BY <1>2 DEF ChooseBoss
    <2>2. \E e \in Active : job'[r] = [job[r] EXCEPT !.old = Boss(e), !.new = made']
      BY <1>0, <2>1
    <2>. QED BY <1>0, <2>1, <2>2 DEF Job
  <1>3. ASSUME ReplaceWallet(r), ~Return(r) PROVE job'[r].new = made'
    <2>1. \E k \in job[r].todo : job' = [job EXCEPT ![r].todo = @ \ {k}, ![r].old = k, ![r].new = made']
      BY <1>3 DEF ReplaceWallet
    <2>2. \E k \in job[r].todo : job'[r] = [job[r] EXCEPT !.todo = @ \ {k}, !.old = k, !.new = made']
      BY <1>0, <2>1
    <2>. QED BY <1>0, <2>2 DEF Job
  <1>. QED BY <1>1, <1>2, <1>3

\* What the others do, and what is mined, leaves the keys of a request.
LEMMA KeepsJob ==
  ASSUME TypeInv, [Next]_vars, NEW q \in Requests
  PROVE  \/ pc'[q] = "idle" /\ job'[q] = NoJob
         \/ Call(q) \/ Step(q)
         \/ /\ pc'[q] = pc[q] /\ job'[q].op = job[q].op /\ job'[q].new = job[q].new /\ job'[q].old = job[q].old
            /\ job'[q].todo = job[q].todo /\ job'[q].eid = job[q].eid
  <1>1. ASSUME NEW r \in Requests, Call(r) \/ Step(r) \/ Fail(r), r # q
        PROVE  pc'[q] = pc[q] /\ job'[q] = job[q]
    BY <1>1, OthersSame
  <1>2. Fail(q) => pc'[q] = "idle" /\ job'[q] = NoJob
    BY Returned DEF Fail
  <1>3. Crash => pc'[q] = "idle" /\ job'[q] = NoJob
    BY DEF Crash
  <1>4. ASSUME NEW k \in Keys, Mine(k)
        PROVE  /\ pc'[q] = pc[q] /\ job'[q].op = job[q].op /\ job'[q].new = job[q].new /\ job'[q].old = job[q].old
               /\ job'[q].todo = job[q].todo /\ job'[q].eid = job[q].eid
    BY <1>4, Answered DEF Mine
  <1>. QED BY <1>1, <1>2, <1>3, <1>4 DEF Next, vars

\* A line key in hand is kept, read from the line, or made.
LEMMA LineInHand ==
  ASSUME TypeInv, [Next]_vars, NEW q \in Requests, job'[q].op \in {"addLine", "start", "autoSwap"}
  PROVE  \/ job[q].op \in {"addLine", "start", "autoSwap"} /\ job'[q].new = job[q].new
         \/ job'[q].new = line
         \/ (AddLine(q) \/ ChooseBoss(q)) /\ job'[q].new = made' /\ made' = made + 1
  <1>1. CASE Call(q)
    <2>1. AddLine(q) => made' = made + 1
      BY DEF AddLine
    <2>2. UNCHANGED job => job[q].op \in {"addLine", "start", "autoSwap"} /\ job'[q].new = job[q].new
      OBVIOUS
    <2>. QED BY <1>1, <2>1, <2>2, CallJob
  <1>2. CASE Step(q)
    <2>1. ~Return(q)
      BY Returned, NoJobTyped
    <2>2. GenerateWallet(q) \/ ReplaceWallet(q) => job[q].op \in {"generate", "next"}
      BY Guards, JobFields DEF Runs
    <2>. QED BY <1>2, <2>1, <2>2, StepJob, MadeNew
  <1>. QED BY <1>1, <1>2, KeepsJob, NoJobTyped

\* The replacement of a wallet is made, and kept until it is inserted.
LEMMA FreshInHand ==
  ASSUME TypeInv, [Next]_vars, NEW q \in Requests, Fresh(q)'
  PROVE  \/ Fresh(q) /\ job'[q].new = job[q].new /\ ~InsertWallet(q)
         \/ ReplaceWallet(q) /\ job'[q].new = made' /\ made' = made + 1
  <1>0. job'[q].op = "next" /\ pc'[q] \in {"sweep", "await", "insert"}
    BY DEF Fresh
  <1>1. CASE Call(q)
    <2>1. NextWallet(q) \/ UNCHANGED <<pc, job>>
      BY <1>0, <1>1, CallJob
    <2>2. NextWallet(q) => pc'[q] = "replace"
      BY JobFields DEF NextWallet, Goto
    <2>3. UNCHANGED <<pc, job>> => pc'[q] = "idle"
      BY <1>1, CallFrame
    <2>. QED BY <1>0, <2>1, <2>2, <2>3
  <1>2. CASE Step(q)
    <2>1. ~Return(q)
      BY <1>0, Returned, NoJobTyped
    <2>2. job[q].op = "next"
      BY <1>0, <1>2, <2>1, StepJob
    <2>3. pc[q] \in {"replace", "sweep", "await", "insert", "deactivate"}
      BY <2>2, JobFields DEF Runs
    <2>4. InsertWallet(q) \/ DeactivateWallet(q) => pc'[q] \in {"deactivate", "replace"}
      BY JobFields DEF InsertWallet, DeactivateWallet, Goto
    <2>5. CASE ReplaceWallet(q)
      BY <2>1, <2>5, MadeNew
    <2>6. CASE ~ReplaceWallet(q)
      <3>1. Sweep(q) \/ Awaited(q)
        BY <1>0, <1>2, <2>3, <2>4, <2>6, Guards DEF Step
      <3>2. Fresh(q) /\ ~InsertWallet(q)
        BY <2>2, <3>1, Guards DEF Fresh
      <3>. QED BY <1>2, <2>1, <2>6, <3>1, <3>2, StepJob, Guards
    <2>. QED BY <2>5, <2>6
  <1>3. CASE ~Call(q) /\ ~Step(q)
    <2>1. pc'[q] = pc[q] /\ job'[q].op = job[q].op /\ job'[q].new = job[q].new
      BY <1>0, <1>3, KeepsJob, NoJobTyped
    <2>. QED BY <1>0, <1>3, <2>1 DEF Fresh, Step
  <1>. QED BY <1>1, <1>2, <1>3

-----------------------------------------------------------------------------
(* Every key has one use.                                                  *)

\* At most one key is made, for a line or for a wallet.
LEMMA LinesGrow ==
  ASSUME TypeInv, [Next]_vars, NEW x \in LineKeys'
  PROVE  \/ x \in LineKeys \cup {NoKey}
         \/ /\ x = made' /\ made' = made + 1
            /\ \E r \in Requests : AddLine(r) \/ ImportBoss(r) \/ ChooseBoss(r)
  <1>0. TypeOK
    BY DEF TypeInv
  <1>1. line \in LineKeys /\ (\A e \in DOMAIN batches : Boss(e) \in LineKeys)
        /\ \A q \in Requests : job[q].op \in {"addLine", "start", "autoSwap"} => job[q].new \in LineKeys
    BY DEF LineKeys
  <1>2. CASE x = line'
    <2>1. ASSUME NEW r \in Requests, \/ AddBatch(r) \/ DeleteRows(r) \/ UpsertLine(r) \/ SetExecuteLineBoss(r)
          PROVE  line' \in {line, NoKey} \/ (line' = job[r].new /\ job[r].op \in {"addLine", "start", "autoSwap"})
      <3>1. line' \in {line, NoKey} \/ (line' = job[r].new /\ (UpsertLine(r) \/ SetExecuteLineBoss(r)))
        BY <2>1 DEF AddBatch, DeleteRows, UpsertLine, SetExecuteLineBoss
      <3>. QED BY <3>1, Guards, JobFields DEF Runs
    <2>2. \A r \in Requests : AddLine(r) \/ ImportBoss(r) => line' = made' /\ made' = made + 1
      BY DEF AddLine, ImportBoss
    <2>. QED BY <1>1, <1>2, <2>1, <2>2, CallFrame, StepFrame, OtherFrame DEF Next, vars, tables
  <1>3. ASSUME NEW e \in DOMAIN batches', x = batches'[e].boss PROVE x \in LineKeys
    <2>1. ASSUME NEW r \in Requests, pc[r] \in {"addBatch", "newBatch"}, batches' = WithBatch(job[r].new)
          PROVE  x \in LineKeys
      <3>1. /\ DOMAIN batches' = 1 .. Len(batches) + 1
            /\ Len(batches) \in Nat /\ DOMAIN batches = 1 .. Len(batches)
            /\ \A d \in DOMAIN batches : batches'[d] = Closed(batches[d])
            /\ batches'[Len(batches) + 1] = [boss |-> job[r].new, status |-> "active", task |-> "none"]
        BY <1>0, <2>1, WithBatchIs, BatchesSeq
      <3>2. \A d \in DOMAIN batches : Closed(batches[d]).boss = Boss(d)
        BY <1>0, BatchesSeq DEF Closed, Boss, Batch
      <3>3. job[r].new \in LineKeys
        BY <1>1, <2>1, JobFields DEF Runs
      <3>4. e \in DOMAIN batches \/ e = Len(batches) + 1
        BY <3>1
      <3>5. CASE e \in DOMAIN batches
        <4>1. batches'[e].boss = Boss(e)
          BY <3>1, <3>2, <3>5
        <4>. QED BY <1>1, <1>3, <3>5, <4>1
      <3>6. CASE e = Len(batches) + 1
        <4>1. batches'[e] = [boss |-> job[r].new, status |-> "active", task |-> "none"]
          BY <3>1, <3>6
        <4>. QED BY <1>3, <3>3, <4>1
      <3>. QED BY <3>4, <3>5, <3>6
    <2>2. DOMAIN batches' = DOMAIN batches /\ (\A d \in DOMAIN batches : batches'[d].boss = batches[d].boss)
          => x \in LineKeys
      BY <1>1, <1>3 DEF Boss
    <2>. QED BY <1>0, <2>1, <2>2, BatchesChange, DeleteRowsIs
  <1>4. ASSUME NEW q \in Requests, job'[q].op \in {"addLine", "start", "autoSwap"}, x = job'[q].new
        PROVE  \/ x \in LineKeys
               \/ x = made' /\ made' = made + 1 /\ \E r \in Requests : AddLine(r) \/ ChooseBoss(r)
    BY <1>1, <1>4, LineInHand
  <1>. QED BY <1>2, <1>3, <1>4 DEF LineKeys, Boss

LEMMA WalletsGrow ==
  ASSUME TypeInv, [Next]_vars, NEW x \in WalletKeys'
  PROVE  \/ x \in WalletKeys
         \/ /\ x = made' /\ made' = made + 1
            /\ \E r \in Requests : GenerateWallet(r) \/ ReplaceWallet(r)
  <1>0. TypeOK
    BY DEF TypeInv
  <1>1. Addrs \subseteq WalletKeys /\ \A q \in Requests : Fresh(q) => job[q].new \in WalletKeys
    BY DEF WalletKeys
  <1>2. CASE x \in Addrs'
    <2>1. ASSUME NEW r \in Requests, DeleteRows(r) \/ DeactivateWallet(r) PROVE x \in Addrs
      BY <1>0, <1>2, <2>1, DeactivateIs DEF DeleteRows, Addrs
    <2>2. UNCHANGED wallets => x \in Addrs
      BY <1>2 DEF Addrs
    <2>3. ASSUME NEW r \in Requests, NEW row \in Wallet, wallets' = wallets \cup {row}
          PROVE  x \in Addrs \/ x = row.addr
      BY <1>2, <2>3 DEF Addrs
    <2>4. ASSUME NEW r \in Requests, InsertWallet(r) PROVE Fresh(r)
      BY <2>4, Guards, JobFields DEF Fresh, Runs
    <2>. QED BY <1>1, <2>1, <2>2, <2>3, <2>4, WalletsChange
  <1>3. ASSUME NEW q \in Requests, Fresh(q)', x = job'[q].new
        PROVE  x \in WalletKeys \/ (x = made' /\ made' = made + 1 /\ ReplaceWallet(q))
    BY <1>1, <1>3, FreshInHand
  <1>. QED BY <1>2, <1>3 DEF WalletKeys

\* A new key is made in one place.
LEMMA OneMaker ==
  ASSUME TypeInv, NEW r \in Requests, NEW q \in Requests, [Next]_vars, made' = made + 1,
         AddLine(r) \/ ImportBoss(r) \/ ChooseBoss(r), GenerateWallet(q) \/ ReplaceWallet(q)
  PROVE  FALSE
  <1>0. made \in Nat
    BY KeysNat DEF TypeInv, TypeOK
  <1>1. r = q
    <2>1. AddLine(r) \/ ImportBoss(r) => mutex = NoRequest
      BY DEF AddLine, ImportBoss, Lock, MayEnter
    <2>2. ChooseBoss(r) => mutex = r
      BY Guards, JobFields DEF Runs, Holds
    <2>3. mutex = q
      BY Guards, JobFields DEF Runs, Holds
    <2>. QED BY <2>1, <2>2, <2>3, KeysNat
  <1>2. AddLine(r) \/ ImportBoss(r) => pc[r] = "idle"
    BY DEF AddLine, ImportBoss, Begin
  <1>. QED BY <1>1, <1>2, Guards

LEMMA KeyUseInit == Init => KeyUse
  <1>. SUFFICES ASSUME Init PROVE KeyUse
    OBVIOUS
  <1>1. line = 1 /\ Addrs = {2} /\ made = 2 /\ imported = {} /\ discarded = {}
    BY DEF Init, Addrs
  <1>2. \A r \in Requests : job[r].op = "none"
    BY NoJobTyped DEF Init
  <1>3. WalletKeys = {2}
    BY <1>1, <1>2 DEF WalletKeys, Fresh
  <1>4. LineKeys = {1}
    <2>1. DOMAIN batches = {1} /\ Boss(1) = 1
      BY DEF Init, Boss
    <2>. QED BY <1>1, <1>2, <2>1 DEF LineKeys
  <1>5. \A w, v \in wallets : w.addr = v.addr => w = v
    BY DEF Init
  <1>6. \A r \in Requests : ~Fresh(r)
    BY <1>2 DEF Fresh
  <1>. QED BY <1>1, <1>3, <1>4, <1>5, <1>6 DEF KeyUse

LEMMA KeyUseNext == TypeInv /\ KeyUse /\ [Next]_vars => KeyUse'
  <1>. SUFFICES ASSUME TypeInv, KeyUse, [Next]_vars PROVE KeyUse'
    OBVIOUS
  <1>0. TypeOK /\ made \in Nat /\ made' \in Nat /\ made <= made' /\ made' <= made + 1
    BY MadeTyped, KeysNat DEF TypeInv, TypeOK
  <1>1. /\ \A k \in LineKeys \cup WalletKeys \cup imported \cup discarded : k <= made /\ k \in Nat
        /\ WalletKeys \subseteq Keys
    <2>1. LineKeys \subseteq Nat
      <3>1. line \in Nat /\ \A r \in Requests : job[r].new \in Nat
        <4>1. Keys \cup {NoKey} \subseteq Nat
          BY KeysNat DEF NoKey
        <4>2. line \in Keys \cup {NoKey} /\ \A r \in Requests : job[r].new \in Keys \cup {NoKey}
          BY <1>0, JobFields DEF TypeOK
        <4>. QED BY <4>1, <4>2
      <3>2. \A e \in DOMAIN batches : Boss(e) \in Nat
        BY <1>0, KeysNat, BatchesSeq
      <3>. QED BY <3>1, <3>2 DEF LineKeys
    <2>2. WalletKeys \subseteq Keys
      <3>1. \A r \in Requests : Fresh(r) => job[r].new \in Keys
        BY JobFields DEF Fresh, KeysGiven
      <3>2. Addrs \subseteq Keys
        BY <1>0, AddrsTyped
      <3>. QED BY <3>1, <3>2 DEF WalletKeys
    <2>3. imported \cup discarded \subseteq Nat
      BY <1>0, KeysNat DEF TypeOK
    <2>. QED BY <2>1, <2>2, <2>3, KeysNat DEF KeyUse
  <1>2. (LineKeys \cap WalletKeys)' = {}
    <2>1. ASSUME NEW x \in LineKeys', x \in WalletKeys' PROVE FALSE
      <3>1. made + 1 \notin LineKeys \cup WalletKeys \cup {NoKey} /\ NoKey \notin WalletKeys
        BY <1>0, <1>1, KeysNat DEF NoKey
      <3>2. x \in LineKeys \cup {NoKey} \/ (x = made + 1 /\ made' = made + 1)
        BY LinesGrow
      <3>3. x \in WalletKeys \/ (x = made + 1 /\ made' = made + 1)
        BY <2>1, WalletsGrow
      <3>4. CASE x = made + 1
        <4>1. PICK r \in Requests : AddLine(r) \/ ImportBoss(r) \/ ChooseBoss(r)
          BY <3>1, <3>4, LinesGrow
        <4>2. PICK q \in Requests : GenerateWallet(q) \/ ReplaceWallet(q)
          BY <2>1, <3>1, <3>4, WalletsGrow
        <4>3. made' = made + 1
          BY <3>1, <3>2, <3>4
        <4>. QED BY <4>1, <4>2, <4>3, OneMaker
      <3>. QED BY <3>1, <3>2, <3>3, <3>4 DEF KeyUse
    <2>. QED BY <2>1
  <1>3. ASSUME NEW k \in LineKeys' \cup WalletKeys' \cup imported' \cup discarded' PROVE k <= made'
    <2>1. k \in LineKeys' \cup WalletKeys' => k \in LineKeys \cup WalletKeys \cup {NoKey} \/ k = made'
      BY LinesGrow, WalletsGrow
    <2>2. k \in imported' => k \in imported \/ k = made'
      <3>1. \A r \in Requests : AddLine(r) \/ ImportBoss(r) => imported' \subseteq imported \cup {made'}
        BY DEF AddLine, ImportBoss
      <3>. QED BY <3>1, CallFrame, StepFrame, OtherFrame DEF Next, vars, keys
    <2>3. k \in discarded' => k \in discarded \cup LineKeys \cup WalletKeys
      <3>1. Stored \subseteq LineKeys \cup WalletKeys
        BY <1>0, BatchesSeq DEF Stored, LineKeys, WalletKeys, Addrs
      <3>2. \A r \in Requests : DeleteRows(r) => discarded' = discarded \cup Stored
        BY DEF DeleteRows
      <3>. QED BY <3>1, <3>2, CallFrame, StepFrame, OtherFrame DEF Next, vars, keys
    <2>4. NoKey <= made'
      BY <1>0 DEF NoKey
    <2>. QED BY <1>0, <1>1, <2>1, <2>2, <2>3, <2>4
  <1>4. ASSUME NEW w \in wallets', NEW v \in wallets', w.addr = v.addr PROVE w = v
    <2>0. \A x, y \in wallets : x.addr = y.addr => x = y
      BY DEF KeyUse
    <2>1. ASSUME NEW r \in Requests, DeactivateWallet(r) PROVE w = v
      <3>1. wallets' = {IF x.addr = job[r].old THEN [x EXCEPT !.active = FALSE] ELSE x : x \in wallets}
        BY <2>1 DEF DeactivateWallet
      <3>2. \A x \in wallets : [x EXCEPT !.active = FALSE].addr = x.addr
        BY <1>0 DEF TypeOK, Wallet
      <3>3. PICK x \in wallets : w = IF x.addr = job[r].old THEN [x EXCEPT !.active = FALSE] ELSE x
        BY <3>1
      <3>4. PICK y \in wallets : v = IF y.addr = job[r].old THEN [y EXCEPT !.active = FALSE] ELSE y
        BY <3>1
      <3>5. x = y
        BY <1>4, <2>0, <3>2, <3>3, <3>4
      <3>. QED BY <3>3, <3>4, <3>5
    <2>2. ASSUME NEW r \in Requests, NEW row \in Wallet, wallets' = wallets \cup {row}, row.addr \notin Addrs
          PROVE  w = v
      BY <1>4, <2>0, <2>2 DEF Addrs
    <2>3. \A r \in Requests : InsertWallet(r) => job[r].new \notin Addrs
      BY Guards, JobFields DEF Runs, Fresh, KeyUse
    <2>4. made + 1 \notin Addrs
      BY <1>0, <1>1 DEF WalletKeys
    <2>. QED BY <1>4, <2>0, <2>1, <2>2, <2>3, <2>4, WalletsChange DEF DeleteRows
  <1>5. ASSUME NEW r \in Requests, Fresh(r)', job'[r].new \in Addrs' PROVE FALSE
    <2>1. Fresh(r) => job[r].new \notin Addrs /\ job[r].new # made + 1
      BY <1>0, <1>1 DEF KeyUse, WalletKeys
    <2>2. made + 1 \notin Addrs
      BY <1>0, <1>1 DEF WalletKeys
    <2>3. job'[r].new \notin Addrs
      BY <2>1, <2>2, <1>5, FreshInHand
    <2>4. mutex = r
      BY <1>5, FreshInHand, Guards, JobFields DEF Fresh, Runs, Holds
    <2>5. ASSUME NEW q \in Requests, GenerateWallet(q) \/ InsertWallet(q)
          PROVE  q = r
      BY <2>4, <2>5, Guards, JobFields DEF Runs, Holds
    <2>6. ~InsertWallet(r) /\ (GenerateWallet(r) => Fresh(r) /\ job'[r].new = job[r].new)
      BY <1>5, FreshInHand, Guards
    <2>7. ASSUME NEW q \in Requests, DeleteRows(q) \/ DeactivateWallet(q) PROVE Addrs' \subseteq Addrs
      BY <1>0, <2>7, DeactivateIs DEF DeleteRows, Addrs
    <2>8. \A row : wallets' = wallets \cup {row} => Addrs' \subseteq Addrs \cup {row.addr}
      BY DEF Addrs
    <2>9. UNCHANGED wallets => Addrs' = Addrs
      BY DEF Addrs
    <2>. QED BY <1>5, <2>1, <2>3, <2>5, <2>6, <2>7, <2>8, <2>9, WalletsChange
  <1>. QED BY <1>2, <1>3, <1>4, <1>5 DEF KeyUse

-----------------------------------------------------------------------------
(* One active wallet per index.                                            *)

\* Faults are counted, and a request that fails is one.
LEMMA NoFaultYet ==
  ASSUME TypeInv, [Next]_vars, faults' = 0
  PROVE  faults = 0 /\ ~Crash /\ \A r \in Requests : ~Fail(r)
  <1>0. faults \in Nat
    BY KeysNat DEF TypeInv, TypeOK
  <1>1. UNCHANGED faults \/ Fault
    BY CallFrame, StepFrame, OtherFrame DEF Next, vars, bounds
  <1>2. ~Fault
    BY <1>0 DEF Fault
  <1>. QED BY <1>1, <1>2 DEF Fail, Crash

\* A request at a step that it does not take is still there.
LEMMA StaysAt ==
  ASSUME TypeInv, [Next]_vars, NEW q \in Requests, pc[q] # "idle", ~Step(q), ~Fail(q), ~Crash
  PROVE  /\ pc'[q] = pc[q] /\ job'[q].op = job[q].op /\ job'[q].new = job[q].new /\ job'[q].old = job[q].old
         /\ job'[q].todo = job[q].todo /\ job'[q].eid = job[q].eid
  <1>1. ~Call(q)
    BY CallFrame
  <1>2. ASSUME NEW r \in Requests, Call(r) \/ Step(r) \/ Fail(r)
        PROVE  pc'[q] = pc[q] /\ job'[q] = job[q]
    BY <1>1, <1>2, OthersSame
  <1>3. ASSUME NEW k \in Keys, Mine(k)
        PROVE  /\ pc'[q] = pc[q] /\ job'[q].op = job[q].op /\ job'[q].new = job[q].new /\ job'[q].old = job[q].old
               /\ job'[q].todo = job[q].todo /\ job'[q].eid = job[q].eid
    BY <1>3, Answered DEF Mine
  <1>. QED BY <1>2, <1>3 DEF Next, vars

LEMMA ActiveOnceInit == Init => ActiveOnce
  BY DEF Init, ActiveOnce

LEMMA ActiveOnceNext == TypeInv /\ KeyUse /\ ActiveOnce /\ [Next]_vars => ActiveOnce'
  <1>. SUFFICES ASSUME TypeInv, KeyUse, ActiveOnce, [Next]_vars, faults' = 0,
                       NEW w \in wallets', NEW v \in wallets',
                       w.active, v.active, w.eid = v.eid, w.index = v.index, w # v
                PROVE  \E r \in Requests : pc'[r] = "deactivate" /\ {w.addr, v.addr} = {job'[r].old, job'[r].new}
    BY DEF ActiveOnce
  <1>0. TypeOK
    BY DEF TypeInv
  <1>1. faults = 0 /\ ~Crash /\ \A r \in Requests : ~Fail(r)
    BY NoFaultYet
  <1>2. ASSUME NEW x \in wallets, NEW y \in wallets, x.active, y.active, x.eid = y.eid, x.index = y.index, x # y
        PROVE  \E r \in Requests : /\ pc[r] = "deactivate" /\ mutex = r
                                   /\ {x.addr, y.addr} = {job[r].old, job[r].new}
    BY SMTT(30), <1>1, <1>2, JobFields DEF ActiveOnce, Runs, Holds
  \* Two that were there: the request is where it was.
  <1>3. ASSUME w \in wallets, v \in wallets, \A r \in Requests : ~DeactivateWallet(r)
        PROVE  \E r \in Requests : pc'[r] = "deactivate" /\ {w.addr, v.addr} = {job'[r].old, job'[r].new}
    <2>1. PICK r \in Requests : pc[r] = "deactivate" /\ {w.addr, v.addr} = {job[r].old, job[r].new}
      BY <1>2, <1>3
    <2>2. ~Step(r)
      BY <1>3, <2>1, Guards DEF Step
    <2>. QED BY <1>1, <2>1, <2>2, StaysAt
  \* A new one has a place of its own, or takes that of the one to be switched off.
  <1>4. ASSUME NEW r \in Requests, InsertWallet(r), NEW row \in Wallet, NEW x \in wallets, x.active,
               row.eid = job[r].eid, row.addr = job[r].new, row.index = IndexOf(job[r].old),
               x.eid = row.eid, x.index = row.index
        PROVE  pc'[r] = "deactivate" /\ {row.addr, x.addr} = {job'[r].old, job'[r].new}
    <2>1. pc[r] = "insert" /\ pc'[r] = "deactivate" /\ UNCHANGED job
      BY <1>4, JobFields DEF InsertWallet, Goto
    <2>2. mutex = r /\ job[r].old \in ActiveWallets(job[r].eid)
      BY <2>1, JobFields DEF Runs, Holds, Replaces
    <2>3. PICK y \in wallets : y.eid = job[r].eid /\ y.active /\ y.addr = job[r].old
      BY <2>2 DEF ActiveWallets
    <2>4. IndexOf(job[r].old) = y.index
      BY <2>3 DEF IndexOf, KeyUse
    <2>5. x = y
      BY <1>2, <1>4, <2>1, <2>2, <2>3, <2>4
    <2>. QED BY <1>4, <2>1, <2>3, <2>5
  <1>5. ASSUME NEW r \in Requests, DeactivateWallet(r) PROVE FALSE
    <2>1. PICK x \in wallets : IF x.addr = job[r].old THEN ~w.active ELSE w = x
      BY <1>0, <1>5, DeactivateIs
    <2>2. PICK y \in wallets : IF y.addr = job[r].old THEN ~v.active ELSE v = y
      BY <1>0, <1>5, DeactivateIs
    <2>3. w = x /\ v = y /\ w.addr # job[r].old /\ v.addr # job[r].old
      BY <2>1, <2>2
    <2>4. PICK q \in Requests : /\ pc[q] = "deactivate" /\ mutex = q
                                /\ {w.addr, v.addr} = {job[q].old, job[q].new}
      BY <1>2, <2>3
    <2>5. q = r
      BY <1>5, <2>4, Guards, JobFields DEF Runs, Holds
    <2>. QED BY <2>3, <2>4, <2>5
  <1>6. CASE \E r \in Requests, row \in Wallet :
               /\ wallets' = wallets \cup {row} /\ row.eid = job[r].eid /\ row.active
               /\ \/ /\ GenerateWallet(r) /\ At(row.eid, row.index) = {} /\ row.addr = made + 1
                     /\ made' = made + 1
                  \/ InsertWallet(r) /\ row.addr = job[r].new /\ row.index = IndexOf(job[r].old)
    <2>1. PICK r \in Requests, row \in Wallet :
               /\ wallets' = wallets \cup {row} /\ row.eid = job[r].eid
               /\ \/ GenerateWallet(r) /\ At(row.eid, row.index) = {}
                  \/ InsertWallet(r) /\ row.addr = job[r].new /\ row.index = IndexOf(job[r].old)
      BY <1>6
    <2>2. CASE w \in wallets /\ v \in wallets
      BY <1>3, <1>5, <2>2
    <2>3. CASE w = row /\ v \in wallets
      <3>1. InsertWallet(r)
        BY <2>1, <2>3 DEF At
      <3>2. v \in wallets /\ v.active /\ v.eid = row.eid /\ v.index = row.index
        BY <2>3
      <3>3. row.eid = job[r].eid /\ row.addr = job[r].new /\ row.index = IndexOf(job[r].old)
        BY <2>1, <2>3 DEF At
      <3>4. pc'[r] = "deactivate" /\ {row.addr, v.addr} = {job'[r].old, job'[r].new}
        BY <1>4, <3>1, <3>2, <3>3
      <3>. QED BY <2>3, <3>4
    <2>4. CASE v = row /\ w \in wallets
      <3>1. InsertWallet(r)
        BY <2>1, <2>4 DEF At
      <3>2. w \in wallets /\ w.active /\ w.eid = row.eid /\ w.index = row.index
        BY <2>4
      <3>3. row.eid = job[r].eid /\ row.addr = job[r].new /\ row.index = IndexOf(job[r].old)
        BY <2>1, <2>4 DEF At
      <3>4. pc'[r] = "deactivate" /\ {row.addr, w.addr} = {job'[r].old, job'[r].new}
        BY <1>4, <3>1, <3>2, <3>3
      <3>. QED BY <2>4, <3>4
    <2>. QED BY <2>1, <2>2, <2>3, <2>4
  <1>7. \A r \in Requests : DeleteRows(r) => wallets' = {}
    BY DEF DeleteRows
  <1>. QED BY <1>3, <1>5, <1>6, <1>7, WalletsChange

LEMMA KeysInductive == Spec => [](TypeInv /\ KeyUse /\ ActiveOnce)
  <1>1. Init => TypeInv /\ KeyUse /\ ActiveOnce
    BY TypeInit, KeyUseInit, ActiveOnceInit
  <1>2. TypeInv /\ KeyUse /\ ActiveOnce /\ [Next]_vars => (TypeInv /\ KeyUse /\ ActiveOnce)'
    BY TypeNext, KeyUseNext, ActiveOnceNext
  <1>. QED BY <1>1, <1>2, PTL DEF Spec

(* As long as no request has failed, an index of a batch has one active       *)
(* wallet whenever executeMu is free: the two of nextWallet, between the      *)
(* insert of the new row and the update of the old one, are seen by nobody    *)
(* who takes the mutex.                                                       *)
THEOREM OneActive == Spec => []OneActiveWallet
  <1>1. TypeInv /\ ActiveOnce => OneActiveWallet
    <2>1. ASSUME TypeInv, mutex = NoRequest, NEW r \in Requests PROVE pc[r] # "deactivate"
      BY <2>1, JobFields, KeysNat DEF Runs, Holds
    <2>. QED BY <2>1 DEF ActiveOnce, OneActiveWallet
  <1>. QED BY <1>1, KeysInductive, PTL

-----------------------------------------------------------------------------
(* deleteLine and end look at every wallet.                                *)

\* Who holds the mutex sees the tables change by its own steps only.
LEMMA Guarded ==
  ASSUME TypeInv, [Next]_vars, NEW r \in Requests, mutex = r, ~Step(r), ~Fail(r), ~Crash
  PROVE  /\ UNCHANGED wallets /\ credited \subseteq credited' /\ DOMAIN batches' = DOMAIN batches
         /\ \A e \in DOMAIN batches : /\ batches'[e].boss = batches[e].boss
                                      /\ batches'[e].status = batches[e].status
         /\ \A x \in Keys : native'[x] <= native[x] \/ x \in credited'
  <1>0. TypeOK /\ mutex # NoRequest
    BY KeysNat DEF TypeInv
  <1>1. ASSUME NEW q \in Requests, \/ AddBatch(q) \/ NewBatch(q) \/ DeleteRows(q) \/ GenerateWallet(q)
                                  \/ InsertWallet(q) \/ DeactivateWallet(q)
        PROVE  FALSE
    <2>1. mutex = q
      BY <1>1, Guards, JobFields DEF Runs, Holds
    <2>. QED BY <1>1, <2>1 DEF Step
  <1>2. UNCHANGED wallets
    BY <1>1, WalletsChange
  <1>3. credited \subseteq credited'
    <2>1. \A q \in Requests : DeleteLine(q) \/ End(q) => mutex = NoRequest
      BY DEF DeleteLine, End, Lock, MayEnter
    <2>. QED BY <1>0, <2>1, CallFrame, StepFrame, OtherFrame, MineChain DEF Next, vars
  <1>4. /\ DOMAIN batches' = DOMAIN batches
        /\ \A e \in DOMAIN batches : /\ batches'[e].boss = batches[e].boss
                                     /\ batches'[e].status = batches[e].status
    BY <1>1, BatchesChange
  <1>5. \A x \in Keys : native'[x] <= native[x] \/ x \in credited'
    <2>1. \A x \in Keys : native[x] <= native[x]
      BY <1>0, KeysNat DEF TypeOK
    <2>. QED BY <2>1, CallFrame, StepFrame, OtherFrame, MineChain DEF Next, vars, chain
  <1>. QED BY <1>2, <1>3, <1>4, <1>5

LEMMA SameTables ==
  ASSUME UNCHANGED wallets, DOMAIN batches' = DOMAIN batches,
         \A e \in DOMAIN batches : /\ batches'[e].boss = batches[e].boss
                                  /\ batches'[e].status = batches[e].status
  PROVE  /\ Rows' = Rows /\ Active' = Active /\ \A e \in Rows : Boss(e)' = Boss(e)
         /\ \A e \in Active : Boss(e)' = Boss(e)
         /\ \A e : ActiveWallets(e)' = ActiveWallets(e) /\ WalletsOf(e)' = WalletsOf(e)
  <1>1. Rows' = Rows
    BY DEF Rows
  <1>2. Active' = Active
    BY <1>1 DEF Active, Rows
  <1>3. (\A e \in Rows : Boss(e)' = Boss(e)) /\ \A e \in Active : Boss(e)' = Boss(e)
    BY DEF Active, Rows, Boss
  <1>4. ASSUME NEW e PROVE ActiveWallets(e)' = ActiveWallets(e) /\ WalletsOf(e)' = WalletsOf(e)
    BY DEF ActiveWallets, WalletsOf
  <1>. QED BY <1>1, <1>2, <1>3, <1>4

LEMMA EmptyNext == TypeInv /\ EmptySoFar /\ [Next]_vars => EmptySoFar'
  <1>. SUFFICES ASSUME TypeInv, EmptySoFar, [Next]_vars, NEW r \in Requests, pc'[r] = "checkEmpty",
                       NEW e \in Active', NEW k \in {Boss(e)'} \cup ActiveWallets(e)'
                PROVE  k \in job'[r].todo \/ native'[k] = 0 \/ k \in credited'
    BY DEF EmptySoFar
  <1>0. TypeOK
    BY DEF TypeInv
  <1>1. CASE DeleteLine(r)
    <2>1. UNCHANGED <<batches, wallets>> /\ job'[r].todo = KeptByLine
      BY <1>1, JobFields, NoJobTyped DEF DeleteLine, tables, Started, NoJob
    <2>2. Active' = Active /\ Boss(e)' = Boss(e) /\ ActiveWallets(e)' = ActiveWallets(e)
      BY <2>1, SameTables
    <2>. QED BY <2>1, <2>2 DEF KeptByLine
  <1>2. CASE CheckEmpty(r)
    <2>1. PICK x \in job[r].todo : IF native[x] > 0 THEN Return(r) ELSE Done(r, x)
      BY <1>2 DEF CheckEmpty
    <2>2. ~Return(r)
      BY Returned
    <2>3. job'[r] = [job[r] EXCEPT !.todo = @ \ {x}] /\ ~(native[x] > 0) /\ x \in Keys
      BY <2>1, <2>2, JobFields DEF Done
    <2>4. job'[r].todo = job[r].todo \ {x} /\ native[x] = 0
      BY <1>0, <2>3, JobFields DEF Job, TypeOK
    <2>5. UNCHANGED <<batches, wallets, native, credited>> /\ pc[r] = "checkEmpty"
      BY <1>2 DEF CheckEmpty, tables, chain
    <2>6. Active' = Active /\ Boss(e)' = Boss(e) /\ ActiveWallets(e)' = ActiveWallets(e)
      BY <2>5, SameTables
    <2>. QED BY <2>4, <2>5, <2>6 DEF EmptySoFar
  <1>3. CASE ~DeleteLine(r) /\ ~CheckEmpty(r)
    <2>1. ~Fail(r) /\ ~Crash
      BY Returned DEF Fail, Crash
    <2>2. ~Step(r)
      <3>1. ASSUME Step(r) PROVE FALSE
        <4>1. ~Return(r)
          BY Returned
        <4>2. job'[r].op = job[r].op /\ job'[r].op = "deleteLine"
          <5>1. job'[r].op = job[r].op
            BY <3>1, <4>1, StepJob
          <5>2. Runs(r)'
            BY TypeNext DEF TypeInv
          <5>. QED BY <5>1, <5>2 DEF Runs
        <4>3. pc[r] = "checkEmpty"
          BY <3>1, <4>2, Guards, JobFields DEF Runs, Step
        <4>4. DeleteRows(r)
          BY <1>3, <3>1, <4>3, Guards DEF Step
        <4>. QED BY <4>1, <4>4 DEF DeleteRows
      <3>. QED BY <3>1
    <2>3. ~Call(r)
      <3>1. ASSUME Call(r) PROVE FALSE
        <4>1. Runs(r)' /\ pc[r] = "idle"
          BY <3>1, CallFrame, TypeNext DEF TypeInv
        <4>2. job'[r].op = "deleteLine"
          BY <4>1 DEF Runs
        <4>. QED BY <1>3, <3>1, <4>1, <4>2, CallJob
      <3>. QED BY <3>1
    <2>4. pc[r] = "checkEmpty" /\ job'[r].todo = job[r].todo
      BY <2>1, <2>2, <2>3, KeepsJob
    <2>5. mutex = r
      BY <2>4, JobFields DEF Runs, Holds
    <2>9. Active' = Active /\ Boss(e)' = Boss(e) /\ ActiveWallets(e)' = ActiveWallets(e)
      BY <2>1, <2>2, <2>5, Guarded, SameTables
    <2>10. k \in Keys
      BY <1>0, <2>9, BatchesSeq, AddrsTyped
    <2>6. credited \subseteq credited' /\ (native'[k] <= native[k] \/ k \in credited')
      BY <2>1, <2>2, <2>5, <2>10, Guarded
    <2>7. native[k] \in Nat /\ native'[k] \in Nat
      BY <1>0, <2>10, ChainTyped DEF TypeOK
    <2>8. k \in job[r].todo \/ native[k] = 0 \/ k \in credited
      BY <2>4, <2>9 DEF EmptySoFar
    <2>. QED BY <2>4, <2>6, <2>7, <2>8
  <1>. QED BY <1>1, <1>2, <1>3

LEMMA EmptyInductive == Spec => [](TypeInv /\ EmptySoFar)
  <1>1. Init => EmptySoFar
    BY DEF Init, EmptySoFar
  <1>. QED BY <1>1, TypeInit, TypeNext, EmptyNext, PTL DEF Spec

(* deleteLine deletes the rows of a line only after it has seen the boss and  *)
(* every active wallet of its active batch empty; what one of them holds by   *)
(* then was paid after the check began, as a withdraw or a trade beside the   *)
(* mutex may do.                                                              *)
THEOREM DeletedLinesEmpty == Spec => DeletedEmpty
  <1>1. ASSUME TypeInv, EmptySoFar, [Next]_vars, discarded' # discarded,
               NEW e \in Active, NEW k \in {Boss(e)} \cup ActiveWallets(e)
        PROVE  native[k] = 0 \/ k \in credited
    <2>1. PICK r \in Requests : DeleteRows(r)
      <3>1. \A r \in Requests : Call(r) => UNCHANGED discarded
        BY CallFrame
      <3>. QED BY <1>1, <3>1, StepFrame, OtherFrame DEF Next, vars, keys
    <2>2. pc[r] = "checkEmpty" /\ job[r].todo = {}
      BY <2>1 DEF DeleteRows
    <2>. QED BY <1>1, <2>2 DEF EmptySoFar
  <1>2. TypeInv /\ EmptySoFar /\ [Next]_vars =>
          [discarded' # discarded => \A e \in Active : \A k \in {Boss(e)} \cup ActiveWallets(e) :
             native[k] = 0 \/ k \in credited]_vars
    BY <1>1
  <1>. QED BY <1>2, EmptyInductive, PTL DEF Spec, DeletedEmpty

LEMMA DustNext == TypeInv /\ KeyUse /\ DustSoFar /\ [Next]_vars => DustSoFar'
  <1>. SUFFICES ASSUME TypeInv, KeyUse, DustSoFar, [Next]_vars, NEW r \in Requests, job'[r].op = "end",
                       NEW k \in WalletsOf(job[r].eid)'
                PROVE  \/ k \in job'[r].todo \/ native'[k] <= Gas \/ k \in credited'
                       \/ pc'[r] # "recycle" /\ k = job'[r].old
    BY DEF DustSoFar
  <1>0. TypeOK /\ NoJob.op = "none"
    BY NoJobTyped DEF TypeInv
  <1>1. CASE Call(r)
    <2>0. pc[r] = "idle" /\ job[r].op = "none"
      BY <1>1, CallFrame, JobFields DEF Runs
    <2>1. PICK e \in Rows : End(r) /\ job'[r].eid = e /\ job'[r].todo = Recycled(e)
      BY <1>1, <2>0, CallJob
    <2>2. WalletsOf(job[r].eid)' = WalletsOf(e)
      BY <2>1 DEF End, tables, WalletsOf
    <2>3. Boss(e) \notin WalletsOf(e)
      <3>1. e \in DOMAIN batches /\ WalletsOf(e) \subseteq Addrs
        BY <1>0, BatchesSeq, ActiveAddrs
      <3>. QED BY <3>1 DEF KeyUse, LineKeys, WalletKeys
    <2>. QED BY <2>1, <2>2, <2>3 DEF Recycled
  <1>2. CASE Step(r)
    <2>0. ~Return(r)
      BY <1>0, Returned
    <2>1. job[r].op = "end" /\ job'[r].eid = job[r].eid
      BY <1>2, <2>0, StepJob
    <2>2. pc[r] \in {"recycle", "recheck", "sweep", "await"}
      BY <2>1, JobFields DEF Runs
    <2>3. Recycle(r) \/ Recheck(r) \/ Sweep(r) \/ Awaited(r)
      BY <1>2, <2>2, Guards DEF Step
    <2>4. UNCHANGED <<wallets, batches, native, credited>>
      BY <2>3 DEF Recycle, Recheck, Sweep, Awaited, tables, chain
    <2>5. WalletsOf(job[r].eid)' = WalletsOf(job[r].eid)
      BY <2>1, <2>4 DEF WalletsOf
    <2>6. \/ k \in job[r].todo \/ native[k] <= Gas \/ k \in credited
          \/ pc[r] # "recycle" /\ k = job[r].old
      BY <2>1, <2>5 DEF DustSoFar
    <2>7. CASE Recycle(r)
      <3>1. pc[r] = "recycle" /\ pc'[r] = "sweep"
        BY <2>0, <2>7, JobFields DEF Recycle, Goto
      <3>2. PICK x \in job[r].todo : job' = [job EXCEPT ![r].todo = @ \ {x}, ![r].old = x]
        BY <2>0, <2>7 DEF Recycle
      <3>3. job'[r] = [job[r] EXCEPT !.todo = @ \ {x}, !.old = x] /\ job[r] \in Job
        BY <3>2, JobFields
      <3>4. job'[r].todo = job[r].todo \ {x} /\ job'[r].old = x
        BY <3>3 DEF Job
      <3>. QED BY <2>4, <2>6, <3>1, <3>4
    <2>8. CASE Recheck(r) \/ Sweep(r) \/ Awaited(r)
      <3>1. job'[r].todo = job[r].todo /\ job'[r].old = job[r].old
        BY <1>2, <2>0, <2>8, StepJob, Guards
      <3>2. pc'[r] = "recycle" => native[job[r].old] <= Gas
        <4>1. native[job[r].old] \in Nat /\ Gas \in Nat
          <5>1. pc[r] \in {"recheck", "sweep", "await"}
            BY <2>8, Guards
          <5>2. job[r].old \in Keys
            BY <2>1, <5>1, JobFields DEF KeysGiven
          <5>. QED BY <1>0, <5>2, KeysNat DEF TypeOK
        <4>2. CASE Recheck(r)
          BY <2>0, <4>1, <4>2 DEF Recheck
        <4>3. CASE Sweep(r)
          <5>1. native[job[r].old] - Gas <= 0 \/ pc'[r] = "await"
            BY <2>1, <4>3, JobFields DEF Sweep, Goto
          <5>. QED BY <4>1, <5>1
        <4>4. CASE Awaited(r)
          BY <2>0, <2>1, <4>4, JobFields DEF Awaited, Continue, AfterReceipt, Goto
        <4>. QED BY <2>8, <4>2, <4>3, <4>4
      <3>. QED BY <2>4, <2>6, <3>1, <3>2
    <2>. QED BY <2>3, <2>7, <2>8
  <1>3. CASE ~Call(r) /\ ~Step(r)
    <2>1. ~Fail(r) /\ ~Crash
      BY <1>0, Returned DEF Fail, Crash
    <2>2. /\ pc'[r] = pc[r] /\ job[r].op = "end" /\ job'[r].todo = job[r].todo /\ job'[r].old = job[r].old
          /\ job'[r].eid = job[r].eid
      BY <1>0, <1>3, KeepsJob
    <2>3. mutex = r
      BY <2>2, JobFields DEF Runs, Holds
    <2>4. UNCHANGED wallets
      BY <1>3, <2>1, <2>3, Guarded
    <2>5. WalletsOf(job[r].eid)' = WalletsOf(job[r].eid)
      BY <2>2, <2>4 DEF WalletsOf
    <2>6. k \in Keys
      BY <1>0, <2>5, AddrsTyped
    <2>7. credited \subseteq credited' /\ (native'[k] <= native[k] \/ k \in credited')
      BY <1>3, <2>1, <2>3, <2>6, Guarded
    <2>8. native[k] \in Nat /\ native'[k] \in Nat /\ Gas \in Nat
      BY <1>0, <2>6, ChainTyped, KeysNat DEF TypeOK
    <2>9. \/ k \in job[r].todo \/ native[k] <= Gas \/ k \in credited
          \/ pc[r] # "recycle" /\ k = job[r].old
      BY <2>2, <2>5 DEF DustSoFar
    <2>. QED BY <2>2, <2>7, <2>8, <2>9
  <1>. QED BY <1>1, <1>2, <1>3

LEMMA DustInductive == Spec => [](TypeInv /\ KeyUse /\ DustSoFar)
  <1>1. Init => DustSoFar
    BY NoJobTyped DEF Init, DustSoFar
  <1>. QED BY <1>1, TypeInit, TypeNext, KeyUseInit, KeyUseNext, DustNext, PTL DEF Spec

(* When end returns without an error, every wallet of the batch, replaced     *)
(* ones included, holds no more than a fee, unless it was paid while end ran. *)
THEOREM EndSweeps == Spec => EndLeavesDust
  <1>1. TypeInv /\ DustSoFar =>
          [\A r \in Requests : pc[r] = "recycle" /\ job[r].todo = {} /\ faults' = faults /\ pc'[r] = "idle"
             => \A k \in WalletsOf(job[r].eid) : native[k] <= Gas \/ k \in credited]_vars
    <2>1. ASSUME TypeInv, DustSoFar, NEW r \in Requests, pc[r] = "recycle", job[r].todo = {},
                 NEW k \in WalletsOf(job[r].eid)
          PROVE  native[k] <= Gas \/ k \in credited
      <3>1. job[r].op = "end"
        BY <2>1, JobFields DEF Runs
      <3>. QED BY <2>1, <3>1 DEF DustSoFar
    <2>. QED BY <2>1
  <1>. QED BY <1>1, DustInductive, PTL DEF EndLeavesDust

-----------------------------------------------------------------------------
(* No key is lost.                                                         *)

LEMMA FundsNow ==
  ASSUME TypeInv, [Next]_vars, FundsInv, faults' = 0
  PROVE  /\ faults = 0 /\ ~Crash /\ ~Fault /\ \A r \in Requests : ~Fail(r)
         /\ Accounted /\ OwnTxs /\ Waits /\ LinesKnown /\ SourcesKnown /\ FreshUnknown
  <1>1. faults = 0 /\ ~Crash /\ \A r \in Requests : ~Fail(r)
    BY NoFaultYet
  <1>2. ~Fault
    BY <1>1 DEF Fault
  <1>. QED BY <1>1, <1>2 DEF FundsInv

LEMMA BossKept == ASSUME TypeInv, [Next]_vars, NEW e \in DOMAIN batches PROVE e \in DOMAIN batches' /\ Boss(e)' = Boss(e)
  <1>0. TypeOK
    BY DEF TypeInv
  <1>1. ASSUME NEW boss, batches' = WithBatch(boss) PROVE batches'[e].boss = batches[e].boss
    <2>1. batches'[e] = Closed(batches[e])
      BY <1>0, <1>1, WithBatchIs
    <2>. QED BY <1>0, <2>1, BatchesSeq DEF Closed, Batch
  <1>2. batches'[e].boss = batches[e].boss
    BY <1>0, <1>1, BatchesChange, DeleteRowsIs
  <1>. QED BY <1>2, TablesTyped DEF Boss

\* What is known stays known: the keys of a deleted line are discarded.
LEMMA KnownGrows == ASSUME TypeInv, [Next]_vars PROVE Known \subseteq Known'
  <1>0. TypeOK
    BY DEF TypeInv
  <1>1. imported \subseteq imported'
    <2>1. \A r \in Requests : AddLine(r) \/ ImportBoss(r) => imported \subseteq imported'
      BY DEF AddLine, ImportBoss
    <2>. QED BY <2>1, CallFrame, StepFrame, OtherFrame DEF Next, vars, keys
  <1>2. discarded \subseteq discarded'
    <2>1. \A r \in Requests : DeleteRows(r) => discarded \subseteq discarded'
      BY DEF DeleteRows
    <2>. QED BY <2>1, CallFrame, StepFrame, OtherFrame DEF Next, vars, keys
  <1>3. ASSUME NEW r \in Requests, DeleteRows(r) PROVE Bosses \cup Addrs \subseteq discarded'
    <2>1. discarded' = discarded \cup Stored
      BY <1>3 DEF DeleteRows
    <2>2. NoKey \notin Bosses \cup Addrs
      BY <1>0, KeysNat, BatchesSeq, AddrsTyped DEF Bosses
    <2>3. Bosses \cup Addrs \subseteq Stored
      BY <2>2 DEF Bosses, Addrs, Stored
    <2>. QED BY <2>1, <2>3
  <1>4. Bosses \subseteq Bosses' \cup discarded'
    <2>1. ASSUME NEW boss, batches' = WithBatch(boss), NEW e \in Rows PROVE Boss(e) \in Bosses'
      <3>1. e \in DOMAIN batches /\ batches[e].status # "deleted" /\ batches[e] \in Batch
        BY <1>0, BatchesSeq DEF Rows
      <3>2. batches'[e] = Closed(batches[e])
        BY <1>0, <2>1, <3>1, WithBatchIs
      <3>3. batches'[e].status # "deleted"
        BY <3>1, <3>2 DEF Closed, Batch
      <3>4. e \in Rows' /\ Boss(e)' = Boss(e)
        BY <3>1, <3>3, BossKept DEF Rows
      <3>. QED BY <3>4 DEF Bosses
    <2>2. ASSUME UNCHANGED batches \/ /\ DOMAIN batches' = DOMAIN batches
                                      /\ \A e \in DOMAIN batches : /\ batches'[e].boss = batches[e].boss
                                                                   /\ batches'[e].status = batches[e].status
          PROVE  Bosses \subseteq Bosses'
      BY <2>2 DEF Bosses, Rows, Boss
    <2>3. (\A e \in Rows : Boss(e) \in Bosses') => Bosses \subseteq Bosses'
      BY DEF Bosses
    <2>. QED BY <1>3, <2>1, <2>2, <2>3, BatchesChange
  <1>5. Addrs \subseteq Addrs' \cup discarded'
    <2>1. \A row : wallets' = wallets \cup {row} => Addrs \subseteq Addrs'
      BY DEF Addrs
    <2>2. UNCHANGED wallets => Addrs \subseteq Addrs'
      BY DEF Addrs
    <2>. QED BY <1>0, <1>3, <2>1, <2>2, WalletsChange, DeactivateIs
  <1>. QED BY <1>1, <1>2, <1>4, <1>5 DEF Known

LEMMA KnownSame ==
  ASSUME UNCHANGED <<wallets, imported, discarded>>, DOMAIN batches' = DOMAIN batches,
         \A e \in DOMAIN batches : /\ batches'[e].boss = batches[e].boss
                                   /\ batches'[e].status = batches[e].status
  PROVE  Known' = Known /\ Bosses' = Bosses /\ Addrs' = Addrs
  BY SameTables DEF Known, Bosses, Addrs

\* Nobody else makes a key known while a request holds the mutex.
LEMMA KnownKept ==
  ASSUME TypeInv, [Next]_vars, NEW r \in Requests, mutex = r, ~Step(r), ~Fail(r), ~Crash
  PROVE  Known' = Known
  <1>1. UNCHANGED imported
    <2>1. \A q \in Requests : AddLine(q) \/ ImportBoss(q) => mutex = NoRequest
      BY DEF AddLine, ImportBoss, Lock, MayEnter
    <2>. QED BY <2>1, KeysNat, CallFrame, StepFrame, OtherFrame DEF Next, vars, keys
  <1>2. UNCHANGED discarded
    <2>1. ASSUME NEW q \in Requests, DeleteRows(q) PROVE FALSE
      <3>1. mutex = q
        BY <2>1, Guards, JobFields DEF Runs, Holds
      <3>. QED BY <2>1, <3>1 DEF Step
    <2>. QED BY <2>1, CallFrame, StepFrame, OtherFrame DEF Next, vars, keys
  <1>. QED BY <1>1, <1>2, Guarded, KnownSame

\* Where the handlers begin.
LEMMA CallAt ==
  ASSUME TypeInv, NEW r \in Requests
  PROVE  /\ AddLine(r) => pc'[r] = "addBatch"
         /\ AutoSwap(r) => pc'[r] = "upsert"
         /\ Start(r) => pc'[r] = "start"
         /\ NextWallet(r) => pc'[r] = "replace"
         /\ End(r) => pc'[r] = "recycle"
         /\ Withdraw(r) => pc'[r] = "sweep"
         /\ GenerateWallets(r) => pc'[r] = "wallet"
         /\ CheckToken(r) => pc'[r] = "track"
         /\ Trade(r) => pc'[r] = "trade"
  BY JobFields DEF AddLine, AutoSwap, Start, NextWallet, End, Withdraw, GenerateWallets, CheckToken, Trade, Goto

\* Where each step leads.
LEMMA StepTo ==
  ASSUME TypeInv, NEW r \in Requests, ~Return(r)
  PROVE  /\ CheckEmpty(r) \/ CheckSwept(r) \/ ExecuteTrade(r) => pc'[r] = pc[r]
         /\ ReadActiveBatch(r) => pc'[r] = "checkSwept"
         /\ ChooseBoss(r) => IF Active = {} THEN pc'[r] = "setBoss" ELSE pc'[r] = "sweep"
         /\ SetExecuteLineBoss(r) => pc'[r] = "newBatch"
         /\ GenerateWallet(r) => pc'[r] \in {"fund", "wallet"}
         /\ FundWallet(r) => pc'[r] \in {"await", "wallet"}
         /\ ReplaceWallet(r) \/ Recycle(r) => pc'[r] = "sweep"
         /\ InsertWallet(r) => pc'[r] = "deactivate"
         /\ DeactivateWallet(r) => pc'[r] = "replace"
         /\ Recheck(r) => pc'[r] = "recycle"
         /\ Sweep(r) => pc'[r] \in {"await", "setBoss", "insert", "recycle"}
         /\ Awaited(r) => pc'[r] \in {"setBoss", "insert", "recheck", "wallet"}
         /\ ~AddBatch(r) /\ ~DeleteRows(r) /\ ~UpsertLine(r) /\ ~NewBatch(r)
         /\ ~TrackToken(r) /\ ~UpdateTokenStatus(r)
  <1>0. pc \in [Requests -> PCs]
    BY JobFields
  <1>1. Sweep(r) => pc'[r] \in {"await", "setBoss", "insert", "recycle"}
    <2>1. Sweep(r) => job[r].op \in {"start", "next", "end", "withdraw"}
      BY Guards, JobFields DEF Runs
    <2>2. Sweep(r) => pc'[r] = "await" \/ Continue(r, AfterDust(job[r].op))
      BY <1>0 DEF Sweep, Goto
    <2>. QED BY <1>0, <2>1, <2>2 DEF Continue, AfterDust, Goto
  <1>2. Awaited(r) => pc'[r] \in {"setBoss", "insert", "recheck", "wallet"}
    <2>1. Awaited(r) => job[r].op \in {"start", "next", "end", "withdraw", "generate"}
      BY Guards, JobFields DEF Runs
    <2>. QED BY <1>0, <2>1 DEF Awaited, Continue, AfterReceipt, Goto
  <1>3. GenerateWallet(r) => pc'[r] \in {"fund", "wallet"}
    BY <1>0 DEF GenerateWallet, Funds, Goto
  <1>4. CheckEmpty(r) \/ CheckSwept(r) \/ ExecuteTrade(r) => pc'[r] = pc[r]
    BY <1>0 DEF CheckEmpty, CheckSwept, ExecuteTrade
  <1>5. /\ ReadActiveBatch(r) => pc'[r] = "checkSwept"
        /\ ChooseBoss(r) => IF Active = {} THEN pc'[r] = "setBoss" ELSE pc'[r] = "sweep"
        /\ SetExecuteLineBoss(r) => pc'[r] = "newBatch"
        /\ FundWallet(r) => pc'[r] \in {"await", "wallet"}
    BY <1>0 DEF ReadActiveBatch, ChooseBoss, SetExecuteLineBoss, FundWallet, Goto
  <1>6. /\ ReplaceWallet(r) \/ Recycle(r) => pc'[r] = "sweep"
        /\ InsertWallet(r) => pc'[r] = "deactivate"
        /\ DeactivateWallet(r) => pc'[r] = "replace"
        /\ Recheck(r) => pc'[r] = "recycle"
    BY <1>0 DEF ReplaceWallet, Recycle, InsertWallet, DeactivateWallet, Recheck, Goto
  <1>7. /\ ~AddBatch(r) /\ ~DeleteRows(r) /\ ~UpsertLine(r) /\ ~NewBatch(r)
        /\ ~TrackToken(r) /\ ~UpdateTokenStatus(r)
    BY DEF AddBatch, DeleteRows, UpsertLine, NewBatch, TrackToken, UpdateTokenStatus
  <1>. QED BY <1>1, <1>2, <1>3, <1>4, <1>5, <1>6, <1>7

\* The wallet to be funded has a row.
LEMMA FundedHasRow ==
  ASSUME TypeInv, NEW r \in Requests, GenerateWallet(r), pc'[r] = "fund"
  PROVE  job'[r].new \in Addrs'
  <1>0. TypeOK /\ job \in [Requests -> Job] /\ ~Return(r)
    BY JobFields, Returned DEF TypeInv
  <1>1. \/ Funds(r, made') /\ \E e, i : wallets' = wallets \cup {[eid |-> e, index |-> i, addr |-> made', active |-> TRUE]}
        \/ \E e, i : UNCHANGED wallets /\ At(e, i) # {} /\ Funds(r, Newest(At(e, i)).addr)
    <2>1. pc[r] = "wallet"
      BY Guards
    <2>2. ~(NextIndex(r) /\ UNCHANGED pc)
      BY <2>1
    <2>. QED BY <1>0, <2>2 DEF GenerateWallet
  <1>2. ASSUME NEW k, Funds(r, k) PROVE job'[r].new = k
    BY <1>0, <1>2 DEF Funds, Job
  <1>3. CASE Funds(r, made') /\ \E e, i : wallets' = wallets \cup {[eid |-> e, index |-> i, addr |-> made', active |-> TRUE]}
    <2>1. PICK e, i : wallets' = wallets \cup {[eid |-> e, index |-> i, addr |-> made', active |-> TRUE]}
      BY <1>3
    <2>2. PICK row \in wallets' : row = [eid |-> e, index |-> i, addr |-> made', active |-> TRUE]
      BY <2>1
    <2>3. row.addr = made'
      BY <2>2
    <2>4. made' \in Addrs'
      BY <2>3 DEF Addrs
    <2>. QED BY <1>2, <1>3, <2>4
  <1>4. ASSUME NEW e, NEW i, UNCHANGED wallets, At(e, i) # {}, Funds(r, Newest(At(e, i)).addr)
        PROVE  job'[r].new \in Addrs'
    <2>1. At(e, i) \in SUBSET Wallet /\ At(e, i) \subseteq wallets
      BY <1>0 DEF At, TypeOK
    <2>2. Newest(At(e, i)) \in At(e, i)
      BY <1>4, <2>1, NewestIn
    <2>3. Newest(At(e, i)).addr \in Addrs
      BY <2>1, <2>2 DEF Addrs
    <2>4. Addrs' = Addrs
      BY <1>4 DEF Addrs
    <2>. QED BY <1>2, <1>4, <2>3, <2>4
  <1>. QED BY <1>1, <1>3, <1>4

LEMMA KnownParts ==
  ASSUME TypeInv
  PROVE  /\ \A e \in Rows : Boss(e) \in Known
         /\ \A e : ActiveWallets(e) \subseteq Known /\ WalletsOf(e) \subseteq Known /\ Recycled(e) \subseteq Known
         /\ Addrs \subseteq Known
  BY ActiveAddrs DEF Known, Bosses, Recycled

LEMMA SourcesNext == TypeInv /\ SourcesKnown /\ [Next]_vars => SourcesKnown'
  <1>. SUFFICES ASSUME TypeInv, SourcesKnown, [Next]_vars, NEW r \in Requests
                PROVE  /\ pc'[r] = "sweep" => job'[r].old \in Known'
                       /\ job'[r].op \in {"next", "end", "buy", "sell", "sellPart"} => job'[r].todo \subseteq Known'
                       /\ job'[r].op = "generate" => batches'[job'[r].eid].boss \in Known'
                       /\ job'[r].op = "end" \/ pc'[r] = "fund" => job'[r].new \in Known'
                       /\ job'[r].op = "withdraw" => job'[r].new = NoKey
    BY DEF SourcesKnown, Boss
  <1>0. Known \subseteq Known' /\ NoJob.op = "none" /\ TypeOK
    BY KnownGrows, NoJobTyped DEF TypeInv
  <1>1. CASE Call(r)
    <2>0. UNCHANGED <<pc, job>> => pc'[r] = "idle" /\ job'[r].op = "none"
      BY <1>1, CallFrame, JobFields DEF Runs
    <2>1. pc'[r] = "sweep" => job'[r].old \in Known
      <3>1. pc'[r] = "sweep" => Withdraw(r) /\ \E e \in Rows : job'[r].old = Boss(e)
        BY <1>1, <2>0, CallJob, CallAt, TypeNext DEF TypeInv, Runs
      <3>. QED BY <3>1, KnownParts
    <2>2. job'[r].op \in {"next", "end", "buy", "sell", "sellPart"} => job'[r].todo \subseteq Known
      <3>1. CASE NextWallet(r)
        <4>1. UNCHANGED wallets /\ Replaces(r)'
          BY <3>1, TypeNext DEF NextWallet, tables, TypeInv
        <4>2. ActiveWallets(job[r].eid)' \subseteq Addrs
          BY <4>1 DEF ActiveWallets, Addrs
        <4>3. job'[r].op = "next" => job'[r].todo \subseteq ActiveWallets(job[r].eid)'
          BY <4>1 DEF Replaces
        <4>4. pc'[r] = "replace"
          BY <3>1, CallAt
        <4>5. job'[r].op = "next"
          BY <4>4, TypeNext DEF TypeInv, Runs
        <4>. QED BY <4>2, <4>3, <4>5, KnownParts
      <3>2. CASE ~NextWallet(r)
        BY <1>1, <2>0, <3>2, CallJob, KnownParts
      <3>. QED BY <3>1, <3>2
    <2>3. job'[r].op = "generate" => batches'[job'[r].eid].boss \in Known
      <3>1. job'[r].op = "generate" => job'[r].eid \in Rows
        BY <1>1, <2>0, CallJob
      <3>2. \A e \in Rows : batches'[e].boss \in Known
        BY <1>0, BossKept, BatchesSeq, KnownParts DEF Boss
      <3>. QED BY <3>1, <3>2
    <2>4. job'[r].op = "end" \/ pc'[r] = "fund" => job'[r].new \in Known
      <3>1. job'[r].op = "end" => \E e \in Rows : job'[r].new = Boss(e)
        BY <1>1, <2>0, CallJob
      <3>2. pc'[r] # "fund"
        <4>1. pc'[r] = "fund" => job'[r].op = "generate"
          BY TypeNext DEF TypeInv, Runs
        <4>. QED BY <1>1, <2>0, <4>1, CallJob, CallAt
      <3>. QED BY <3>1, <3>2, KnownParts
    <2>5. job'[r].op = "withdraw" => job'[r].new = NoKey
      BY <1>1, <2>0, CallJob
    <2>. QED BY <1>0, <2>1, <2>2, <2>3, <2>4, <2>5
  <1>2. CASE Step(r) /\ ~Return(r)
    <2>0. job'[r].op = job[r].op /\ job'[r].eid = job[r].eid
      BY <1>2, StepJob
    <2>1. pc'[r] = "sweep" => job'[r].old \in Known
      <3>1. pc'[r] = "sweep" => ChooseBoss(r) \/ ReplaceWallet(r) \/ Recycle(r)
        BY <1>2, StepTo, Guards DEF Step
      <3>2. ChooseBoss(r) /\ pc'[r] = "sweep" => \E e \in Rows : job'[r].old = Boss(e)
        <4>1. ChooseBoss(r) /\ pc'[r] = "sweep" => \E e \in Active : job' = [job EXCEPT ![r].old = Boss(e), ![r].new = made']
          BY JobFields DEF ChooseBoss, Goto
        <4>2. ChooseBoss(r) /\ pc'[r] = "sweep" => \E e \in Active : job'[r] = [job[r] EXCEPT !.old = Boss(e), !.new = made']
          BY <4>1, JobFields
        <4>. QED BY <1>0, <4>2, JobFields, BatchesSeq DEF Job
      <3>3. ReplaceWallet(r) \/ Recycle(r) => job'[r].old \in job[r].todo /\ job[r].op \in {"next", "end"}
        <4>1. ReplaceWallet(r) \/ Recycle(r) =>
                \E k \in job[r].todo : \/ job' = [job EXCEPT ![r].todo = @ \ {k}, ![r].old = k, ![r].new = made']
                                       \/ job' = [job EXCEPT ![r].todo = @ \ {k}, ![r].old = k]
          BY <1>2 DEF ReplaceWallet, Recycle
        <4>2. ReplaceWallet(r) \/ Recycle(r) =>
                \E k \in job[r].todo : \/ job'[r] = [job[r] EXCEPT !.todo = @ \ {k}, !.old = k, !.new = made']
                                       \/ job'[r] = [job[r] EXCEPT !.todo = @ \ {k}, !.old = k]
          BY <4>1, JobFields
        <4>3. ReplaceWallet(r) \/ Recycle(r) => job'[r].old \in job[r].todo
          BY <4>2, JobFields DEF Job
        <4>. QED BY <4>3, Guards, JobFields DEF Runs
      <3>. QED BY <3>1, <3>2, <3>3, KnownParts DEF SourcesKnown
    <2>2. job'[r].op \in {"next", "end", "buy", "sell", "sellPart"} => job'[r].todo \subseteq Known
      <3>1. ReadActiveBatch(r) => job[r].op = "start"
        BY Guards, JobFields DEF Runs
      <3>2. job'[r].op \in {"next", "end", "buy", "sell", "sellPart"} => job'[r].todo \subseteq job[r].todo
        BY <1>2, <2>0, <3>1, StepJob
      <3>. QED BY <2>0, <3>2 DEF SourcesKnown
    <2>3. job'[r].op = "generate" => batches'[job'[r].eid].boss \in Known
      <3>1. job'[r].op = "generate" => job[r].eid \in DOMAIN batches /\ Boss(job[r].eid) \in Known
        BY <2>0, JobFields DEF KeysGiven, SourcesKnown
      <3>2. \A e \in DOMAIN batches : batches'[e].boss = Boss(e)
        BY BossKept DEF Boss
      <3>. QED BY <2>0, <3>1, <3>2
    <2>4. job'[r].op = "end" \/ pc'[r] = "fund" => job'[r].new \in Known'
      <3>1. ASSUME pc'[r] = "fund" PROVE job'[r].new \in Known'
        <4>1. GenerateWallet(r)
          BY <1>2, <3>1, StepTo, Guards DEF Step
        <4>. QED BY <3>1, <4>1, FundedHasRow DEF Known
      <3>2. job'[r].op = "end" => job'[r].new = job[r].new /\ job[r].new \in Known
        <4>1. ChooseBoss(r) \/ GenerateWallet(r) \/ ReplaceWallet(r) => job[r].op # "end"
          BY Guards, JobFields DEF Runs
        <4>. QED BY <1>2, <2>0, <4>1, StepJob DEF SourcesKnown
      <3>. QED BY <1>0, <3>1, <3>2
    <2>5. job'[r].op = "withdraw" => job'[r].new = NoKey
      <3>1. ChooseBoss(r) \/ GenerateWallet(r) \/ ReplaceWallet(r) => job[r].op # "withdraw"
        BY Guards, JobFields DEF Runs
      <3>. QED BY <1>2, <2>0, <3>1, StepJob DEF SourcesKnown
    <2>. QED BY <1>0, <2>1, <2>2, <2>3, <2>4, <2>5
  <1>3. CASE pc'[r] = "idle" /\ job'[r] = NoJob
    BY <1>0, <1>3
  <1>4. CASE /\ pc'[r] = pc[r] /\ job'[r].op = job[r].op /\ job'[r].new = job[r].new /\ job'[r].old = job[r].old
             /\ job'[r].todo = job[r].todo /\ job'[r].eid = job[r].eid
    <2>1. job[r].op = "generate" => batches'[job[r].eid].boss = Boss(job[r].eid)
      BY BossKept, JobFields DEF Boss, KeysGiven
    <2>. QED BY <1>0, <1>4, <2>1 DEF SourcesKnown
  <1>. QED BY <1>1, <1>2, <1>3, <1>4, KeepsJob, Returned

\* Where the transactions of the pool come from, and which are left.
LEMMA AddedIs ==
  ASSUME TypeOK, NEW r, NEW from, NEW tx, AddsTx(r, from, tx)
  PROVE  /\ \A x \in Keys \ {from} : pool'[x] = pool[x]
         /\ DOMAIN pool'[from] = 1 .. Len(pool[from]) + 1 /\ DOMAIN pool[from] = 1 .. Len(pool[from])
         /\ Len(pool[from]) \in Nat
         /\ \A i \in DOMAIN pool[from] : pool'[from][i] = pool[from][i]
         /\ pool'[from][Len(pool[from]) + 1] = tx
  <1>1. pool \in [Keys -> Seq(Tx)] /\ from \in Keys /\ pool[from] \in Seq(Tx) /\ tx \in Tx
    BY DEF AddsTx, TypeOK
  <1>2. pool'[from] = Append(pool[from], tx) /\ \A x \in Keys \ {from} : pool'[x] = pool[x]
    BY <1>1 DEF AddsTx
  <1>3. /\ DOMAIN Append(pool[from], tx) = 1 .. Len(pool[from]) + 1
        /\ DOMAIN pool[from] = 1 .. Len(pool[from])
        /\ Len(pool[from]) \in Nat
        /\ \A i \in DOMAIN pool[from] : Append(pool[from], tx)[i] = pool[from][i]
        /\ Append(pool[from], tx)[Len(pool[from]) + 1] = tx
    BY <1>1
  <1>. QED BY <1>2, <1>3

LEMMA MinedIs ==
  ASSUME TypeInv, NEW k \in Keys, Mine(k)
  PROVE  /\ \A x \in Keys \ {k} : pool'[x] = pool[x]
         /\ Head(pool[k]) = pool[k][1] /\ 1 \in DOMAIN pool[k] /\ Head(pool[k]) \in Tx
         /\ \A i \in DOMAIN pool'[k] : i + 1 \in DOMAIN pool[k] /\ i + 1 # 1 /\ pool'[k][i] = pool[k][i + 1]
         /\ UNCHANGED <<line, batches, wallets, pc, made, imported, discarded>>
  <1>1. TypeOK /\ pool \in [Keys -> Seq(Tx)]
    BY DEF TypeInv, TypeOK
  <1>2. pool[k] # <<>> /\ pool' = [pool EXCEPT ![k] = Tail(pool[k])]
        /\ UNCHANGED <<line, batches, wallets, pc, made, imported, discarded>>
    BY DEF Mine, tables, keys
  <1>3. pool'[k] = Tail(pool[k]) /\ \A x \in Keys \ {k} : pool'[x] = pool[x]
    BY <1>1, <1>2
  <1>. QED BY <1>1, <1>2, <1>3, TxTyped

\* A trade of one wallet.
LEMMA TradesTx ==
  ASSUME TypeInv, NEW r \in Requests, ExecuteTrade(r)
  PROVE  \E k \in job[r].todo :
           /\ job'[r].todo = job[r].todo \ {k}
           /\ \/ UNCHANGED pool /\ job'[r].wait = job[r].wait
              \/ job'[r].wait = job[r].wait \cup {k} /\ \E tx : AddsTx(r, k, tx) /\ tx.kind # "transfer"
  <1>0. TypeOK /\ job \in [Requests -> Job] /\ job[r].todo \subseteq Keys /\ job[r].qty \in [Keys -> Nat]
        /\ job[r] \in Job
    BY JobFields DEF TypeInv
  <1>1. PICK k \in job[r].todo :
          \/ job' = [job EXCEPT ![r].todo = @ \ {k}, ![r].failed = TRUE] /\ UNCHANGED pool
          \/ /\ Sent(r, k, NoKey, IF job[r].op = "buy" THEN "buy" ELSE "sell", job[r].qty[k])
             /\ job' = [job EXCEPT ![r].todo = @ \ {k}, ![r].wait = @ \cup {k}]
    BY DEF ExecuteTrade
  <1>2. CASE job' = [job EXCEPT ![r].todo = @ \ {k}, ![r].failed = TRUE] /\ UNCHANGED pool
    <2>1. job'[r] = [job[r] EXCEPT !.todo = @ \ {k}, !.failed = TRUE]
      BY <1>0, <1>2
    <2>. QED BY <1>0, <1>2, <2>1 DEF Job
  <1>3. CASE /\ Sent(r, k, NoKey, IF job[r].op = "buy" THEN "buy" ELSE "sell", job[r].qty[k])
             /\ job' = [job EXCEPT ![r].todo = @ \ {k}, ![r].wait = @ \cup {k}]
    <2>1. job'[r] = [job[r] EXCEPT !.todo = @ \ {k}, !.wait = @ \cup {k}]
      BY <1>0, <1>3
    <2>2. PICK kind \in {"buy", "sell"} : Sent(r, k, NoKey, kind, job[r].qty[k])
      BY <1>3
    <2>3. k \in Keys /\ job[r].qty[k] \in Nat /\ TypeOK
      BY <1>0
    <2>4. \E tx : AddsTx(r, k, tx) /\ tx.kind = kind
      BY <2>2, <2>3, SentIs
    <2>. QED BY <1>0, <2>1, <2>4 DEF Job
  <1>. QED BY <1>1, <1>2, <1>3

\* The request that sends a transaction is not the one it is about.
LEMMA OwnKept ==
  ASSUME TypeInv, NEW q \in Requests, NEW from, NEW tx, AddsTx(q, from, tx) \/ UNCHANGED pool,
         NEW r \in Requests, r # q, NEW k \in Keys, NEW i \in DOMAIN pool'[k], pool'[k][i].by = r
  PROVE  i \in DOMAIN pool[k] /\ pool[k][i] = pool'[k][i]
  <1>0. TypeOK
    BY DEF TypeInv
  <1>1. CASE AddsTx(q, from, tx)
    <2>1. tx.by = q /\ from \in Keys
      BY <1>1 DEF AddsTx
    <2>2. k = from => i \in DOMAIN pool[k]
      BY <1>0, <1>1, <2>1, AddedIs
    <2>. QED BY <1>0, <1>1, <2>1, <2>2, AddedIs
  <1>. QED BY <1>1

\* A handler begins with nothing to wait for.
LEMMA CallFresh ==
  ASSUME TypeInv, NEW r \in Requests, Call(r)
  PROVE  UNCHANGED job \/ (job'[r].wait = {} /\ job'[r].failed = FALSE)
  <1>0. job \in [Requests -> Job]
    BY JobFields
  <1>1. CASE Trade(r)
    <2>1. PICK e \in Rows, op \in {"buy", "sell", "sellPart"} :
            LET able == {k \in ActiveWallets(e) : op = "buy" \/ tokens[k] > 0} IN
            \E W \in {able} \cup {{k} : k \in able} :
              job' = [job EXCEPT ![r] =
                [NoJob EXCEPT !.op = op, !.eid = e, !.todo = W, !.task = batches[e].task,
                   !.qty = [k \in Keys |-> IF k \in W THEN Amount(op, k) ELSE 0]]]
      BY <1>1 DEF Trade
    <2>. DEFINE able == {k \in ActiveWallets(e) : op = "buy" \/ tokens[k] > 0}
    <2>2. PICK W \in {able} \cup {{k} : k \in able} :
            job' = [job EXCEPT ![r] =
                [NoJob EXCEPT !.op = op, !.eid = e, !.todo = W, !.task = batches[e].task,
                   !.qty = [k \in Keys |-> IF k \in W THEN Amount(op, k) ELSE 0]]]
      BY <2>1
    <2>. HIDE DEF able
    <2>. QED BY <1>0, <2>2, NoJobTyped DEF NoJob
  <1>2. CASE AddLine(r) \/ ImportBoss(r) \/ AutoSwap(r) \/ Start(r) \/ DeleteLine(r) \/ DeleteToken(r)
    <2>1. \/ UNCHANGED job
          \/ job'[r] = [NoJob EXCEPT !.op = "addLine", !.new = made']
          \/ job'[r] = [NoJob EXCEPT !.op = "deleteLine", !.eid = 0, !.todo = KeptByLine]
          \/ job'[r] = [NoJob EXCEPT !.op = "autoSwap", !.new = line]
          \/ job'[r] = [NoJob EXCEPT !.op = "start", !.new = line]
      BY <1>0, <1>2 DEF AddLine, ImportBoss, DeleteLine, DeleteToken, AutoSwap, Start, Started
    <2>. QED BY <2>1 DEF NoJob
  <1>3. CASE GenerateWallets(r) \/ NextWallet(r) \/ CheckToken(r)
    <2>1. \/ GenerateWallets(r) /\ \E e \in Rows : job'[r] = [NoJob EXCEPT !.op = "generate", !.eid = e, !.todo = {}]
          \/ NextWallet(r) /\ \E e, W : job'[r] = [NoJob EXCEPT !.op = "next", !.eid = e, !.todo = W]
          \/ CheckToken(r) /\ \E e : job'[r] = [NoJob EXCEPT !.op = "check", !.eid = e, !.todo = {}]
      BY <1>0, <1>3 DEF GenerateWallets, NextWallet, CheckToken, Started
    <2>. QED BY <2>1 DEF NoJob
  <1>4. CASE End(r) \/ Withdraw(r)
    <2>1. \/ End(r) /\ \E e \in Rows :
               job'[r] = [NoJob EXCEPT !.op = "end", !.eid = e, !.new = Boss(e), !.todo = Recycled(e)]
          \/ Withdraw(r) /\ \E e \in Rows : job'[r] = [NoJob EXCEPT !.op = "withdraw", !.eid = e, !.old = Boss(e)]
      BY <1>0, <1>4 DEF End, Withdraw
    <2>. QED BY <2>1 DEF NoJob
  <1>. QED BY <1>1, <1>2, <1>3, <1>4 DEF Call

\* A request that waits for a transaction that is mined waits for it no more.
LEMMA Waited ==
  ASSUME TypeInv, NEW k \in Keys, Mine(k), NEW q \in Requests
  PROVE  /\ job'[q].wait = job[q].wait \/ (Head(pool[k]).by = q /\ job'[q].wait = job[q].wait \ {k})
         /\ Head(pool[k]).by # q => job'[q] = job[q]
         /\ pc'[q] = pc[q] /\ job'[q].op = job[q].op /\ job'[q].new = job[q].new /\ job'[q].old = job[q].old
         /\ job'[q].todo = job[q].todo /\ job'[q].eid = job[q].eid
  <1>0. pool[k] # <<>> /\ TypeOK /\ job \in [Requests -> Job]
    BY DEF Mine, TypeInv, TypeOK
  <1>1. Head(pool[k]).by \in Requests \cup {NoRequest}
    BY <1>0, TxTyped DEF Tx
  <1>2. CASE Head(pool[k]).by = NoRequest
    <2>1. job' = job /\ pc' = pc
      BY <1>2 DEF Mine, Answer
    <2>. QED BY <2>1
  <1>3. CASE Head(pool[k]).by \in Requests
    <2>1. PICK r \in Requests : Head(pool[k]).by = r
      BY <1>3
    <2>2. PICK j \in Job :
            /\ job' = [job EXCEPT ![r] = j]
            /\ \E f \in BOOLEAN : j = [job[r] EXCEPT !.wait = @ \ {k}, !.failed = f]
            /\ \A v \in {"op", "eid", "index", "todo", "old", "new", "qty", "task"} : j[v] = job[r][v]
      BY <2>1, AnswerIs
    <2>3. j.wait = job[r].wait \ {k} /\ j.op = job[r].op /\ j.new = job[r].new /\ j.old = job[r].old
          /\ j.todo = job[r].todo /\ j.eid = job[r].eid
      BY <1>0, <2>2 DEF Job
    <2>4. pc' = pc
      BY DEF Mine
    <2>. QED BY <1>0, <2>1, <2>2, <2>3, <2>4
  <1>. QED BY <1>1, <1>2, <1>3

\* A request that begins to wait has paid from its source.
LEMMA PaysTo ==
  ASSUME TypeInv, NEW r \in Requests, FundWallet(r) \/ Sweep(r), pc'[r] = "await"
  PROVE  job'[r].wait = {Source(r)} /\ UNCHANGED batches
  <1>0. job \in [Requests -> Job] /\ pc \in [Requests -> PCs] /\ job[r] \in Job
    BY JobFields
  <1>1. CASE FundWallet(r)
    <2>1. job' = [job EXCEPT ![r].wait = {Boss(job[r].eid)}]
      BY <1>0, <1>1 DEF FundWallet, Goto, Return
    <2>2. pc[r] = "fund" /\ job[r].op = "generate"
      BY <1>1, Guards, JobFields DEF Runs
    <2>. QED BY <1>0, <1>1, <2>1, <2>2 DEF Source, FundWallet, tables, Job
  <1>2. CASE Sweep(r)
    <2>0. pc[r] = "sweep" /\ job[r].op \in {"start", "next", "end", "withdraw"}
      BY <1>2, Guards, JobFields DEF Runs
    <2>1. job' = [job EXCEPT ![r].wait = {job[r].old}] \/ Continue(r, AfterDust(job[r].op))
      BY <1>2 DEF Sweep
    <2>2. ~Continue(r, AfterDust(job[r].op))
      BY <1>0, <2>0 DEF Continue, AfterDust, Goto, Return
    <2>. QED BY <1>0, <1>2, <2>0, <2>1, <2>2 DEF Source, Sweep, tables, Job
  <1>. QED BY <1>1, <1>2

LEMMA SourceKept ==
  ASSUME TypeInv, [Next]_vars, NEW r \in Requests, job'[r].op = job[r].op, job'[r].eid = job[r].eid,
         job'[r].old = job[r].old
  PROVE  Source(r)' = Source(r)
  BY BossKept, JobFields DEF Source, Boss, KeysGiven


LEMMA OwnSame ==
  ASSUME TypeInv, OwnTxs, [Next]_vars, NEW r \in Requests,
         pc'[r] = pc[r], job'[r].op = job[r].op, job'[r].new = job[r].new, job'[r].old = job[r].old,
         job'[r].todo = job[r].todo, job'[r].eid = job[r].eid, job'[r].wait = job[r].wait,
         NEW k \in Keys,
         \A j \in DOMAIN pool'[k] : pool'[k][j].by = r => j \in DOMAIN pool[k] /\ pool[k][j] = pool'[k][j],
         NEW i \in DOMAIN pool'[k], pool'[k][i].by = r
  PROVE  OwnTx(r, k, i)'
  <1>1. Source(r)' = Source(r)
    BY SourceKept
  <1>2. OwnTx(r, k, i)
    BY DEF OwnTxs
  <1>. QED BY <1>1, <1>2 DEF OwnTx

\* A request waits for the transactions it has in the pool.
LEMMA OwnNext ==
  ASSUME TypeInv, OwnTxs, Waits, [Next]_vars, ~Crash, \A r \in Requests : ~Fail(r)
  PROVE  OwnTxs'
  <1>. SUFFICES ASSUME NEW r \in Requests, NEW k \in Keys, NEW i \in DOMAIN pool'[k], pool'[k][i].by = r
                PROVE  OwnTx(r, k, i)'
    BY DEF OwnTxs
  <1>0. TypeOK
    BY DEF TypeInv
  <1>1. ASSUME NEW q \in Requests, Call(q) \/ Step(q), q # r,
               UNCHANGED pool \/ \E from, tx : AddsTx(q, from, tx)
        PROVE  OwnTx(r, k, i)'
    <2>1. pc'[r] = pc[r] /\ job'[r] = job[r]
      BY <1>1, OthersSame
    <2>2. \A j \in DOMAIN pool'[k] : pool'[k][j].by = r => j \in DOMAIN pool[k] /\ pool[k][j] = pool'[k][j]
      BY <1>1, OwnKept
    <2>. QED BY <2>1, <2>2, OwnSame
  <1>2. ASSUME NEW from, NEW tx, AddsTx(r, from, tx), Pays(r, from, tx) PROVE OwnTx(r, k, i)'
    <2>1. Step(r) /\ pc[r] \in {"fund", "sweep"} /\ pc'[r] = "await" /\ tx.by = r /\ from \in Keys
      BY <1>2, Guards DEF Pays, AddsTx, Step
    <2>2. \A x \in Keys : \A j \in DOMAIN pool[x] : pool[x][j].by # r
      BY <2>1 DEF OwnTxs, OwnTx
    <2>3. k = from /\ i = Len(pool[from]) + 1 /\ \A j \in DOMAIN pool'[k] : pool'[k][j].by = r => i = j
      BY <1>0, <1>2, <2>2, AddedIs
    <2>4. job'[r].new = job[r].new /\ job'[r].op = job[r].op /\ job'[r].eid = job[r].eid /\ job'[r].old = job[r].old
      <3>1. ~Return(r)
        BY <2>1, Returned
      <3>2. ~ChooseBoss(r) /\ ~GenerateWallet(r) /\ ~ReplaceWallet(r) /\ ~Recycle(r)
        BY <2>1, Guards
      <3>. QED BY <2>1, <3>1, <3>2, StepJob
    <2>5. job'[r].wait = {Source(r)} /\ Source(r)' = Source(r) /\ job'[r].wait = {from}
      BY <1>2, <2>1, <2>4, PaysTo, SourceKept DEF Pays
    <2>6. pool'[k][i] = tx /\ tx.kind = "transfer" /\ tx.to = job'[r].new
      BY <1>0, <1>2, <2>3, <2>4, AddedIs DEF Pays
    <2>. QED BY <2>1, <2>3, <2>5, <2>6 DEF OwnTx
  <1>3. CASE ExecuteTrade(r)
    <2>0. pc[r] = "trade" /\ pc'[r] = "trade"
      BY <1>3, Guards DEF ExecuteTrade
    <2>1. PICK x \in job[r].todo :
            /\ job'[r].todo = job[r].todo \ {x}
            /\ \/ UNCHANGED pool /\ job'[r].wait = job[r].wait
               \/ job'[r].wait = job[r].wait \cup {x} /\ \E tx : AddsTx(r, x, tx) /\ tx.kind # "transfer"
      BY <1>3, TradesTx
    <2>2. CASE UNCHANGED pool /\ job'[r].wait = job[r].wait
      <3>1. OwnTx(r, k, i)
        BY <2>2 DEF OwnTxs
      <3>. QED BY <2>0, <2>1, <2>2, <3>1 DEF OwnTx
    <2>3. ASSUME job'[r].wait = job[r].wait \cup {x}, NEW tx, AddsTx(r, x, tx), tx.kind # "transfer"
          PROVE  OwnTx(r, k, i)'
      <3>1. \A j \in DOMAIN pool[x] : pool[x][j].by # r
        BY <2>0, <2>3 DEF OwnTxs, OwnTx, AddsTx
      <3>2. CASE k = x
        <4>1. i = Len(pool[x]) + 1 /\ (\A j \in DOMAIN pool'[k] : pool'[k][j].by = r => i = j) /\ pool'[k][i] = tx
          BY <1>0, <2>3, <3>1, <3>2, AddedIs
        <4>. QED BY <2>0, <2>1, <2>3, <3>2, <4>1 DEF OwnTx
      <3>3. CASE k # x
        <4>1. pool'[k] = pool[k]
          BY <1>0, <2>3, <3>3, AddedIs
        <4>2. OwnTx(r, k, i)
          BY <4>1 DEF OwnTxs
        <4>. QED BY <2>0, <2>1, <2>3, <3>3, <4>1, <4>2 DEF OwnTx
      <3>. QED BY <3>2, <3>3
    <2>. QED BY <2>1, <2>2, <2>3
  <1>4. CASE UNCHANGED pool /\ Call(r)
    <2>1. OwnTx(r, k, i)
      BY <1>4 DEF OwnTxs
    <2>. QED BY <1>4, <2>1, CallFrame DEF OwnTx
  <1>5. CASE UNCHANGED pool /\ Step(r) /\ ~ExecuteTrade(r)
    <2>1. OwnTx(r, k, i)
      BY <1>5 DEF OwnTxs
    <2>2. Awaited(r) \/ UpdateTokenStatus(r)
      BY <1>5, <2>1, Guards DEF OwnTx, Step
    <2>. QED BY <2>1, <2>2 DEF OwnTx, Awaited, UpdateTokenStatus
  <1>6. ASSUME NEW x \in Keys, Mine(x) PROVE OwnTx(r, k, i)'
    <2>1. /\ pc'[r] = pc[r] /\ job'[r].op = job[r].op /\ job'[r].new = job[r].new /\ job'[r].old = job[r].old
          /\ job'[r].todo = job[r].todo /\ job'[r].eid = job[r].eid
          /\ job'[r].wait = job[r].wait \/ (Head(pool[x]).by = r /\ job'[r].wait = job[r].wait \ {x})
      BY <1>6, Waited
    <2>2. CASE k # x
      <3>1. pool'[k] = pool[k] /\ Source(r)' = Source(r)
        BY <1>6, <2>1, <2>2, MinedIs, SourceKept
      <3>2. OwnTx(r, k, i)
        BY <3>1 DEF OwnTxs
      <3>. QED BY <2>1, <2>2, <3>1, <3>2 DEF OwnTx
    <2>3. CASE k = x
      <3>1. i + 1 \in DOMAIN pool[k] /\ i + 1 # 1 /\ pool'[k][i] = pool[k][i + 1] /\ Source(r)' = Source(r)
            /\ \A j \in DOMAIN pool'[k] : j + 1 \in DOMAIN pool[k] /\ pool'[k][j] = pool[k][j + 1]
        BY <1>6, <2>1, <2>3, MinedIs, SourceKept
      <3>2. OwnTx(r, k, i + 1)
        BY <3>1 DEF OwnTxs
      <3>3. Head(pool[x]).by # r
        BY <1>6, <2>3, <3>1, <3>2, MinedIs DEF OwnTx
      <3>4. \A j \in DOMAIN pool'[k] : pool'[k][j].by = r => i = j
        <4>1. DOMAIN pool'[k] \subseteq Int
          BY <1>0, PoolTyped
        <4>2. \A j \in DOMAIN pool'[k] : pool'[k][j].by = r => i + 1 = j + 1
          BY <3>1, <3>2 DEF OwnTx
        <4>. QED BY <4>1, <4>2
      <3>. QED BY <2>1, <3>1, <3>2, <3>3, <3>4 DEF OwnTx
    <2>. QED BY <2>2, <2>3
  <1>7. CASE UNCHANGED vars
    <2>1. UNCHANGED <<pc, job, pool>>
      BY <1>7 DEF vars, chain
    <2>. QED BY <2>1, OwnSame
  <1>8. CASE UNCHANGED pool
    BY <1>1, <1>3, <1>4, <1>5, <1>6, <1>7, <1>8 DEF Next
  <1>9. ASSUME NEW q \in Requests, NEW from, NEW tx, AddsTx(q, from, tx) /\ Pays(q, from, tx)
        PROVE  OwnTx(r, k, i)'
    BY <1>1, <1>2, <1>9 DEF Pays, Step
  <1>10. ASSUME NEW q \in Requests, ExecuteTrade(q) PROVE OwnTx(r, k, i)'
    <2>1. q # r => UNCHANGED pool \/ \E from, tx : AddsTx(q, from, tx)
      BY <1>10, TradesTx
    <2>. QED BY <1>1, <1>3, <1>10, <2>1 DEF Step
  <1>. QED BY <1>6, <1>8, <1>9, <1>10, PoolChange

LEMMA WaitsNext ==
  ASSUME TypeInv, OwnTxs, Waits, [Next]_vars, ~Crash, \A r \in Requests : ~Fail(r)
  PROVE  Waits'
  <1>. SUFFICES ASSUME NEW r \in Requests
                PROVE  /\ pc'[r] = "await" => job'[r].wait \subseteq {Source(r)'}
                       /\ pc'[r] \notin {"await", "trade"} => ~job'[r].failed
    BY DEF Waits
  <1>1. CASE Call(r)
    <2>1. pc'[r] # "await"
      <3>1. pc'[r] = "await" => job'[r].op \in {"start", "next", "end", "withdraw", "generate"}
        BY TypeNext DEF TypeInv, Runs
      <3>2. UNCHANGED <<pc, job>> => pc'[r] = "idle"
        BY <1>1, CallFrame
      <3>. QED BY <1>1, <3>1, <3>2, CallJob, CallAt
    <2>2. ~job'[r].failed
      BY <1>1, CallFresh, CallFrame DEF Waits
    <2>. QED BY <2>1, <2>2
  <1>2. CASE Step(r) /\ ~Return(r)
    <2>1. job'[r].op = job[r].op /\ job'[r].eid = job[r].eid
      BY <1>2, StepJob
    <2>2. pc'[r] = "await" => FundWallet(r) \/ Sweep(r)
      BY <1>2, StepTo, Guards DEF Step
    <2>3. pc'[r] = "await" => job'[r].wait \subseteq {Source(r)'}
      <3>. SUFFICES ASSUME pc'[r] = "await" PROVE job'[r].wait \subseteq {Source(r)'}
        OBVIOUS
      <3>1. ~ChooseBoss(r) /\ ~ReplaceWallet(r) /\ ~Recycle(r)
        BY <2>2, Guards
      <3>2. job'[r].old = job[r].old
        BY <1>2, <3>1, StepJob
      <3>. QED BY <2>1, <2>2, <3>2, PaysTo, SourceKept
    <2>4. pc'[r] \notin {"await", "trade"} => ~job'[r].failed
      <3>. SUFFICES ASSUME pc'[r] \notin {"await", "trade"} PROVE ~job'[r].failed
        OBVIOUS
      <3>1. ~ExecuteTrade(r) /\ pc[r] # "trade"
        BY <1>2, StepTo, Guards DEF Step
      <3>2. ~job[r].failed
        <4>1. CASE pc[r] = "await"
          <5>1. Awaited(r)
            BY <1>2, <4>1, Guards DEF Step
          <5>. QED BY <1>2, <5>1 DEF Awaited
        <4>2. CASE pc[r] # "await"
          BY <3>1, <4>2 DEF Waits
        <4>. QED BY <4>1, <4>2
      <3>. QED BY <1>2, <3>1, <3>2, StepJob
    <2>. QED BY <2>3, <2>4
  <1>3. CASE pc'[r] = "idle" /\ job'[r] = NoJob
    BY <1>3, NoJobTyped
  <1>4. ASSUME NEW q \in Requests, q # r, Call(q) \/ Step(q)
        PROVE  /\ pc'[r] = "await" => job'[r].wait \subseteq {Source(r)'}
               /\ pc'[r] \notin {"await", "trade"} => ~job'[r].failed
    <2>1. pc'[r] = pc[r] /\ job'[r] = job[r]
      BY <1>4, OthersSame
    <2>. QED BY <2>1, SourceKept DEF Waits
  <1>5. ASSUME NEW x \in Keys, Mine(x)
        PROVE  /\ pc'[r] = "await" => job'[r].wait \subseteq {Source(r)'}
               /\ pc'[r] \notin {"await", "trade"} => ~job'[r].failed
    <2>1. /\ pc'[r] = pc[r] /\ job'[r].op = job[r].op /\ job'[r].old = job[r].old /\ job'[r].eid = job[r].eid
          /\ job'[r].wait \subseteq job[r].wait
          /\ Head(pool[x]).by # r => job'[r] = job[r]
      BY <1>5, Waited
    <2>2. Head(pool[x]).by = r => pc[r] \in {"await", "trade"}
      BY <1>5, MinedIs DEF OwnTxs, OwnTx
    <2>. QED BY <2>1, <2>2, SourceKept DEF Waits
  <1>6. CASE UNCHANGED vars
    <2>1. UNCHANGED <<pc, job>>
      BY <1>6 DEF vars
    <2>. QED BY <2>1, SourceKept DEF Waits
  <1>. QED BY <1>1, <1>2, <1>3, <1>4, <1>5, <1>6, Returned DEF Next

\* What a step makes of the line.
LEMMA LineChange ==
  ASSUME TypeInv, [Next]_vars, FundsInv, faults' = 0
  PROVE  \/ line' = line
         \/ \E r \in Requests : AddLine(r) /\ line' = made' /\ pc'[r] = "addBatch" /\ job'[r].new = made'
         \/ \E r \in Requests : ImportBoss(r) /\ line' = made' /\ made' \in imported'
         \/ \E r \in Requests : UpsertLine(r) /\ line' = job[r].new /\ job[r].op = "autoSwap" /\ job[r].new \in Keys
         \/ \E r \in Requests : /\ SetExecuteLineBoss(r) /\ line' = job[r].new /\ job[r].new \in Keys
                                /\ pc'[r] = "newBatch" /\ job'[r].new = job[r].new
         \/ \E r \in Requests : DeleteRows(r) /\ line' = NoKey
  <1>1. ASSUME NEW r \in Requests, AddLine(r) PROVE line' = made' /\ pc'[r] = "addBatch" /\ job'[r].new = made'
    <2>1. line' = made' /\ pc'[r] = "addBatch"
      BY <1>1, CallAt DEF AddLine
    <2>2. job'[r] = [NoJob EXCEPT !.op = "addLine", !.new = made']
      BY <1>1, JobFields DEF AddLine
    <2>. QED BY <2>1, <2>2 DEF NoJob
  <1>2. ASSUME NEW r \in Requests, SetExecuteLineBoss(r)
        PROVE  \/ line' = line
               \/ line' = job[r].new /\ job[r].new \in Keys /\ pc'[r] = "newBatch" /\ job'[r].new = job[r].new
    <2>1. pc'[r] = "newBatch" /\ job' = job /\ line' = IF line = NoKey THEN NoKey ELSE job[r].new
      BY <1>2, JobFields DEF SetExecuteLineBoss, Goto
    <2>2. job[r].op = "start" /\ job[r].new \in Keys
      BY <1>2, Guards, JobFields DEF Runs, KeysGiven
    <2>. QED BY <2>1, <2>2
  <1>3. ASSUME NEW r \in Requests, UpsertLine(r)
        PROVE  line' = job[r].new /\ job[r].op = "autoSwap" /\ job[r].new \in Keys
    BY <1>3, Guards, JobFields DEF UpsertLine, Runs, KeysGiven
  <1>4. \A r \in Requests : /\ ImportBoss(r) => line' = made' /\ made' \in imported'
                            /\ DeleteRows(r) => line' = NoKey
                            /\ AddBatch(r) => line' = line
    BY FundsNow DEF ImportBoss, DeleteRows, AddBatch
  <1>. QED BY <1>1, <1>2, <1>3, <1>4, CallFrame, StepFrame, OtherFrame DEF Next, vars, tables

LEMMA BatchKnown ==
  ASSUME TypeOK, NEW boss, batches' = WithBatch(boss)
  PROVE  boss \in Known'
  <1>1. PICK e : e = Len(batches) + 1
    OBVIOUS
  <1>2. e \in DOMAIN batches' /\ batches'[e] = [boss |-> boss, status |-> "active", task |-> "none"]
    BY <1>1, WithBatchIs, BatchesSeq
  <1>3. batches'[e].status # "deleted" /\ batches'[e].boss = boss
    BY <1>2
  <1>4. e \in Rows' /\ Boss(e)' = boss
    BY <1>2, <1>3 DEF Rows, Boss
  <1>5. boss \in Bosses'
    BY <1>4 DEF Bosses
  <1>. QED BY <1>5 DEF Known

\* The boss of a new batch is known when the batch is made.
LEMMA CarriedGrows ==
  ASSUME TypeInv, [Next]_vars, FundsInv, faults' = 0
  PROVE  Known \cup Carried \subseteq (Known \cup Carried)'
  <1>. SUFFICES ASSUME NEW q \in Requests, pc[q] \in {"addBatch", "newBatch"}
                PROVE  job[q].new \in (Known \cup Carried)'
    BY KnownGrows DEF Carried
  <1>0. TypeOK
    BY DEF TypeInv
  <1>1. CASE AddBatch(q)
    <2>1. batches' = WithBatch(job[q].new)
      BY <1>1, FundsNow DEF AddBatch
    <2>. QED BY <1>0, <2>1, BatchKnown
  <1>2. CASE NewBatch(q)
    <2>1. CASE line = NoKey
      <3>1. pc[q] = "newBatch" /\ job[q].op = "start"
        BY <1>2, Guards, JobFields DEF Runs
      <3>2. job[q].new \in Known
        BY <2>1, <3>1, FundsNow DEF LinesKnown
      <3>. QED BY <3>2, KnownGrows
    <2>2. CASE line # NoKey
      BY <1>0, <1>2, <2>2, BatchKnown DEF NewBatch
    <2>. QED BY <2>1, <2>2
  <1>3. CASE ~AddBatch(q) /\ ~NewBatch(q)
    <2>1. ~Step(q)
      BY <1>3, Guards DEF Step
    <2>2. pc'[q] = pc[q] /\ job'[q].new = job[q].new
      BY <2>1, StaysAt, FundsNow
    <2>. QED BY <2>2 DEF Carried
  <1>. QED BY <1>1, <1>2, <1>3

LEMMA LineHasKey ==
  ASSUME TypeInv, [Next]_vars, FundsInv, faults' = 0,
         line # NoKey, \A r \in Requests : ~DeleteRows(r)
  PROVE  line' # NoKey
  BY LineChange, MadeTyped, KeysNat

\* The boss of the line is known, or carried to a batch that is about to be made.
LEMMA LineKnownNext ==
  ASSUME TypeInv, [Next]_vars, FundsInv, faults' = 0, line' # NoKey
  PROVE  line' \in (Known \cup Carried)'
  <1>1. line' = line => line' \in Known \cup Carried
    BY FundsNow DEF LinesKnown
  <1>2. \A r \in Requests : job[r].op = "autoSwap" => job[r].new \in Known \cup Carried
    BY FundsNow DEF LinesKnown
  <1>3. \A r \in Requests : pc'[r] \in {"addBatch", "newBatch"} => job'[r].new \in Carried'
    BY DEF Carried
  <1>4. imported' \subseteq Known'
    BY DEF Known
  <1>. QED BY <1>1, <1>2, <1>3, <1>4, LineChange, CarriedGrows

LEMMA ReadLineNext ==
  ASSUME TypeInv, [Next]_vars, FundsInv, faults' = 0, NEW r \in Requests,
         job'[r].op = "autoSwap" \/ pc'[r] \in {"start", "checkSwept"}
  PROVE  job'[r].new \in (Known \cup Carried)'
  <1>0. NoJob.op = "none"
    BY NoJobTyped
  <1>1. CASE job'[r].new = job[r].new /\ (job[r].op = "autoSwap" \/ pc[r] \in {"start", "checkSwept"})
    BY <1>1, FundsNow, CarriedGrows DEF LinesKnown
  <1>2. CASE job'[r].new = line /\ line # NoKey
    BY <1>2, FundsNow, CarriedGrows DEF LinesKnown
  <1>3. CASE Call(r)
    <2>1. UNCHANGED <<pc, job>> => pc'[r] = "idle" /\ job'[r].op = "none"
      BY <1>3, CallFrame, JobFields DEF Runs
    <2>2. pc'[r] \in {"start", "checkSwept"} => job'[r].op = "start"
      BY TypeNext DEF TypeInv, Runs
    <2>3. AutoSwap(r) \/ Start(r)
      BY <1>3, <2>1, <2>2, CallJob
    <2>4. job'[r].new = line /\ line # NoKey
      <3>1. \/ job'[r] = [NoJob EXCEPT !.op = "autoSwap", !.new = line]
            \/ job'[r] = [NoJob EXCEPT !.op = "start", !.new = line]
        BY <2>3, JobFields DEF AutoSwap, Start
      <3>. QED BY <2>3, <3>1 DEF NoJob, AutoSwap, Start
    <2>. QED BY <1>2, <2>4
  <1>4. CASE Step(r)
    <2>1. ~Return(r)
      BY <1>0, Returned
    <2>2. job'[r].op = job[r].op
      BY <1>4, <2>1, StepJob
    <2>3. job[r].op = "autoSwap" => UpsertLine(r)
      BY <1>4, Guards, JobFields DEF Runs, Step
    <2>4. ReadActiveBatch(r) \/ CheckSwept(r)
      BY <1>4, <2>1, <2>2, <2>3, StepTo, Guards DEF Step
    <2>5. ~ChooseBoss(r)
      BY <1>0, <2>1, <2>4, StepTo, Guards, JobFields, TypeNext DEF TypeInv, Runs
    <2>. QED BY <1>1, <1>4, <2>1, <2>4, <2>5, Guards, StepJob
  <1>. QED BY <1>0, <1>1, <1>3, <1>4, KeepsJob

\* The line of a started batch is there, unless its boss is the old one.
LEMMA StartNext ==
  ASSUME TypeInv, [Next]_vars, FundsInv, faults' = 0, NEW r \in Requests,
         job'[r].op = "start", pc'[r] \in {"sweep", "await", "setBoss", "newBatch"}
  PROVE  line' # NoKey \/ job'[r].new \in Known'
  <1>0. NoJob.op = "none" /\ LinesKnown /\ Known \subseteq Known'
    BY NoJobTyped, FundsNow, KnownGrows
  <1>1. CASE Step(r)
    <2>1. ~Return(r)
      BY <1>0, Returned
    <2>2. job[r].op = "start" /\ pc[r] \in {"start", "checkSwept", "sweep", "await", "setBoss", "newBatch"}
      BY <1>1, <2>1, StepJob, JobFields DEF Runs
    <2>3. ChooseBoss(r) \/ Sweep(r) \/ Awaited(r) \/ SetExecuteLineBoss(r)
      BY <1>1, <2>1, <2>2, StepTo, Guards DEF Step
    <2>4. CASE ChooseBoss(r)
      <3>1. pc[r] = "checkSwept" /\ mutex = r /\ line' = line
        BY <2>2, <2>4, Guards, JobFields DEF Holds, ChooseBoss, tables
      <3>2. CASE Active = {}
        <4>1. job' = job
          BY <2>4, <3>2 DEF ChooseBoss
        <4>2. Carried = {}
          <5>1. \A q \in Requests : pc[q] \in {"addBatch", "newBatch"} => mutex = q
            BY JobFields DEF Runs, Holds
          <5>. QED BY <3>1, <5>1 DEF Carried
        <4>. QED BY <1>0, <3>1, <4>1, <4>2 DEF LinesKnown
      <3>. QED BY <1>0, <3>1, <3>2 DEF LinesKnown
    <2>5. CASE Sweep(r) \/ Awaited(r)
      <3>1. line' = line /\ job'[r].new = job[r].new /\ pc[r] \in {"sweep", "await"}
        BY <1>1, <2>1, <2>5, Guards, StepJob DEF Sweep, Awaited, tables
      <3>. QED BY <1>0, <2>2, <3>1 DEF LinesKnown
    <2>6. CASE SetExecuteLineBoss(r)
      <3>1. pc[r] = "setBoss" /\ job' = job /\ line' = IF line = NoKey THEN NoKey ELSE job[r].new
        BY <2>6 DEF SetExecuteLineBoss
      <3>2. job[r].new \in Keys
        BY <2>2, JobFields DEF KeysGiven
      <3>. QED BY <1>0, <2>2, <3>1, <3>2, KeysNat DEF LinesKnown
    <2>. QED BY <2>3, <2>4, <2>5, <2>6
  <1>2. ~Call(r)
    <2>1. Call(r) => Start(r)
      BY CallJob, CallFrame, JobFields DEF Runs
    <2>. QED BY <2>1, CallAt
  <1>3. CASE ~Step(r)
    <2>1. pc'[r] = pc[r] /\ job'[r].op = job[r].op /\ job'[r].new = job[r].new
      BY <1>0, <1>2, <1>3, KeepsJob
    <2>2. mutex = r
      BY <2>1, JobFields DEF Holds
    <2>3. \A q \in Requests : ~DeleteRows(q)
      <3>1. \A q \in Requests : DeleteRows(q) => mutex = q
        BY Guards, JobFields DEF Runs, Holds
      <3>. QED BY <1>3, <2>2, <3>1 DEF Step
    <2>. QED BY <1>0, <2>1, <2>3, LineHasKey DEF LinesKnown
  <1>. QED BY <1>1, <1>3

\* Without a line nothing is active.
LEMMA ActiveNext ==
  ASSUME TypeInv, [Next]_vars, FundsInv, faults' = 0,
         Active' # {} \/ \E r \in Requests : pc'[r] = "addBatch"
  PROVE  line' # NoKey
  <1>0. LinesKnown /\ TypeOK /\ NoJob.op = "none"
    BY FundsNow, NoJobTyped DEF TypeInv
  <1>1. ASSUME NEW r \in Requests, DeleteRows(r) PROVE FALSE
    <2>1. Active' = {}
      <3>1. Rows' = {}
        BY <1>0, <1>1, DeleteRowsIs DEF Rows
      <3>. QED BY <3>1 DEF Active
    <2>2. PICK q \in Requests : pc'[q] = "addBatch"
      BY <2>1
    <2>3. mutex = r /\ pc[r] = "checkEmpty" /\ pc'[r] = "idle"
      BY <1>1, Guards, JobFields, Returned DEF Runs, Holds, DeleteRows
    <2>4. pc[q] = "addBatch"
      BY <1>1, <2>2, <2>3, OthersSame DEF Step
    <2>5. mutex = q
      BY <2>4, JobFields DEF Runs, Holds
    <2>. QED BY <2>3, <2>4, <2>5
  <1>2. CASE line # NoKey
    BY <1>1, <1>2, LineHasKey
  <1>3. CASE line = NoKey
    <2>0. Active = {} /\ \A q \in Requests : pc[q] # "addBatch"
      BY <1>0, <1>3 DEF LinesKnown
    <2>1. ASSUME NEW q \in Requests, pc'[q] = "addBatch" PROVE line' # NoKey
      <3>1. job'[q].op = "addLine"
        BY <2>1, TypeNext DEF TypeInv, Runs
      <3>2. Call(q)
        <4>1. Step(q) => ~Return(q)
          BY <2>1, Returned
        <4>2. ~Step(q)
          BY <2>0, <2>1, <4>1, StepTo, Guards DEF Step
        <4>. QED BY <2>0, <2>1, <4>2, KeepsJob
      <3>3. AddLine(q)
        BY <2>0, <2>1, <3>1, <3>2, CallJob, CallFrame
      <3>4. line' = made'
        BY <3>3 DEF AddLine
      <3>. QED BY <3>4, MadeTyped, KeysNat
    <2>2. CASE Active' # {}
      <3>1. UNCHANGED batches => Active' = {}
        BY <2>0 DEF Active, Rows
      <3>2. \A r \in Requests : ~AddBatch(r) /\ (NewBatch(r) => UNCHANGED batches)
        BY <1>3, <2>0, Guards DEF NewBatch
      <3>3. (/\ DOMAIN batches' = DOMAIN batches
             /\ \A e \in DOMAIN batches : /\ batches'[e].boss = batches[e].boss
                                          /\ batches'[e].status = batches[e].status) => Active' = {}
        BY <2>0 DEF Active, Rows
      <3>. QED BY <1>1, <2>2, <3>1, <3>2, <3>3, BatchesChange
    <2>. QED BY <2>1, <2>2
  <1>. QED BY <1>2, <1>3

LEMMA LinesNext == ASSUME TypeInv, [Next]_vars, FundsInv, faults' = 0 PROVE LinesKnown'
  <1>1. line' # NoKey => line' \in (Known \cup Carried)'
    BY LineKnownNext
  <1>2. \A r \in Requests : job'[r].op = "autoSwap" \/ pc'[r] \in {"start", "checkSwept"} =>
          job'[r].new \in (Known \cup Carried)'
    BY ReadLineNext
  <1>3. \A r \in Requests : job'[r].op = "start" /\ pc'[r] \in {"sweep", "await", "setBoss", "newBatch"} =>
          line' # NoKey \/ job'[r].new \in Known'
    BY StartNext
  <1>4. Active' # {} \/ (\E r \in Requests : pc'[r] = "addBatch") => line' # NoKey
    BY ActiveNext
  <1>. QED BY <1>1, <1>2, <1>3, <1>4 DEF LinesKnown

\* Whoever sends coins or tokens is known, and the coins go to a key that is known,
\* out of the system, or from start and nextWallet to their new key.
LEMMA SendersKnown ==
  ASSUME TypeInv, SourcesKnown, NEW r \in Requests, NEW from, NEW tx, AddsTx(r, from, tx),
         Pays(r, from, tx) \/ (ExecuteTrade(r) /\ from \in job[r].todo)
  PROVE  /\ from \in Known
         /\ Pays(r, from, tx) /\ tx.to \notin Known \cup {NoKey} =>
              /\ mutex = r /\ Sweep(r) /\ job[r].op \in {"start", "next"} /\ tx.to = job[r].new
              /\ pc[r] = "sweep" /\ pc'[r] = "await"
  <1>1. CASE Pays(r, from, tx)
    <2>1. CASE pc[r] = "fund"
      <3>1. job[r].op = "generate" /\ from = Boss(job[r].eid) /\ tx.to = job[r].new
        BY <1>1, <2>1, JobFields DEF Pays, Runs
      <3>. QED BY <2>1, <3>1 DEF SourcesKnown
    <2>2. CASE pc[r] = "sweep"
      <3>1. /\ job[r].op \in {"start", "next", "end", "withdraw"} /\ from = job[r].old /\ tx.to = job[r].new
            /\ Sweep(r) /\ pc'[r] = "await"
        BY <1>1, <2>2, Guards, JobFields DEF Pays, Runs
      <3>2. job[r].op \in {"end", "withdraw"} => tx.to \in Known \cup {NoKey}
        BY <3>1 DEF SourcesKnown
      <3>3. job[r].op \in {"start", "next"} => mutex = r
        BY <2>2, JobFields DEF Holds
      <3>. QED BY <2>2, <3>1, <3>2, <3>3 DEF SourcesKnown
    <2>. QED BY <1>1, <2>1, <2>2 DEF Pays
  <1>2. CASE ExecuteTrade(r) /\ from \in job[r].todo
    <2>1. job[r].op \in {"buy", "sell", "sellPart"} /\ pc[r] = "trade"
      BY <1>2, Guards, JobFields DEF Runs
    <2>2. ~Pays(r, from, tx)
      BY <2>1 DEF Pays
    <2>. QED BY <1>2, <2>1, <2>2 DEF SourcesKnown
  <1>. QED BY <1>1, <1>2

\* A key stays clean that nobody pays, and that does not pay.
LEMMA CleanKept ==
  ASSUME TypeInv, SourcesKnown, [Next]_vars, ~Crash, \A r \in Requests : ~Fail(r),
         NEW k \in Keys, k \notin Known, NEW q \in Requests \cup {NoRequest}, CleanBut(k, q),
         \A r \in Requests : Sweep(r) /\ mutex = r /\ job[r].op \in {"start", "next"} /\ job[r].new = k
            /\ pc[r] = "sweep" /\ pc'[r] = "await" => q = r,
         \A x \in Keys : Mine(x) => ~(Head(pool[x]).kind = "transfer" /\ Head(pool[x]).to = k)
  PROVE  CleanBut(k, q)'
  <1>0. TypeOK /\ native \in [Keys -> Nat] /\ k # NoKey
    BY KeysNat DEF TypeInv, TypeOK
  <1>1. native[k] = 0 /\ tokens[k] = 0 /\ pool[k] = <<>>
        /\ \A x \in Keys : \A i \in DOMAIN pool[x] :
             pool[x][i].kind = "transfer" /\ pool[x][i].to = k => q # NoRequest /\ pool[x][i].by = q
    BY DEF CleanBut
  <1>2. ASSUME NEW x \in Keys, Mine(x) PROVE CleanBut(k, q)'
    <2>1. x # k
      BY <1>1, <1>2 DEF Mine
    <2>2. native'[k] = 0 /\ tokens'[k] = 0
      <3>1. k \notin Earned(x, Head(pool[x]))
        BY <1>0, <1>2, <2>1 DEF Earned
      <3>2. native'[k] <= native[k] /\ tokens'[k] = tokens[k] /\ native'[k] \in Nat
        BY <1>2, <2>1, <3>1, MineChain
      <3>. QED BY <1>1, <3>2
    <2>3. pool'[k] = <<>>
      BY <1>1, <1>2, <2>1, MinedIs
    <2>4. ASSUME NEW y \in Keys, NEW i \in DOMAIN pool'[y], pool'[y][i].kind = "transfer", pool'[y][i].to = k
          PROVE  q # NoRequest /\ pool'[y][i].by = q
      BY <1>1, <1>2, <2>4, MinedIs
    <2>. QED BY <2>2, <2>3, <2>4 DEF CleanBut
  <1>3. ASSUME \A x \in Keys : ~Mine(x) PROVE UNCHANGED <<native, tokens>>
    BY <1>3, CallFrame, StepFrame DEF Next, vars, chain
  <1>4. CASE UNCHANGED pool
    BY <1>1, <1>2, <1>3, <1>4 DEF CleanBut
  <1>5. ASSUME NEW r \in Requests, NEW from, NEW tx, AddsTx(r, from, tx),
               Pays(r, from, tx) \/ (ExecuteTrade(r) /\ from \in job[r].todo /\ tx.kind # "transfer"),
               \A x \in Keys : ~Mine(x)
        PROVE  CleanBut(k, q)'
    <2>1. from # k /\ from \in Keys /\ tx.by = r
      BY <1>5, SendersKnown DEF AddsTx
    <2>2. tx.kind = "transfer" /\ tx.to = k => q = r
      BY <1>0, <1>5, SendersKnown
    <2>3. ASSUME NEW y \in Keys, NEW i \in DOMAIN pool'[y], pool'[y][i].kind = "transfer", pool'[y][i].to = k
          PROVE  q # NoRequest /\ pool'[y][i].by = q
      <3>1. CASE y = from /\ i = Len(pool[from]) + 1
        BY <1>0, <1>5, <2>1, <2>2, <2>3, <3>1, AddedIs, KeysNat
      <3>2. CASE ~(y = from /\ i = Len(pool[from]) + 1)
        <4>1. i \in DOMAIN pool[y] /\ pool'[y][i] = pool[y][i]
          BY <1>0, <1>5, <3>2, AddedIs
        <4>. QED BY <1>1, <2>3, <4>1
      <3>. QED BY <3>1, <3>2
    <2>4. pool'[k] = <<>>
      BY <1>0, <1>1, <1>5, <2>1, AddedIs
    <2>. QED BY <1>1, <1>3, <1>5, <2>3, <2>4 DEF CleanBut
  <1>. QED BY <1>2, <1>4, <1>5, PoolChange

\* The next key to be made is unknown and untouched.
LEMMA NextKeyClean ==
  ASSUME TypeInv, KeyUse, Accounted, NEW k \in Keys, k = made + 1
  PROVE  k \notin Known /\ Clean(k)
  <1>0. TypeOK /\ made \in Nat
    BY KeysNat DEF TypeInv, TypeOK
  <1>1. \A x \in LineKeys \cup WalletKeys \cup imported \cup discarded : x # k
    BY <1>0 DEF KeyUse
  <1>2. Known \subseteq LineKeys \cup WalletKeys \cup imported \cup discarded
    <2>1. Bosses \subseteq LineKeys
      BY <1>0, BatchesSeq DEF Bosses, LineKeys
    <2>. QED BY <2>1 DEF Known, WalletKeys
  <1>3. ASSUME NEW r \in Requests, Carries(r) PROVE job[r].new \in LineKeys \cup WalletKeys
    <2>1. job[r].op \in {"addLine", "start"} => job[r].new \in LineKeys
      BY DEF LineKeys
    <2>2. job[r].op = "next" => Fresh(r)
      BY <1>3, JobFields DEF Carries, Fresh, Runs
    <2>3. Fresh(r) => job[r].new \in WalletKeys
      BY DEF WalletKeys
    <2>. QED BY <1>3, <2>1, <2>2, <2>3 DEF Carries
  <1>. QED BY <1>1, <1>2, <1>3 DEF Accounted

LEMMA FreshMade ==
  ASSUME TypeInv, [Next]_vars, KeyUse, Accounted, Waits, Waits', NEW r \in Requests,
         ChooseBoss(r) \/ ReplaceWallet(r), pc'[r] = "sweep"
  PROVE  FreshKey(r)'
  <1>0. TypeOK /\ made \in Nat
    BY KeysNat DEF TypeInv, TypeOK
  <1>1. ~Return(r)
    BY Returned
  <1>2. made' = made + 1 /\ job'[r].new = made' /\ made' \in Keys
    <2>1. ChooseBoss(r) => ~UNCHANGED made
      <3>1. ChooseBoss(r) => Active # {}
        BY <1>1, StepTo
      <3>2. ChooseBoss(r) => made' = made + 1
        BY <3>1 DEF ChooseBoss
      <3>. QED BY <1>0, <3>2
    <2>. QED BY <1>1, <2>1, MadeNew, MadeTyped
  <1>3. /\ UNCHANGED <<line, batches, wallets, native, tokens, pool, imported, discarded>>
    BY DEF ChooseBoss, ReplaceWallet, tables, chain
  <1>4. Known' = Known
    BY <1>3, KnownSame
  <1>5. PICK k \in Keys : k = made'
    BY <1>2
  <1>6. k \notin Known /\ Clean(k)
    BY <1>2, <1>5, NextKeyClean
  <1>7. CleanBut(k, r)
    BY <1>6, KeysNat DEF Clean, CleanBut
  <1>8. CleanBut(k, r)'
    BY <1>3, <1>7 DEF CleanBut
  <1>9. ~job'[r].failed
    BY DEF Waits
  <1>. QED BY <1>2, <1>4, <1>5, <1>6, <1>8, <1>9 DEF FreshKey

LEMMA FreshPaid ==
  ASSUME TypeInv, [Next]_vars, FundsInv, faults' = 0, NEW r \in Requests, Sweep(r), pc'[r] = "await",
         job[r].op \in {"start", "next"}
  PROVE  FreshKey(r)'
  <1>0. /\ SourcesKnown /\ Waits /\ FreshUnknown /\ ~Crash /\ \A q \in Requests : ~Fail(q)
        /\ pc[r] = "sweep" /\ ~Return(r) /\ Step(r)
    BY FundsNow, Guards, Returned DEF Step
  <1>1. mutex = r /\ job[r].new \in Keys
    BY <1>0, JobFields DEF Holds, KeysGiven
  <1>2. job'[r].new = job[r].new /\ ~job'[r].failed
    <2>1. ~ChooseBoss(r) /\ ~GenerateWallet(r) /\ ~ReplaceWallet(r) /\ ~ExecuteTrade(r)
      BY <1>0, Guards
    <2>. QED BY <1>0, <2>1, StepJob DEF Waits
  <1>3. PICK k \in Keys : k = job[r].new
    BY <1>1
  <1>4. k \notin Known /\ CleanBut(k, r)
    BY <1>0, <1>3 DEF FreshUnknown, FreshKey
  <1>5. Known' = Known
    BY KnownSame DEF Sweep, tables, keys
  <1>6. \A x \in Keys : ~Mine(x)
    BY <1>0 DEF Mine
  <1>7. CleanBut(k, r)'
    BY <1>0, <1>1, <1>4, <1>6, CleanKept
  <1>. QED BY <1>2, <1>3, <1>4, <1>5, <1>7 DEF FreshKey

LEMMA FreshKept ==
  ASSUME TypeInv, [Next]_vars, FundsInv, faults' = 0, NEW r \in Requests, ~Step(r),
         pc[r] \in {"sweep", "await"}, job[r].op \in {"start", "next"}
  PROVE  FreshKey(r)'
  <1>0. /\ SourcesKnown /\ OwnTxs /\ Waits /\ FreshUnknown /\ ~Crash /\ \A q \in Requests : ~Fail(q)
    BY FundsNow
  <1>1. mutex = r /\ job[r].new \in Keys /\ FreshKey(r)
    BY <1>0, JobFields DEF Holds, KeysGiven, FreshUnknown
  <1>2. pc'[r] = pc[r] /\ job'[r].new = job[r].new /\ Known' = Known
    BY <1>0, <1>1, StaysAt, KnownKept
  <1>3. PICK k \in Keys : k = job[r].new
    BY <1>1
  <1>4. k \notin Known /\ \A q \in Requests : Sweep(q) /\ mutex = q => FALSE
    BY <1>1, <1>3 DEF FreshKey, Step
  <1>5. ASSUME job'[r] = job[r], \A x \in Keys : Mine(x) => Head(pool[x]).by # r
        PROVE  FreshKey(r)'
    <2>1. ASSUME NEW q \in {r, NoRequest}, CleanBut(k, q) PROVE CleanBut(k, q)'
      <3>1. ASSUME NEW x \in Keys, Mine(x), Head(pool[x]).kind = "transfer", Head(pool[x]).to = k
            PROVE  FALSE
        <4>1. Head(pool[x]) = pool[x][1] /\ 1 \in DOMAIN pool[x]
          BY <3>1, MinedIs
        <4>. QED BY <1>5, <2>1, <3>1, <4>1 DEF CleanBut
      <3>. QED BY <1>0, <1>4, <2>1, <3>1, CleanKept
    <2>2. CleanBut(k, r) => CleanBut(k, r)'
      BY <2>1
    <2>3. Clean(k) => Clean(k)'
      BY <2>1 DEF Clean
    <2>. QED BY <1>1, <1>2, <1>3, <1>4, <1>5, <2>2, <2>3 DEF FreshKey
  <1>6. ASSUME NEW x \in Keys, Mine(x), Head(pool[x]).by = r PROVE FreshKey(r)'
    <2>1. Head(pool[x]) = pool[x][1] /\ 1 \in DOMAIN pool[x]
      BY <1>6, MinedIs
    <2>2. /\ pc[r] = "await" /\ x = Source(r) /\ Head(pool[x]).kind = "transfer" /\ Head(pool[x]).to = k
          /\ x \in job[r].wait
      BY <1>0, <1>3, <1>6, <2>1, KeysNat DEF OwnTxs, OwnTx
    <2>3. CleanBut(k, r)
      BY <1>1, <1>3, <2>2 DEF FreshKey
    <2>4. job'[r].wait = {}
      <3>1. job[r].wait \subseteq {x}
        BY <1>0, <2>2 DEF Waits
      <3>2. job'[r].wait = job[r].wait \ {x}
        <4>1. PICK j \in Job :
                /\ job' = [job EXCEPT ![r] = j]
                /\ \E f \in BOOLEAN : j = [job[r] EXCEPT !.wait = @ \ {x}, !.failed = f]
                /\ \A v \in {"op", "eid", "index", "todo", "old", "new", "qty", "task"} : j[v] = job[r][v]
          BY <1>6, AnswerIs
        <4>. QED BY <4>1, JobFields DEF Job
      <3>. QED BY <3>1, <3>2
    <2>5. ASSUME job'[r].failed PROVE Clean(k)'
      <3>1. UNCHANGED <<native, tokens>>
        <4>1. CASE job' = Answer(Head(pool[x]), x, TRUE)
          <5>1. job' = [job EXCEPT ![r].wait = @ \ {x}, ![r].failed = @ \/ ~TRUE]
            BY <1>6, <4>1, KeysNat DEF Answer
          <5>2. job'[r] = [job[r] EXCEPT !.wait = @ \ {x}, !.failed = @ \/ ~TRUE]
            BY <5>1, JobFields
          <5>3. job'[r].failed = (job[r].failed \/ ~TRUE)
            BY <5>2, JobFields DEF Job
          <5>4. ~job[r].failed
            BY <1>1, <2>2 DEF FreshKey
          <5>. QED BY <2>5, <5>3, <5>4
        <4>2. CASE ~(job' = Answer(Head(pool[x]), x, TRUE))
          BY <1>6, <2>2, <4>2 DEF Mine
        <4>. QED BY <4>1, <4>2
      <3>2. OwnTxs'
        BY <1>0, OwnNext
      <3>3. \A y \in Keys : \A i \in DOMAIN pool'[y] : pool'[y][i].by # r
        BY <2>4, <3>2 DEF OwnTxs, OwnTx
      <3>4. pool'[k] = <<>> /\ native[k] = 0 /\ tokens[k] = 0
        <4>1. pool[k] = <<>> /\ native[k] = 0 /\ tokens[k] = 0
          BY <2>3 DEF CleanBut
        <4>2. x # k
          BY <1>6, <4>1 DEF Mine
        <4>. QED BY <1>6, <4>1, <4>2, MinedIs
      <3>5. ASSUME NEW y \in Keys, NEW i \in DOMAIN pool'[y], pool'[y][i].kind = "transfer", pool'[y][i].to = k
            PROVE  FALSE
        <4>1. \E j \in DOMAIN pool[y] : pool'[y][i] = pool[y][j]
          BY <1>6, <3>5, MinedIs
        <4>2. pool'[y][i].by = r
          BY <2>3, <3>5, <4>1 DEF CleanBut
        <4>. QED BY <3>3, <3>5, <4>2
      <3>. QED BY <3>1, <3>4, <3>5 DEF Clean, CleanBut
    <2>6. Clean(k)' => CleanBut(k, r)'
      BY DEF Clean, CleanBut
    <2>7. job'[r].failed \in BOOLEAN
      BY TypeNext DEF TypeInv, TypeOK, Job
    <2>. QED BY <1>2, <1>3, <1>4, <2>2, <2>4, <2>5, <2>6, <2>7 DEF FreshKey
  <1>7. ASSUME \A x \in Keys : Mine(x) => Head(pool[x]).by # r PROVE job'[r] = job[r]
    <2>1. ~Call(r)
      BY CallFrame
    <2>2. ASSUME NEW q \in Requests, Call(q) \/ Step(q) PROVE job'[r] = job[r]
      BY <2>1, <2>2, OthersSame
    <2>3. ASSUME NEW x \in Keys, Mine(x) PROVE job'[r] = job[r]
      BY <1>7, <2>3, Waited
    <2>. QED BY <1>0, <2>2, <2>3 DEF Next, vars
  <1>. QED BY <1>5, <1>6, <1>7

LEMMA FreshNext == ASSUME TypeInv, [Next]_vars, KeyUse, FundsInv, faults' = 0 PROVE FreshUnknown'
  <1>. SUFFICES ASSUME NEW r \in Requests, pc'[r] \in {"sweep", "await"}, job'[r].op \in {"start", "next"}
                PROVE  FreshKey(r)'
    BY DEF FreshUnknown
  <1>0. OwnTxs /\ Waits /\ Accounted /\ NoJob.op = "none" /\ ~Crash /\ \A q \in Requests : ~Fail(q)
    BY FundsNow, NoJobTyped
  <1>1. ~Call(r)
    BY CallJob, CallAt, CallFrame
  <1>2. CASE Step(r)
    <2>1. ~Return(r)
      BY <1>0, Returned
    <2>2. job[r].op = job'[r].op
      BY <1>2, <2>1, StepJob
    <2>3. /\ pc'[r] = "sweep" => ChooseBoss(r) \/ ReplaceWallet(r) \/ Recycle(r)
          /\ pc'[r] = "await" => FundWallet(r) \/ Sweep(r)
      BY <1>2, <2>1, StepTo, Guards DEF Step
    <2>4. ~Recycle(r) /\ ~FundWallet(r)
      BY <2>2, Guards, JobFields DEF Runs
    <2>5. Waits'
      BY <1>0, WaitsNext
    <2>. QED BY <1>0, <2>2, <2>3, <2>4, <2>5, FreshMade, FreshPaid
  <1>3. CASE ~Step(r)
    <2>1. pc'[r] = pc[r] /\ job'[r].op = job[r].op
      BY <1>0, <1>1, <1>3, KeepsJob
    <2>. QED BY <1>3, <2>1, FreshKept
  <1>. QED BY <1>2, <1>3

\* A key that a request carries is carried on, until it is stored.
LEMMA CarriedOn ==
  ASSUME TypeInv, [Next]_vars, FundsInv, faults' = 0, NEW r \in Requests, Carries(r), ~Clean(job[r].new)
  PROVE  job[r].new \in Known' \/ (Carries(r)' /\ job'[r].new = job[r].new)
  <1>0. LinesKnown /\ FreshUnknown /\ Waits /\ ~Fault /\ ~Crash /\ (\A q \in Requests : ~Fail(q)) /\ TypeOK
    BY FundsNow DEF TypeInv
  <1>1. CASE ~Step(r)
    <2>1. pc[r] # "idle"
      BY DEF Carries
    <2>2. pc'[r] = pc[r] /\ job'[r].op = job[r].op /\ job'[r].new = job[r].new
      BY <1>0, <1>1, <2>1, StaysAt
    <2>. QED BY <2>2 DEF Carries
  <1>2. CASE AddBatch(r)
    <2>1. batches' = WithBatch(job[r].new)
      BY <1>0, <1>2 DEF AddBatch
    <2>. QED BY <1>0, <2>1, BatchKnown
  <1>3. CASE NewBatch(r)
    <2>1. CASE line = NoKey
      <3>1. job[r].op = "start" /\ pc[r] = "newBatch"
        BY <1>3, Guards, JobFields DEF Runs
      <3>. QED BY <1>0, <2>1, <3>1, KnownGrows DEF LinesKnown
    <2>2. CASE line # NoKey
      BY <1>0, <1>3, <2>2, BatchKnown DEF NewBatch
    <2>. QED BY <2>1, <2>2
  <1>4. CASE InsertWallet(r)
    <2>1. wallets' = wallets \cup {[eid |-> job[r].eid, index |-> IndexOf(job[r].old), addr |-> job[r].new, active |-> TRUE]}
      BY <1>4 DEF InsertWallet, Inserted
    <2>2. PICK row \in wallets' :
            row = [eid |-> job[r].eid, index |-> IndexOf(job[r].old), addr |-> job[r].new, active |-> TRUE]
      BY <2>1
    <2>3. row.addr = job[r].new
      BY <2>2
    <2>. QED BY <2>3 DEF Known, Addrs
  <1>5. CASE SetExecuteLineBoss(r)
    BY <1>5, JobFields DEF SetExecuteLineBoss, Goto, Carries
  <1>6. CASE Sweep(r) \/ Awaited(r)
    <2>1. job[r].op \in {"start", "next"} /\ pc[r] \in {"sweep", "await"}
      BY <1>6, Guards, JobFields DEF Carries, Runs
    <2>2. ~Return(r)
      <3>1. CASE Sweep(r)
        <4>1. \/ pc' = [pc EXCEPT ![r] = "await"]
              \/ Continue(r, AfterDust(job[r].op))
          BY <3>1 DEF Sweep, Goto
        <4>2. pc'[r] # "idle"
          BY <2>1, <4>1, JobFields DEF Continue, AfterDust, Goto
        <4>. QED BY <4>2, Returned
      <3>2. CASE Awaited(r)
        <4>1. pc[r] = "await"
          BY <3>2, Guards
        <4>2. ~job[r].failed
          BY <1>0, <2>1, <4>1 DEF FreshUnknown, FreshKey
        <4>3. Continue(r, AfterReceipt(job[r].op))
          BY <3>2, <4>2 DEF Awaited
        <4>4. pc'[r] # "idle"
          BY <2>1, <4>3, JobFields DEF Continue, AfterReceipt, Goto
        <4>. QED BY <4>4, Returned
      <3>. QED BY <1>6, <3>1, <3>2
    <2>3. job'[r].op = job[r].op /\ job'[r].new = job[r].new
      <3>1. ~ChooseBoss(r) /\ ~GenerateWallet(r) /\ ~ReplaceWallet(r)
        BY <2>1, Guards
      <3>. QED BY <1>6, <2>2, <3>1, StepJob DEF Step
    <2>4. pc'[r] \in {"await", "setBoss", "insert", "recycle", "recheck", "wallet"}
      BY <1>6, <2>2, StepTo
    <2>5. pc'[r] \in {"await", "setBoss", "insert"}
      BY <2>1, <2>3, <2>4, TypeNext DEF TypeInv, Runs
    <2>. QED BY <2>1, <2>3, <2>5 DEF Carries
  <1>. QED BY <1>1, <1>2, <1>3, <1>4, <1>5, <1>6, Guards DEF Step, Carries

LEMMA AccountedNext ==
  ASSUME TypeInv, [Next]_vars, FundsInv, faults' = 0, NEW k \in Keys
  PROVE  Clean(k)' \/ k \in Known' \/ \E r \in Requests : Carries(r)' /\ job'[r].new = k
  <1>0. Accounted /\ SourcesKnown /\ ~Crash /\ \A q \in Requests : ~Fail(q)
    BY FundsNow
  <1>1. CASE k \in Known
    BY <1>1, KnownGrows
  <1>2. ASSUME NEW r \in Requests, Carries(r), job[r].new = k, ~Clean(k)
        PROVE  k \in Known' \/ (Carries(r)' /\ job'[r].new = k)
    BY <1>2, CarriedOn
  <1>3. CASE Clean(k) /\ k \notin Known
    <2>1. ASSUME NEW r \in Requests, Sweep(r), job[r].op \in {"start", "next"}, job[r].new = k,
                 pc[r] = "sweep", pc'[r] = "await"
          PROVE  Carries(r)' /\ job'[r].new = k
      <3>1. ~Return(r) /\ ~ChooseBoss(r) /\ ~GenerateWallet(r) /\ ~ReplaceWallet(r)
        BY <2>1, Returned, Guards
      <3>2. job'[r].op = job[r].op /\ job'[r].new = k
        BY <2>1, <3>1, StepJob DEF Step
      <3>. QED BY <2>1, <3>2 DEF Carries
    <2>2. ASSUME \A r \in Requests : ~(/\ Sweep(r) /\ job[r].op \in {"start", "next"} /\ job[r].new = k
                                      /\ pc[r] = "sweep" /\ pc'[r] = "await")
          PROVE  Clean(k)'
      <3>1. \A x \in Keys : Mine(x) => ~(Head(pool[x]).kind = "transfer" /\ Head(pool[x]).to = k)
        BY <1>3, MinedIs DEF Clean, CleanBut
      <3>2. CleanBut(k, NoRequest)
        BY <1>3 DEF Clean
      <3>3. CleanBut(k, NoRequest)'
        BY <1>0, <1>3, <2>2, <3>1, <3>2, CleanKept
      <3>. QED BY <3>3 DEF Clean
    <2>. QED BY <2>1, <2>2
  <1>. QED BY <1>0, <1>1, <1>2, <1>3 DEF Accounted

LEMMA FundsNext == TypeInv /\ KeyUse /\ FundsInv /\ [Next]_vars => FundsInv'
  <1>. SUFFICES ASSUME TypeInv, KeyUse, FundsInv, [Next]_vars, faults' = 0
                PROVE  Accounted' /\ OwnTxs' /\ Waits' /\ LinesKnown' /\ SourcesKnown' /\ FreshUnknown'
    BY DEF FundsInv
  <1>1. Accounted'
    BY AccountedNext DEF Accounted
  <1>2. OwnTxs' /\ Waits'
    BY FundsNow, OwnNext, WaitsNext
  <1>3. LinesKnown' /\ FreshUnknown'
    BY LinesNext, FreshNext
  <1>4. SourcesKnown'
    BY FundsNow, SourcesNext
  <1>. QED BY <1>1, <1>2, <1>3, <1>4

LEMMA FundsInit == Init => FundsInv
  <1>. SUFFICES ASSUME Init PROVE FundsInv
    OBVIOUS
  <1>1. /\ line = 1 /\ imported = {} /\ discarded = {} /\ pool = [k \in Keys |-> <<>>]
        /\ tokens = [k \in Keys |-> 0] /\ Addrs = {2}
        /\ \A k \in Keys \ {1, 2} : native[k] = 0
        /\ DOMAIN batches = {1} /\ batches[1].boss = 1 /\ batches[1].status = "active"
    BY DEF Init, Addrs
  <1>2. \A r \in Requests : /\ pc[r] = "idle" /\ job[r].op = "none" /\ ~job[r].failed
    BY NoJobTyped DEF Init
  <1>3. 1 \in Known /\ 2 \in Known
    <2>1. 1 \in Rows /\ Boss(1) = 1
      BY <1>1 DEF Rows, Boss
    <2>. QED BY <1>1, <2>1 DEF Known, Bosses
  <1>4. Accounted
    BY <1>1, <1>3 DEF Accounted, Clean, CleanBut
  <1>5. OwnTxs
    BY <1>1 DEF OwnTxs
  <1>6. Waits /\ SourcesKnown /\ FreshUnknown
    BY <1>2 DEF Waits, SourcesKnown, FreshUnknown
  <1>7. LinesKnown
    BY <1>1, <1>2, <1>3, KeysNat DEF LinesKnown
  <1>. QED BY <1>4, <1>5, <1>6, <1>7 DEF FundsInv

LEMMA FundsInductive == Spec => [](TypeInv /\ KeyUse /\ FundsInv)
  BY TypeInit, TypeNext, KeyUseInit, KeyUseNext, FundsInit, FundsNext, PTL DEF Spec

\* KeysKept: as long as no request fails, no key that holds something is lost.
\* Start, nextWallet, addLine and a stale write of autoSwap may take a key out of
\* the tables only when a batch, a wallet row or a request still has it.
THEOREM KeysNotLost == Spec => []KeysKept
  <1>1. TypeInv /\ FundsInv => KeysKept
    <2>. SUFFICES ASSUME TypeInv, FundsInv, faults = 0, NEW k \in Keys, native[k] > 0 \/ tokens[k] > 0
                  PROVE  k \in Stored \cup InHand \cup imported \cup discarded
      BY DEF KeysKept, Funded
    <2>1. ~Clean(k)
      BY DEF Clean, CleanBut
    <2>2. k \in Known \/ \E r \in Requests : job[r].new = k
      BY <2>1 DEF FundsInv, Accounted
    <2>3. Known \subseteq Stored \cup imported \cup discarded
      <3>1. TypeOK
        BY DEF TypeInv
      <3>2. NoKey \notin Bosses \cup Addrs
        BY <3>1, KeysNat, BatchesSeq, AddrsTyped DEF Bosses
      <3>. QED BY <3>2 DEF Known, Stored, Bosses, Addrs
    <2>. QED BY <2>2, <2>3 DEF InHand
  <1>. QED BY <1>1, FundsInductive, PTL
=============================================================================
