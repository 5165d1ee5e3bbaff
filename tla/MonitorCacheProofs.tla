--------------------------- MODULE MonitorCacheProofs ---------------------------
(* Theorems about MonitorCache, for any users, requests and workers. *)
EXTENDS MonitorCache, FiniteSetTheorems, WellFoundedInduction, TLAPS

-----------------------------------------------------------------------------
(* Type correctness.                                                       *)

\* Rows have a wallet, so no written row looks like a missing one; the holder of
\* the load mutex is the worker that loads.
Named ==
  /\ \A u \in Users : user[u] = NoRow \/ user[u].wallet # "none"
  /\ \A r \in Requests : req[r].row = NoRow \/ req[r].row.wallet # "none"
LoadHeld == \A w \in Workers : worker[w].pc = "load" <=> loadMu = w
TypeInv == TypeOK /\ Named /\ LoadHeld

LEMMA UsersNat == /\ Users \subseteq Nat \ {0} /\ Users \subseteq 0 .. MaxUser
                  /\ 0 \in 0 .. MaxUser /\ 1 \in Users
  BY MonitorAssumption DEF MonitorAssumption, Users

\* A set of users has a first one.
LEMMA FirstIn == ASSUME NEW S \in SUBSET Users, S # {} PROVE First(S) \in S
  <1>. DEFINE R == {p \in Nat \X Nat : p[1] < p[2]}
  <1>1. IsWellFoundedOn(R, Nat)
    BY NatLessThanWellFounded DEF OpToRel
  <1>2. PICK u \in S : \A v \in S : ~(<<v, u>> \in R)
    BY <1>1, WFMin, UsersNat
  <1>3. \A v \in S : /\ v \in Nat /\ u \in Nat /\ <<v, u>> \in Nat \X Nat
                     /\ <<v, u>>[1] = v /\ <<v, u>>[2] = u
    BY UsersNat
  <1>4. \A v \in S : ~(v < u)
    BY <1>2, <1>3
  <1>5. \E x \in S : \A v \in S : x <= v
    <2>1. ASSUME NEW v \in S PROVE u <= v
      <3>1. v \in Nat /\ u \in Nat /\ ~(v < u)
        BY <1>3, <1>4
      <3>. QED BY <3>1
    <2>. QED BY <2>1
  <1>. QED BY <1>5 DEF First

LEMMA FixedTyped ==
  /\ NoRow \in UserRow /\ NoCopies \in Copies /\ Idle \in Request /\ NoRefresh \in Refresh
  /\ NoRoutes \in RouteEntry /\ IdleWorker \in Worker /\ Done \in Request
  /\ Idle.row = NoRow /\ Done.row = NoRow
  BY UsersNat DEF NoRow, UserRow, Wallets, NoCopies, Copies, Switch, Idle, Request, Ops, UserOps,
         RequestPCs, NoRefresh, Refresh, NoRoutes, RouteEntry, IdleWorker, Worker, Done

\* The three ways in which a request goes on.
LEMMA ReqTyped ==
  ASSUME TypeInv, NEW r \in Requests,
         \/ End(r) \/ \E pc \in RequestPCs : Goto(r, pc)
         \/ \E op \in Ops, u \in 0 .. MaxUser, pc \in RequestPCs : Enter(r, op, u, pc)
  PROVE  /\ req' \in [Requests -> Request]
         /\ \A q \in Requests : req'[q].row = NoRow \/ req'[q].row.wallet # "none"
  <1>1. req \in [Requests -> Request]
        /\ \A q \in Requests : req[q].row = NoRow \/ req[q].row.wallet # "none"
    BY DEF TypeInv, TypeOK, Named
  <1>2. CASE End(r)
    BY <1>1, <1>2, FixedTyped DEF End
  <1>3. ASSUME NEW pc \in RequestPCs, Goto(r, pc)
        PROVE  /\ req' \in [Requests -> Request]
               /\ \A q \in Requests : req'[q].row = NoRow \/ req'[q].row.wallet # "none"
    <2>1. [req[r] EXCEPT !.pc = pc] \in Request /\ [req[r] EXCEPT !.pc = pc].row = req[r].row
      BY <1>1 DEF Request
    <2>2. req' = [req EXCEPT ![r] = [req[r] EXCEPT !.pc = pc]]
      BY <1>1, <1>3 DEF Goto
    <2>. QED BY <1>1, <2>1, <2>2
  <1>4. ASSUME NEW op \in Ops, NEW u \in 0 .. MaxUser, NEW pc \in RequestPCs, Enter(r, op, u, pc)
        PROVE  /\ req' \in [Requests -> Request]
               /\ \A q \in Requests : req'[q].row = NoRow \/ req'[q].row.wallet # "none"
    <2>1. /\ [Idle EXCEPT !.pc = pc, !.op = op, !.u = u] \in Request
          /\ [Idle EXCEPT !.pc = pc, !.op = op, !.u = u].row = NoRow
      BY FixedTyped DEF Request, Idle
    <2>. QED BY <1>1, <1>4, <2>1 DEF Enter
  <1>. QED BY <1>2, <1>3, <1>4

LEMMA OverlapTyped ==
  ASSUME TypeInv, Overlap \/ UNCHANGED overlapped
  PROVE  /\ overlapped' \in [load : BOOLEAN, cache : BOOLEAN]
         /\ overlapped'.cache = overlapped.cache
         /\ overlapped'.load = (loadMu # Nobody) \/ overlapped'.load = overlapped.load
  BY DEF Overlap, TypeInv, TypeOK

LEMMA UpsertTyped ==
  ASSUME TypeInv, NEW u, NEW on \in BOOLEAN, Upserted(u, on)
  PROVE  /\ token' \in [Users -> Switch]
         /\ \A v \in Users : user[v] = NoRow => token'[v] = "none"
  BY DEF Upserted, TypeInv, TypeOK, Switch

LEMMA InvalidatedTyped ==
  ASSUME TypeInv, Invalidated
  PROVE  /\ timed' = FALSE /\ aged' \in BOOLEAN /\ cached' \in Copies /\ targets' \subseteq Users
         /\ routeCache' \in [Users -> RouteEntry] /\ worker' \in [Workers -> Worker]
         /\ \A w \in Workers : worker'[w].pc = worker[w].pc
  <1>1. \A w \in Workers : worker[w] \in Worker
    BY DEF TypeInv, TypeOK
  <1>2. \A w \in Workers : /\ [worker[w] EXCEPT !.cacheAt = "gone"] \in Worker
                           /\ [worker[w] EXCEPT !.cacheAt = "gone"].pc = worker[w].pc
    BY <1>1 DEF Worker
  <1>. QED BY <1>1, <1>2, FixedTyped DEF Invalidated, TypeInv, TypeOK

\* The requests that look for the user first, or merge a row.
LEMMA TypeStarts ==
  ASSUME TypeInv, NEW r \in Requests,
         \/ StartAddToken(r) \/ StartSaveRoute(r) \/ StartSyncTokens(r)
         \/ StartUpdateUser(r) \/ StartNewUser(r)
  PROVE  TypeInv'
  <1>1. UNCHANGED <<tables, refreshMu, refresh, cache, loading, worker, happened>>
    BY DEF StartAddToken, StartSaveRoute, StartSyncTokens, CheckUser, StartUpdateUser, StartNewUser
  <1>2. /\ req' \in [Requests -> Request]
        /\ \A q \in Requests : req'[q].row = NoRow \/ req'[q].row.wallet # "none"
    <2>1. CASE StartAddToken(r) \/ StartSaveRoute(r) \/ StartSyncTokens(r)
      <3>1. End(r) \/ \E op \in Ops, u \in 0 .. MaxUser, pc \in RequestPCs : Enter(r, op, u, pc)
        BY <2>1, UsersNat
        DEF StartAddToken, StartSaveRoute, StartSyncTokens, CheckUser, Ops, RequestPCs
      <3>. QED BY <3>1, ReqTyped
    <2>2. CASE StartUpdateUser(r)
      <3>1. PICK u \in Users, on \in BOOLEAN :
              req' = [req EXCEPT ![r] = [pc |-> "write", op |-> "updateUser", u |-> u,
                                         row |-> user[u], on |-> on]]
        <4>1. PICK u \in Users, body \in {"absent", "off", "on"} :
                req' = [req EXCEPT ![r] =
                  [pc |-> "write", op |-> "updateUser", u |-> u, row |-> user[u],
                   on |-> IF body = "absent" THEN user[u] = NoRow \/ user[u].on ELSE body = "on"]]
          BY <2>2 DEF StartUpdateUser
        <4>2. (IF body = "absent" THEN user[u] = NoRow \/ user[u].on ELSE body = "on") \in BOOLEAN
          BY DEF TypeInv, TypeOK, UserRow
        <4>. QED BY <4>1, <4>2
      <3>2. [pc |-> "write", op |-> "updateUser", u |-> u, row |-> user[u], on |-> on] \in Request
        BY UsersNat DEF Request, RequestPCs, Ops, UserOps, TypeInv, TypeOK
      <3>. QED BY <3>1, <3>2 DEF TypeInv, TypeOK, Named
    <2>3. CASE StartNewUser(r)
      <3>1. [pc |-> "write", op |-> "newUser", u |-> NextUserID, row |-> NoRow, on |-> TRUE] \in Request
        BY <2>3, UsersNat, FixedTyped DEF StartNewUser, Request, RequestPCs, Ops, UserOps
      <3>. QED BY <2>3, <3>1 DEF StartNewUser, TypeInv, TypeOK, Named
    <2>. QED BY <2>1, <2>2, <2>3
  <1>. QED BY <1>1, <1>2 DEF TypeInv, TypeOK, Named, LoadHeld, tables, cache, loading

\* The writes of the rows of users and tokens.
LEMMA TypeWrites ==
  ASSUME TypeInv, NEW r \in Requests,
         \/ WriteUser(r) \/ DeleteUser(r) \/ SetToken(r) \/ DeleteToken(r)
         \/ AddToken(r) \/ StartAve(r) \/ GiveUp(r)
  PROVE  TypeInv'
  <1>0. UNCHANGED <<routes, refreshMu, refresh, cache, loadMu, snap, worker, happened>>
    BY DEF WriteUser, DeleteUser, SetToken, DeleteToken, AddToken, StartAve, GiveUp
  <1>1. overlapped' \in [load : BOOLEAN, cache : BOOLEAN]
    BY OverlapTyped
    DEF WriteUser, DeleteUser, SetToken, DeleteToken, AddToken, StartAve, GiveUp
  <1>2. /\ req' \in [Requests -> Request]
        /\ \A q \in Requests : req'[q].row = NoRow \/ req'[q].row.wallet # "none"
    <2>1. \/ End(r) \/ \E pc \in RequestPCs : Goto(r, pc)
          \/ \E op \in Ops, u \in 0 .. MaxUser, pc \in RequestPCs : Enter(r, op, u, pc)
      <3>1. req[r].u \in 0 .. MaxUser /\ req[r].op \in Ops
        BY DEF TypeInv, TypeOK, Request
      <3>2. CASE WriteUser(r)
        BY <3>1, <3>2 DEF WriteUser, RequestPCs
      <3>3. CASE DeleteUser(r) \/ SetToken(r) \/ DeleteToken(r)
        BY <3>3, UsersNat DEF DeleteUser, SetToken, DeleteToken, RequestPCs, Ops, UserOps
      <3>4. CASE AddToken(r) \/ StartAve(r) \/ GiveUp(r)
        BY <3>4, UsersNat DEF AddToken, StartAve, GiveUp, RequestPCs, Ops
      <3>. QED BY <3>2, <3>3, <3>4
    <2>. QED BY <2>1, ReqTyped
  <1>3. /\ user' \in [Users -> UserRow] /\ token' \in [Users -> Switch]
        /\ \A u \in Users : user'[u] = NoRow => token'[u] = "none"
        /\ \A u \in Users : user'[u] = NoRow \/ user'[u].wallet # "none"
    <2>1. CASE WriteUser(r)
      <3>. DEFINE u == req[r].u
                  had == req[r].row # NoRow
                  row == [on |-> req[r].on, wallet |-> IF had THEN req[r].row.wallet ELSE r,
                          key |-> IF user[u] # NoRow THEN user[u].key ELSE IF had THEN "none" ELSE r]
      <3>1. user' = [user EXCEPT ![u] = row]
        BY <2>1 DEF WriteUser, TypeInv, TypeOK
      <3>2. req[r] \in Request
        BY DEF TypeInv, TypeOK
      <3>3. row.wallet # "none" /\ row.wallet \in Wallets
        BY <3>2, MonitorAssumption DEF TypeInv, Named, Request, UserRow, Wallets, MonitorAssumption
      <3>4. u \in Users => row.key \in Wallets
        BY DEF TypeInv, TypeOK, UserRow, Wallets
      <3>5. row.on \in BOOLEAN
        BY <3>2 DEF Request
      <3>6. u \in Users => row \in UserRow
        BY <3>3, <3>4, <3>5 DEF UserRow
      <3>7. user' \in [Users -> UserRow] /\ \A v \in Users : v # u => user'[v] = user[v]
        BY <3>1, <3>6 DEF TypeInv, TypeOK
      <3>8. u \in Users => user'[u] = row /\ row # NoRow
        <4>1. NoRow.wallet = "none"
          BY DEF NoRow
        <4>. QED BY <3>1, <3>3, <4>1 DEF TypeInv, TypeOK
      <3>. HIDE DEF row
      <3>. QED BY <2>1, <3>3, <3>7, <3>8 DEF WriteUser, TypeInv, TypeOK, Named
    <2>2. CASE DeleteUser(r)
      BY <2>2, FixedTyped DEF DeleteUser, TypeInv, TypeOK, Named, Switch
    <2>3. CASE SetToken(r)
      BY <2>3 DEF SetToken, TypeInv, TypeOK, Named, Switch
    <2>4. CASE DeleteToken(r)
      BY <2>4 DEF DeleteToken, TypeInv, TypeOK, Named, Switch
    <2>5. CASE AddToken(r) \/ StartAve(r)
      <3>1. UNCHANGED user
        BY <2>5 DEF AddToken, StartAve
      <3>2. PICK u \in Users \cup {req[r].u}, on \in BOOLEAN : Upserted(u, on)
        BY <2>5 DEF AddToken, StartAve
      <3>. QED BY <3>1, <3>2, UpsertTyped DEF TypeInv, TypeOK, Named
    <2>6. CASE GiveUp(r)
      BY <2>6 DEF GiveUp, TypeInv, TypeOK, Named, Switch
    <2>. QED BY <2>1, <2>2, <2>3, <2>4, <2>5, <2>6
  <1>. QED BY <1>0, <1>1, <1>2, <1>3 DEF TypeInv, TypeOK, Named, LoadHeld, cache

\* The other steps of a request.
LEMMA TypeRequests ==
  ASSUME TypeInv, NEW r \in Requests,
         \/ Discover(r) \/ SaveRoutes(r) \/ SaveFails(r) \/ DeleteRoute(r) \/ Invalidate(r)
         \/ SyncReadTokens(r) \/ SyncLock(r)
  PROVE  TypeInv'
  <1>1. /\ req' \in [Requests -> Request]
        /\ \A q \in Requests : req'[q].row = NoRow \/ req'[q].row.wallet # "none"
    <2>1. End(r) \/ \E pc \in RequestPCs : Goto(r, pc)
      BY DEF Discover, SaveRoutes, SaveFails, DeleteRoute, Invalidate, SyncReadTokens, SyncLock,
             RequestPCs
    <2>. QED BY <2>1, ReqTyped
  <1>2. routes' \in [Users -> SUBSET Directions] /\ happened' \in 0 .. MaxHappenings
    <2>1. routes \in [Users -> SUBSET Directions] /\ happened \in 0 .. MaxHappenings
      BY DEF TypeInv, TypeOK
    <2>2. CASE SaveRoutes(r)
      BY <2>1, <2>2 DEF SaveRoutes, Directions
    <2>3. CASE SaveFails(r)
      BY <2>1, <2>3, MonitorAssumption DEF SaveFails, Happens, tables, MonitorAssumption
    <2>4. CASE DeleteRoute(r)
      BY <2>1, <2>4 DEF DeleteRoute
    <2>. QED BY <2>1, <2>2, <2>3, <2>4
         DEF Discover, Invalidate, SyncReadTokens, SyncLock, tables
  <1>3. CASE Invalidate(r)
    <2>1. \/ Invalidated /\ UNCHANGED <<tables, refreshMu, refresh, loading, happened>>
      BY <1>3 DEF Invalidate
    <2>. QED BY <1>1, <2>1, InvalidatedTyped DEF TypeInv, TypeOK, Named, LoadHeld, tables, loading
  <1>4. CASE SyncLock(r)
    <2>1. /\ refreshMu' = r /\ refresh' \in Refresh /\ r # Nobody
      BY <1>4, FixedTyped, UsersNat, MonitorAssumption
      DEF SyncLock, Refresh, NoRefresh, TypeInv, TypeOK, Request, MonitorAssumption, Refreshers
    <2>. QED BY <1>1, <1>4, <2>1
         DEF SyncLock, TypeInv, TypeOK, Named, LoadHeld, tables, cache, loading, Refreshers
  <1>5. CASE Discover(r) \/ SaveRoutes(r) \/ SaveFails(r) \/ DeleteRoute(r) \/ SyncReadTokens(r)
    <2>1. UNCHANGED <<user, token, refreshMu, refresh, cache, loading, worker>>
      BY <1>5 DEF Discover, SaveRoutes, SaveFails, DeleteRoute, SyncReadTokens, tables
    <2>. QED BY <1>1, <1>2, <2>1 DEF TypeInv, TypeOK, Named, LoadHeld, cache, loading
  <1>. QED BY <1>3, <1>4, <1>5

\* The refresh from AVE.
LEMMA TypeRefresh == ASSUME TypeInv, JobStart \/ RefreshStep PROVE TypeInv'
  <1>1. /\ refresh \in Refresh /\ refreshMu \in Refreshers \cup {Nobody}
        /\ refreshMu = Nobody => refresh.has = 0 /\ refresh = NoRefresh
    BY DEF TypeInv, TypeOK, NoRefresh
  <1>2. CASE JobStart
    <2>1. happened' \in 0 .. MaxHappenings
      BY <1>2, MonitorAssumption DEF JobStart, Happens, TypeInv, TypeOK, MonitorAssumption
    <2>2. refresh' \in Refresh /\ refreshMu' = Job /\ Job # Nobody
      BY <1>2, FixedTyped, MonitorAssumption
      DEF JobStart, Refresh, NoRefresh, MonitorAssumption, Refreshers
    <2>. QED BY <1>2, <2>1, <2>2
         DEF JobStart, TypeInv, TypeOK, Named, LoadHeld, tables, cache, loading, Refreshers
  <1>3. CASE JobReadTokens
    <2>1. First(refresh.todo) \in Users
      BY <1>1, <1>3, FirstIn DEF JobReadTokens, Refresh
    <2>2. refresh' \in Refresh
      BY <1>1, <1>3, <2>1, UsersNat DEF JobReadTokens, Refresh
    <2>3. Job # Nobody
      BY MonitorAssumption DEF MonitorAssumption, Refreshers
    <2>. QED BY <1>3, <2>2, <2>3
         DEF JobReadTokens, TypeInv, TypeOK, Named, LoadHeld, tables, cache, loading
  <1>4. CASE WriteBack
    <2>1. refresh' \in Refresh /\ refreshMu # Nobody
      BY <1>1, <1>4, UsersNat DEF WriteBack, Refresh
    <2>2. overlapped' \in [load : BOOLEAN, cache : BOOLEAN]
      BY <1>4, OverlapTyped DEF WriteBack
    <2>3. /\ token' \in [Users -> Switch]
          /\ \A v \in Users : user[v] = NoRow => token'[v] = "none"
      BY <1>4, UpsertTyped DEF WriteBack
    <2>. QED BY <1>4, <2>1, <2>2, <2>3
         DEF WriteBack, TypeInv, TypeOK, Named, LoadHeld, cache
  <1>5. CASE AveFails
    <2>1. refresh' \in Refresh /\ refreshMu # Nobody
      BY <1>1, <1>5, UsersNat DEF AveFails, Refresh
    <2>. QED BY <1>5, <2>1
         DEF AveFails, TypeInv, TypeOK, Named, LoadHeld, tables, cache, loading
  <1>6. CASE RefreshEnds
    <2>1. /\ req' \in [Requests -> Request]
          /\ \A q \in Requests : req'[q].row = NoRow \/ req'[q].row.wallet # "none"
      BY <1>6, FixedTyped DEF RefreshEnds, TypeInv, TypeOK, Named
    <2>. QED BY <1>6, <2>1, InvalidatedTyped, FixedTyped
         DEF RefreshEnds, TypeInv, TypeOK, Named, LoadHeld, tables, loading
  <1>. QED BY <1>2, <1>3, <1>4, <1>5, <1>6 DEF RefreshStep

\* The engine.
LEMMA WorkerField ==
  ASSUME TypeInv, NEW w \in Workers
  PROVE  /\ \A pc \in {"idle", "refresh", "load", "read", "query", "store"} :
              [worker EXCEPT ![w].pc = pc] \in [Workers -> Worker]
         /\ \A row \in Worker : [worker EXCEPT ![w] = row] \in [Workers -> Worker]
         /\ worker[w] \in Worker
  BY DEF TypeInv, TypeOK, Worker

\* The next reading of an event, or its end.
GoesOn(w) == [worker[w] EXCEPT !.pc = "refresh", !.at = Following[worker[w].at]]
LEMMA ContinueTyped ==
  ASSUME TypeInv, NEW w \in Workers,
         \/ worker' = [worker EXCEPT ![w] = GoesOn(w)]
         \/ worker' = [worker EXCEPT ![w] = IdleWorker],
         worker[w].at \in {"targets", "user", "enabled"}
  PROVE  /\ worker' \in [Workers -> Worker] /\ worker'[w].pc \in {"refresh", "idle"}
         /\ \A x \in Workers : x # w => worker'[x] = worker[x]
  <1>1. Following[worker[w].at] \in {"user", "enabled", "routes"}
    BY DEF Following
  <1>2. GoesOn(w) \in Worker /\ GoesOn(w).pc = "refresh"
    BY <1>1, WorkerField DEF Worker, GoesOn
  <1>3. IdleWorker \in Worker /\ IdleWorker.pc = "idle"
    BY FixedTyped DEF IdleWorker
  <1>. QED BY <1>2, <1>3 DEF TypeInv, TypeOK

LEMMA ReadsContinue ==
  ASSUME TypeInv, NEW w \in Workers, ReadTargets(w) \/ ReadUser(w) \/ ReadEnabled(w)
  PROVE  \/ worker' = [worker EXCEPT ![w] = GoesOn(w)]
         \/ worker' = [worker EXCEPT ![w] = IdleWorker]
  <1>1. worker \in [Workers -> Worker]
    BY DEF TypeInv, TypeOK
  <1>2. CASE ReadTargets(w)
    BY <1>1, <1>2 DEF ReadTargets, Continue, GoesOn
  <1>3. CASE ReadUser(w)
    BY <1>1, <1>3 DEF ReadUser, Continue, GoesOn
  <1>4. CASE ReadEnabled(w)
    BY <1>1, <1>4 DEF ReadEnabled, Continue, GoesOn
  <1>. QED BY <1>2, <1>3, <1>4

\* What a worker does without the load mutex and without the cache.
LEMMA TypeReads ==
  ASSUME TypeInv, NEW w \in Workers,
         \/ Event(w) \/ NoLoad(w) \/ ReadTargets(w) \/ ReadUser(w) \/ ReadEnabled(w)
         \/ ReadRoutes(w) \/ QueryRoutes(w)
  PROVE  TypeInv'
  <1>1. UNCHANGED <<tables, requests, cache, loading, happened>>
    BY DEF Event, NoLoad, ReadTargets, ReadUser, ReadEnabled, ReadRoutes, QueryRoutes
  <1>2. /\ worker' \in [Workers -> Worker]
        /\ worker[w].pc # "load" /\ worker'[w].pc # "load"
        /\ \A x \in Workers : x # w => worker'[x] = worker[x]
    <2>1. worker \in [Workers -> Worker] /\ worker[w] \in Worker
      BY WorkerField DEF TypeInv, TypeOK
    <2>2. CASE Event(w)
      <3>1. \A u \in Users : [IdleWorker EXCEPT !.pc = "refresh", !.u = u] \in Worker
        BY FixedTyped DEF Worker, IdleWorker
      <3>2. PICK u \in Users : /\ worker' = [worker EXCEPT ![w] = [IdleWorker EXCEPT !.pc = "refresh", !.u = u]]
                               /\ worker[w].pc = "idle"
        BY <2>2 DEF Event
      <3>3. worker'[w].pc = "refresh"
        BY <2>1, <3>2 DEF IdleWorker
      <3>. QED BY <2>1, <3>1, <3>2, <3>3
    <2>3. CASE NoLoad(w)
      <3>1. worker' = [worker EXCEPT ![w].pc = "read"] /\ worker[w].pc = "refresh"
        BY <2>3 DEF NoLoad
      <3>2. worker'[w].pc = "read"
        BY <2>1, <3>1 DEF Worker
      <3>. QED BY <2>1, <3>1, <3>2, WorkerField
    <2>4. CASE ReadTargets(w) \/ ReadUser(w) \/ ReadEnabled(w)
      <3>1. worker[w].pc = "read" /\ worker[w].at \in {"targets", "user", "enabled"}
        BY <2>4 DEF ReadTargets, ReadUser, ReadEnabled
      <3>4. /\ worker' \in [Workers -> Worker] /\ worker'[w].pc \in {"refresh", "idle"}
            /\ \A x \in Workers : x # w => worker'[x] = worker[x]
        BY <2>4, <3>1, ReadsContinue, ContinueTyped
      <3>. QED BY <3>1, <3>4
    <2>5. CASE ReadRoutes(w)
      <3>. DEFINE next == [worker[w] EXCEPT !.pc = "query", !.cacheAt = IF timed THEN "same" ELSE "never"]
      <3>1. next \in Worker /\ next.pc = "query"
        BY <2>1 DEF Worker
      <3>2. IdleWorker \in Worker /\ IdleWorker.pc = "idle"
        BY FixedTyped DEF IdleWorker
      <3>3. worker' \in {[worker EXCEPT ![w] = IdleWorker], [worker EXCEPT ![w] = next]}
        BY <2>1, <2>5 DEF ReadRoutes
      <3>. HIDE DEF next
      <3>4. worker[w].pc = "read"
        BY <2>5 DEF ReadRoutes
      <3>. QED BY <2>1, <3>1, <3>2, <3>3, <3>4
    <2>6. CASE QueryRoutes(w)
      <3>. DEFINE found == [known |-> TRUE, dirs |-> routes[worker[w].u], recent |-> TRUE]
                  next == [worker[w] EXCEPT !.pc = "store", !.found = found]
      <3>1. found \in RouteEntry
        BY <2>1 DEF RouteEntry, Worker, TypeInv, TypeOK
      <3>2. next \in Worker /\ next.pc = "store"
        BY <2>1, <3>1 DEF Worker
      <3>3. worker' = [worker EXCEPT ![w] = next] /\ worker[w].pc = "query"
        BY <2>1, <2>6 DEF QueryRoutes
      <3>. HIDE DEF next
      <3>. QED BY <2>1, <3>2, <3>3
    <2>. QED BY <2>2, <2>3, <2>4, <2>5, <2>6
  <1>. QED BY <1>1, <1>2
       DEF TypeInv, TypeOK, Named, LoadHeld, tables, requests, cache, loading

\* The worker that loads holds the load mutex alone.
LEMMA TypeLoads ==
  ASSUME TypeInv, NEW w \in Workers, LoadUsers(w) \/ LoadTokens(w) \/ Install(w) \/ LoadFails(w)
  PROVE  TypeInv'
  <1>1. /\ worker \in [Workers -> Worker] /\ worker[w] \in Worker /\ Nobody \notin Workers
        /\ snap \in [of : Copies, todo : SUBSET Users] /\ snap.of \in Copies
        /\ overlapped \in [load : BOOLEAN, cache : BOOLEAN]
        /\ \A u \in Users : token[u] \in Switch /\ UserSwitch(u) \in Switch
        /\ [of |-> NoCopies, todo |-> {}] \in [of : Copies, todo : SUBSET Users]
    BY WorkerField, FixedTyped, MonitorAssumption
    DEF TypeInv, TypeOK, MonitorAssumption, UserSwitch, Switch
  <1>2. \A x \in Workers : worker[x].pc = "load" <=> loadMu = x
    BY DEF TypeInv, LoadHeld
  <1>3. CASE LoadUsers(w)
    <2>1. snap' \in [of : Copies, todo : SUBSET Users]
      <3>1. [NoCopies EXCEPT !.users = [u \in Users |-> UserSwitch(u)]] \in Copies
        BY <1>1, FixedTyped DEF Copies, NoCopies
      <3>. QED BY <1>3, <3>1 DEF LoadUsers, Rows
    <2>2. overlapped' \in [load : BOOLEAN, cache : BOOLEAN]
      BY <1>1, <1>3 DEF LoadUsers
    <2>3. /\ worker' \in [Workers -> Worker] /\ loadMu' = w /\ loadMu = Nobody
          /\ worker'[w].pc = "load" /\ \A x \in Workers : x # w => worker'[x] = worker[x]
      BY <1>1, <1>3, WorkerField DEF LoadUsers, Worker
    <2>. QED BY <1>1, <1>2, <1>3, <2>1, <2>2, <2>3
         DEF LoadUsers, TypeInv, TypeOK, Named, LoadHeld, tables, requests, cache
  <1>4. CASE LoadTokens(w)
    <2>1. snap' \in [of : Copies, todo : SUBSET Users]
      <3>1. First(snap.todo) \in Users
        BY <1>1, <1>4, FirstIn DEF LoadTokens
      <3>2. PICK u \in Users :
              snap' = [of |-> [snap.of EXCEPT !.tokens[u] = token[u]], todo |-> snap.todo \ {u}]
        BY <1>4, <3>1 DEF LoadTokens
      <3>3. [snap.of EXCEPT !.tokens[u] = token[u]] \in Copies
        BY <1>1 DEF Copies
      <3>. QED BY <1>1, <3>2, <3>3
    <2>. QED BY <1>4, <2>1
         DEF LoadTokens, TypeInv, TypeOK, Named, LoadHeld, tables, requests, cache
  <1>5. CASE Install(w)
    <2>1. /\ worker' \in [Workers -> Worker]
          /\ \A x \in Workers : worker'[x].pc = IF x = w THEN "read" ELSE worker[x].pc
      <3>. DEFINE new(x) == [worker[x] EXCEPT !.pc = IF x = w THEN "read" ELSE worker[x].pc,
                               !.cacheAt = IF worker[x].cacheAt = "same" THEN "gone" ELSE worker[x].cacheAt,
                               !.found.recent = FALSE]
      <3>1. worker' = [x \in Workers |-> new(x)]
        BY <1>5 DEF Install
      <3>2. ASSUME NEW x \in Workers
            PROVE  new(x) \in Worker /\ new(x).pc = IF x = w THEN "read" ELSE worker[x].pc
        <4>1. worker[x] \in Worker /\ [worker[x].found EXCEPT !.recent = FALSE] \in RouteEntry
          BY <1>1 DEF Worker, RouteEntry
        <4>. QED BY <4>1 DEF Worker
      <3>. HIDE DEF new
      <3>. QED BY <3>1, <3>2
    <2>2. /\ routeCache' \in [Users -> RouteEntry] /\ cached' \in Copies /\ targets' \subseteq Users
          /\ timed' \in BOOLEAN /\ aged' \in BOOLEAN
          /\ overlapped' \in [load : BOOLEAN, cache : BOOLEAN]
      BY <1>1, <1>5, FixedTyped DEF Install
    <2>3. LoadHeld' /\ loadMu' = Nobody /\ \A x \in Workers : worker'[x].pc # "load"
      <3>1. loadMu = w /\ loadMu' = Nobody
        BY <1>2, <1>5 DEF Install
      <3>2. \A x \in Workers : worker'[x].pc # "load"
        BY <1>2, <2>1, <3>1
      <3>. QED BY <1>1, <3>1, <3>2 DEF LoadHeld
    <2>. QED BY <1>1, <1>5, <2>1, <2>2, <2>3
         DEF Install, TypeInv, TypeOK, Named, tables, requests
  <1>6. CASE LoadFails(w)
    <2>1. /\ worker' \in [Workers -> Worker] /\ worker'[w].pc \in {"idle", "read"}
          /\ \A x \in Workers : x # w => worker'[x] = worker[x]
      <3>1. [worker[w] EXCEPT !.pc = "read"] \in Worker /\ [worker[w] EXCEPT !.pc = "read"].pc = "read"
        BY <1>1 DEF Worker
      <3>2. IdleWorker \in Worker /\ IdleWorker.pc = "idle"
        BY FixedTyped DEF IdleWorker
      <3>3. worker' \in {[worker EXCEPT ![w] = IdleWorker],
                         [worker EXCEPT ![w] = [worker[w] EXCEPT !.pc = "read"]]}
        BY <1>1, <1>6 DEF LoadFails
      <3>4. \A row \in Worker : /\ [worker EXCEPT ![w] = row] \in [Workers -> Worker]
                                /\ [worker EXCEPT ![w] = row][w] = row
                                /\ \A x \in Workers : x # w => [worker EXCEPT ![w] = row][x] = worker[x]
        BY <1>1
      <3>5. CASE worker' = [worker EXCEPT ![w] = IdleWorker]
        BY <3>2, <3>4, <3>5
      <3>6. CASE worker' = [worker EXCEPT ![w] = [worker[w] EXCEPT !.pc = "read"]]
        BY <3>1, <3>4, <3>6
      <3>. QED BY <3>3, <3>5, <3>6
    <2>2. happened' \in 0 .. MaxHappenings
      BY <1>6, MonitorAssumption DEF LoadFails, Happens, TypeInv, TypeOK, MonitorAssumption
    <2>3. loadMu' = Nobody /\ worker[w].pc = "load"
      BY <1>6 DEF LoadFails
    <2>4. LoadHeld' /\ \A x \in Workers : worker'[x].pc # "load"
      BY <1>1, <1>2, <2>1, <2>3 DEF LoadHeld
    <2>. QED BY <1>1, <1>6, <2>1, <2>2, <2>3, <2>4
         DEF LoadFails, TypeInv, TypeOK, Named, tables, requests, cache
  <1>. QED BY <1>3, <1>4, <1>5, <1>6

LEMMA TypeStoreAge ==
  ASSUME TypeInv, Age \/ \E w \in Workers : StoreRoutes(w)
  PROVE  TypeInv'
  <1>1. CASE Age
    <2>1. happened' \in 0 .. MaxHappenings
      BY <1>1, MonitorAssumption DEF Age, Happens, TypeInv, TypeOK, MonitorAssumption
    <2>. QED BY <1>1, <2>1 DEF Age, TypeInv, TypeOK, Named, LoadHeld, tables, requests, loading
  <1>2. ASSUME NEW w \in Workers, StoreRoutes(w) PROVE TypeInv'
    <2>1. /\ worker' \in [Workers -> Worker] /\ worker'[w].pc = "idle" /\ worker[w].pc = "store"
          /\ \A x \in Workers : x # w => worker'[x] = worker[x]
      BY <1>2, FixedTyped DEF StoreRoutes, TypeInv, TypeOK, IdleWorker
    <2>2. routeCache' \in [Users -> RouteEntry]
      <3>1. worker[w].found \in RouteEntry
        BY WorkerField DEF Worker
      <3>. QED BY <1>2, <3>1 DEF StoreRoutes, TypeInv, TypeOK
    <2>. QED BY <1>2, <2>1, <2>2
         DEF StoreRoutes, TypeInv, TypeOK, Named, LoadHeld, tables, requests, loading
  <1>. QED BY <1>1, <1>2

LEMMA TypeStep == ASSUME TypeInv, [Next]_vars PROVE TypeInv'
  <1>1. CASE UNCHANGED vars
    BY <1>1 DEF vars, TypeInv, TypeOK, Named, LoadHeld, tables, requests, cache, loading
  <1>. QED BY <1>1, TypeStarts, TypeWrites, TypeRequests, TypeRefresh, TypeReads, TypeLoads, TypeStoreAge
       DEF Next, RequestStep, WorkerStep

LEMMA TypeInit == Init => TypeInv
  <1>. SUFFICES ASSUME Init PROVE TypeInv
    OBVIOUS
  <1>0. Nobody \notin Workers /\ MaxHappenings \in Nat /\ 0 \in 0 .. MaxHappenings
    BY MonitorAssumption DEF MonitorAssumption
  <1>1. user \in [Users -> UserRow] /\ \A u \in Users : user[u] = NoRow \/ user[u].wallet = "first"
    BY FixedTyped DEF Init, UserRow, Wallets
  <1>2. /\ token \in [Users -> Switch] /\ routes \in [Users -> SUBSET Directions]
        /\ \A u \in Users : user[u] = NoRow => token[u] = "none"
    BY DEF Init, Switch, Directions, NoRow
  <1>3. /\ req \in [Requests -> Request] /\ routeCache \in [Users -> RouteEntry]
        /\ worker \in [Workers -> Worker] /\ \A w \in Workers : worker[w].pc = "idle"
        /\ \A r \in Requests : req[r].row = NoRow
    BY FixedTyped DEF Init, IdleWorker
  <1>4. /\ refresh \in Refresh /\ cached \in Copies
        /\ snap \in [of : Copies, todo : SUBSET Users]
        /\ overlapped \in [load : BOOLEAN, cache : BOOLEAN]
    BY FixedTyped DEF Init
  <1>. QED BY <1>0, <1>1, <1>2, <1>3, <1>4 DEF Init, TypeInv, TypeOK, Named, LoadHeld

LEMMA TypeInvariant == Spec => []TypeInv
  BY TypeInit, TypeStep, PTL DEF Spec

\* Every variable keeps to its set; a token has its user, and what is held under
\* a mutex is given back with it.
THEOREM TypeCorrect == Spec => []TypeOK
  <1>1. TypeInv => TypeOK
    BY DEF TypeInv
  <1>. QED BY TypeInvariant, <1>1, PTL

-----------------------------------------------------------------------------
(* What a step may change.                                                 *)

\* A request leaves the others alone.
LEMMA OwnRequest ==
  ASSUME TypeInv, NEW r \in Requests, RequestStep(r)
  PROVE  \A q \in Requests \ {r} : req'[q] = req[q]
  <1>1. req \in [Requests -> Request]
    BY DEF TypeInv, TypeOK
  <1>2. CASE StartAddToken(r) \/ StartSaveRoute(r) \/ StartSyncTokens(r)
    BY <1>1, <1>2 DEF StartAddToken, StartSaveRoute, StartSyncTokens, CheckUser, End, Enter
  <1>3. CASE StartUpdateUser(r)
    BY <1>1, <1>3 DEF StartUpdateUser
  <1>4. CASE StartNewUser(r)
    BY <1>1, <1>4 DEF StartNewUser
  <1>5. CASE WriteUser(r) \/ DeleteUser(r) \/ SetToken(r) \/ DeleteToken(r)
    BY <1>1, <1>5 DEF WriteUser, DeleteUser, SetToken, DeleteToken, End, Enter
  <1>6. CASE AddToken(r) \/ StartAve(r) \/ GiveUp(r)
    BY <1>1, <1>6 DEF AddToken, StartAve, GiveUp, End, Enter, Goto
  <1>7. CASE \/ Discover(r) \/ SaveRoutes(r) \/ SaveFails(r) \/ DeleteRoute(r) \/ Invalidate(r)
             \/ SyncReadTokens(r) \/ SyncLock(r)
    BY <1>1, <1>7
    DEF Discover, SaveRoutes, SaveFails, DeleteRoute, Invalidate, SyncReadTokens, SyncLock, End, Goto
  <1>. QED BY <1>2, <1>3, <1>4, <1>5, <1>6, <1>7 DEF RequestStep

\* Where a request is afterwards.
LEMMA AtEnd == ASSUME TypeInv, NEW r \in Requests, End(r) PROVE req'[r] = Done
  BY DEF End, TypeInv, TypeOK
LEMMA AtGoto ==
  ASSUME TypeInv, NEW r \in Requests, NEW pc, Goto(r, pc)
  PROVE  /\ req'[r].pc = pc /\ req'[r].op = req[r].op /\ req'[r].u = req[r].u
         /\ req'[r].row = req[r].row
  BY DEF Goto, TypeInv, TypeOK, Request
LEMMA AtEnter ==
  ASSUME TypeInv, NEW r \in Requests, NEW op, NEW u, NEW pc, Enter(r, op, u, pc)
  PROVE  req'[r].pc = pc /\ req'[r].op = op /\ req'[r].u = u /\ req'[r].row = NoRow
  BY DEF Enter, Idle, TypeInv, TypeOK

Announcing(r) == req[r].pc \in {"invalidate", "published"}

\* Who writes a user or a token has to throw the cache away, and tells a load.
LEMMA RowsChange ==
  ASSUME TypeInv, [Next]_vars
  PROVE  UNCHANGED <<user, token>> \/ (Overlap /\ Unannounced')
  <1>1. ASSUME NEW r \in Requests, RequestStep(r)
        PROVE  UNCHANGED <<user, token>> \/ (Overlap /\ Announcing(r)')
    <2>1. CASE WriteUser(r)
      BY <2>1, AtEnter DEF WriteUser, Announcing
    <2>2. CASE DeleteUser(r)
      BY <2>2, AtEnter DEF DeleteUser, Announcing
    <2>3. CASE SetToken(r)
      BY <2>3, AtEnter DEF SetToken, Announcing
    <2>4. CASE DeleteToken(r)
      BY <2>4, AtEnter DEF DeleteToken, Announcing
    <2>5. CASE AddToken(r)
      BY <2>5, AtGoto DEF AddToken, Upserted, Announcing
    <2>6. CASE StartAve(r)
      BY <2>6, AtEnter DEF StartAve, Upserted, Announcing
    <2>7. CASE GiveUp(r)
      BY <2>7, AtGoto DEF GiveUp, Announcing
    <2>8. CASE \/ StartAddToken(r) \/ StartSaveRoute(r) \/ StartSyncTokens(r) \/ StartUpdateUser(r)
               \/ StartNewUser(r) \/ Discover(r) \/ SaveRoutes(r) \/ SaveFails(r)
               \/ DeleteRoute(r) \/ Invalidate(r) \/ SyncReadTokens(r) \/ SyncLock(r)
      BY <2>8 DEF StartAddToken, StartSaveRoute, StartSyncTokens, CheckUser, StartUpdateUser, StartNewUser,
        Discover, SaveRoutes, SaveFails, DeleteRoute, Invalidate, SyncReadTokens, SyncLock, tables
    <2>. QED BY <1>1, <2>1, <2>2, <2>3, <2>4, <2>5, <2>6, <2>7, <2>8 DEF RequestStep
  <1>2. CASE WriteBack
    <2>1. refresh'.wrote
      BY <1>2 DEF WriteBack, TypeInv, TypeOK, Refresh
    <2>. QED BY <1>2, <2>1 DEF WriteBack, Unannounced
  <1>3. CASE JobStart \/ JobReadTokens \/ AveFails \/ RefreshEnds \/ Age
    BY <1>3 DEF JobStart, JobReadTokens, AveFails, RefreshEnds, Age, tables
  <1>4. ASSUME NEW w \in Workers, Event(w) \/ WorkerStep(w) PROVE UNCHANGED <<user, token>>
    BY <1>4 DEF Event, WorkerStep, NoLoad, LoadUsers, LoadTokens, Install, LoadFails, ReadTargets,
      ReadUser, ReadEnabled, ReadRoutes, QueryRoutes, StoreRoutes, tables
  <1>5. CASE UNCHANGED vars
    BY <1>5 DEF vars, tables
  <1>. QED BY <1>1, <1>2, <1>3, <1>4, <1>5 DEF Next, RefreshStep, Unannounced, Announcing

\* Nothing is announced without taking the time of the cache away.
LEMMA AnnouncedTimeless ==
  ASSUME TypeInv, [Next]_vars, Unannounced
  PROVE  Unannounced' \/ timed' = FALSE
  <1>0. req \in [Requests -> Request] /\ refresh \in Refresh
        /\ (refreshMu = Nobody => ~refresh.wrote)
    BY DEF TypeInv, TypeOK, NoRefresh
  <1>1. ASSUME NEW r \in Requests, RequestStep(r), timed' # FALSE
        PROVE  /\ ~Announcing(r) /\ (refresh.wrote => refresh'.wrote)
    <2>1. ~Invalidate(r)
      BY <1>1 DEF Invalidate, Invalidated
    <2>2. ~Announcing(r)
      BY <1>0, <1>1, <2>1 DEF RequestStep, StartAddToken, StartSaveRoute, StartSyncTokens, CheckUser,
        StartUpdateUser, StartNewUser, WriteUser, DeleteUser, SetToken, DeleteToken, AddToken,
        StartAve, Discover, GiveUp, SaveRoutes, SaveFails, DeleteRoute, SyncReadTokens, SyncLock,
        Begin, Announcing
    <2>3. UNCHANGED refresh \/ SyncLock(r)
      BY <1>1, <2>1 DEF RequestStep, StartAddToken, StartSaveRoute, StartSyncTokens, CheckUser,
        StartUpdateUser, StartNewUser, WriteUser, DeleteUser, SetToken, DeleteToken, AddToken,
        StartAve, Discover, GiveUp, SaveRoutes, SaveFails, DeleteRoute, SyncReadTokens
    <2>. QED BY <1>0, <2>2, <2>3 DEF SyncLock
  <1>2. ASSUME NEW r \in Requests, RequestStep(r) PROVE Unannounced' \/ timed' = FALSE
    BY <1>1, <1>2, OwnRequest DEF Unannounced, Announcing
  <1>3. CASE RefreshEnds
    BY <1>3 DEF RefreshEnds, Invalidated
  <1>4. CASE JobStart \/ JobReadTokens \/ WriteBack \/ AveFails
    BY <1>0, <1>4 DEF JobStart, JobReadTokens, WriteBack, AveFails, Unannounced, Refresh
  <1>5. CASE \/ Age \/ UNCHANGED vars \/ \E w \in Workers : Event(w) \/ WorkerStep(w)
    <2>1. UNCHANGED requests
      BY <1>5 DEF Age, vars, Event, WorkerStep, NoLoad, LoadUsers, LoadTokens, Install, LoadFails,
        ReadTargets, ReadUser, ReadEnabled, ReadRoutes, QueryRoutes, StoreRoutes
    <2>. QED BY <2>1 DEF requests, Unannounced
  <1>. QED BY <1>2, <1>3, <1>4, <1>5 DEF Next, RefreshStep

\* Only the worker that loads touches what is loaded; only its Install fills the
\* cache and gives it a time.
LEMMA LoadChange ==
  ASSUME TypeInv, [Next]_vars
  PROVE  \/ /\ UNCHANGED <<loadMu, snap>> /\ (Overlap \/ UNCHANGED overlapped)
            /\ timed' = FALSE \/ UNCHANGED <<timed, cached>>
         \/ \E w \in Workers : LoadUsers(w) \/ LoadTokens(w) \/ Install(w) \/ LoadFails(w)
  <1>1. ASSUME NEW r \in Requests, RequestStep(r)
        PROVE  /\ UNCHANGED <<loadMu, snap>> /\ (Overlap \/ UNCHANGED overlapped)
               /\ timed' = FALSE \/ UNCHANGED <<timed, cached>>
    BY <1>1 DEF RequestStep, StartAddToken, StartSaveRoute, StartSyncTokens, CheckUser,
        StartUpdateUser, StartNewUser, WriteUser, DeleteUser, SetToken, DeleteToken, AddToken,
        StartAve, Discover, GiveUp, SaveRoutes, SaveFails, DeleteRoute, Invalidate, Invalidated,
        SyncReadTokens, SyncLock, cache, loading
  <1>2. CASE \/ JobStart \/ RefreshStep \/ Age \/ UNCHANGED vars
    BY <1>2 DEF JobStart, RefreshStep, JobReadTokens, WriteBack, AveFails, RefreshEnds, Invalidated,
        Age, vars, cache, loading
  <1>3. ASSUME NEW w \in Workers,
               \/ Event(w) \/ NoLoad(w) \/ ReadTargets(w) \/ ReadUser(w) \/ ReadEnabled(w)
               \/ ReadRoutes(w) \/ QueryRoutes(w) \/ StoreRoutes(w)
        PROVE  UNCHANGED <<loadMu, snap, overlapped, timed, cached>>
    BY <1>3 DEF Event, NoLoad, ReadTargets, ReadUser, ReadEnabled, ReadRoutes, QueryRoutes,
        StoreRoutes, cache, loading
  <1>. QED BY <1>1, <1>2, <1>3 DEF Next, WorkerStep

-----------------------------------------------------------------------------
(* The copies of the cache.                                                *)

\* A load that no write has overlapped so far has read what the rows are.
SnapIsRows ==
  loadMu # Nobody /\ ~overlapped.load =>
    /\ snap.of.users = [u \in Users |-> UserSwitch(u)]
    /\ \A u \in Users \ snap.todo : snap.of.tokens[u] = token[u]
CopiesInv == TypeInv /\ SnapIsRows /\ CoherentUnlessOverlapped

\* The rows are as before, or the load that runs is overlapped.
LEMMA SnapKept ==
  ASSUME CopiesInv, [Next]_vars,
         UNCHANGED <<loadMu, snap>>, Overlap \/ UNCHANGED overlapped
  PROVE  SnapIsRows'
  <1>1. CASE loadMu = Nobody
    BY <1>1 DEF SnapIsRows
  <1>2. CASE loadMu # Nobody /\ Overlap
    BY <1>2 DEF SnapIsRows, Overlap, CopiesInv, TypeInv, TypeOK
  <1>3. CASE loadMu # Nobody /\ UNCHANGED overlapped
    <2>1. CASE overlapped.load
      BY <1>3, <2>1 DEF SnapIsRows
    <2>2. CASE ~overlapped.load
      <3>1. UNCHANGED <<user, token>>
        BY <1>3, <2>2, RowsChange DEF CopiesInv, Overlap, TypeInv, TypeOK
      <3>. QED BY <1>3, <3>1 DEF SnapIsRows, UserSwitch, CopiesInv
    <2>. QED BY <2>1, <2>2
  <1>. QED BY <1>1, <1>2, <1>3

LEMMA SnapStep == ASSUME CopiesInv, [Next]_vars PROVE SnapIsRows'
  <1>1. ASSUME NEW w \in Workers, LoadUsers(w) PROVE SnapIsRows'
    <2>1. UNCHANGED <<user, token>> /\ snap'.todo = Rows
          /\ snap'.of = [NoCopies EXCEPT !.users = [u \in Users |-> UserSwitch(u)]]
      BY <1>1 DEF LoadUsers, tables
    <2>2. \A u \in Users \ Rows : token[u] = "none"
      BY DEF Rows, CopiesInv, TypeInv, TypeOK
    <2>3. /\ snap'.of.users = [u \in Users |-> UserSwitch(u)]
          /\ \A u \in Users : snap'.of.tokens[u] = "none"
      BY <2>1 DEF NoCopies
    <2>. QED BY <2>1, <2>2, <2>3 DEF SnapIsRows, UserSwitch
  <1>2. ASSUME NEW w \in Workers, LoadTokens(w) PROVE SnapIsRows'
    <2>1. UNCHANGED <<user, token, loadMu, overlapped>>
      BY <1>2 DEF LoadTokens, tables
    <2>2. snap.of \in Copies
      BY DEF CopiesInv, TypeInv, TypeOK
    <2>3. PICK v : snap' = [of |-> [snap.of EXCEPT !.tokens[v] = token[v]], todo |-> snap.todo \ {v}]
      BY <1>2 DEF LoadTokens
    <2>4. /\ snap'.of.users = snap.of.users /\ snap'.todo = snap.todo \ {v}
          /\ \A u \in Users : snap'.of.tokens[u] = IF u = v THEN token[v] ELSE snap.of.tokens[u]
      BY <2>2, <2>3 DEF Copies
    <2>. QED BY <2>1, <2>4 DEF SnapIsRows, UserSwitch, CopiesInv
  <1>3. ASSUME NEW w \in Workers, Install(w) \/ LoadFails(w) PROVE SnapIsRows'
    BY <1>3 DEF Install, LoadFails, SnapIsRows
  <1>. QED BY <1>1, <1>2, <1>3, SnapKept, LoadChange DEF CopiesInv

LEMMA CoherentStep == ASSUME CopiesInv, [Next]_vars PROVE CoherentUnlessOverlapped'
  <1>1. ASSUME NEW w \in Workers, Install(w) PROVE CoherentUnlessOverlapped'
    <2>1. loadMu # Nobody
      BY <1>1, MonitorAssumption DEF Install, CopiesInv, TypeInv, LoadHeld, MonitorAssumption
    <2>2. UNCHANGED <<user, token>> /\ cached' = snap.of /\ snap.todo = {}
          /\ overlapped'.cache = overlapped.load
      BY <1>1 DEF Install, tables
    <2>3. CASE overlapped.load
      BY <2>2, <2>3 DEF CoherentUnlessOverlapped
    <2>4. CASE ~overlapped.load
      <3>1. /\ snap.of.users = [u \in Users |-> UserSwitch(u)]
            /\ \A u \in Users : snap.of.tokens[u] = token[u]
        BY <2>1, <2>2, <2>4 DEF CopiesInv, SnapIsRows
      <3>2. snap.of.tokens \in [Users -> Switch] /\ token \in [Users -> Switch]
        BY DEF CopiesInv, TypeInv, TypeOK, Copies
      <3>3. snap.of.tokens = token
        BY <3>1, <3>2
      <3>. QED BY <2>2, <3>1, <3>3 DEF CoherentUnlessOverlapped, UserSwitch
    <2>. QED BY <2>3, <2>4
  <1>2. CASE timed' = FALSE
    BY <1>2 DEF CoherentUnlessOverlapped
  <1>3. ASSUME UNCHANGED <<timed, cached>>, overlapped'.cache = overlapped.cache
        PROVE  CoherentUnlessOverlapped'
    <2>. SUFFICES ASSUME timed', ~overlapped'.cache, ~Unannounced'
                  PROVE  cached'.users = [u \in Users |-> UserSwitch(u)]' /\ (cached.tokens = token)'
      BY DEF CoherentUnlessOverlapped
    <2>1. UNCHANGED <<user, token>>
      BY RowsChange DEF CopiesInv
    <2>2. ~Unannounced
      BY <1>3, AnnouncedTimeless DEF CopiesInv
    <2>. QED BY <1>3, <2>1, <2>2 DEF CopiesInv, CoherentUnlessOverlapped, UserSwitch
  <1>4. ASSUME NEW w \in Workers, LoadUsers(w) \/ LoadTokens(w) \/ LoadFails(w)
        PROVE  UNCHANGED <<timed, cached>> /\ overlapped'.cache = overlapped.cache
    BY <1>4 DEF LoadUsers, LoadTokens, LoadFails, cache, CopiesInv, TypeInv, TypeOK
  <1>5. Overlap \/ UNCHANGED overlapped => overlapped'.cache = overlapped.cache
    BY OverlapTyped DEF CopiesInv
  <1>. QED BY <1>1, <1>2, <1>3, <1>4, <1>5, LoadChange DEF CopiesInv

\* While the cache has a time, its users and tokens are the rows of the database,
\* unless a write is not announced yet or overlapped the load that filled it: for
\* any number of requests, of workers and of users (invalidateCache after every
\* write, refreshMonitorCache).
THEOREM CacheCoherent == Spec => []CoherentUnlessOverlapped
  <1>1. Init => CopiesInv
    BY TypeInit DEF Init, CopiesInv, SnapIsRows, CoherentUnlessOverlapped
  <1>2. CopiesInv /\ [Next]_vars => CopiesInv'
    BY TypeStep, SnapStep, CoherentStep DEF CopiesInv
  <1>3. CopiesInv => CoherentUnlessOverlapped
    BY DEF CopiesInv
  <1>. QED BY <1>1, <1>2, <1>3, PTL DEF Spec

-----------------------------------------------------------------------------
(* The routes of the cache.                                                *)

\* A worker that may store its routes read them after the cache was loaded.
StoreIsRecent ==
  \A w \in Workers : worker[w].pc = "store" /\ worker[w].cacheAt = "same" => worker[w].found.recent
RecentInv == TypeInv /\ StoreIsRecent /\ RoutesNotOlderThanLoad

LEMMA StoreStep == ASSUME RecentInv, [Next]_vars PROVE StoreIsRecent'
  <1>0. worker \in [Workers -> Worker]
    BY DEF RecentInv, TypeInv, TypeOK
  <1>1. ASSUME Invalidated PROVE StoreIsRecent'
    <2>1. \A w \in Workers : worker'[w].cacheAt # "same"
      BY <1>0, <1>1 DEF Invalidated, Worker
    <2>. QED BY <2>1 DEF StoreIsRecent
  <1>2. ASSUME UNCHANGED worker PROVE StoreIsRecent'
    BY <1>2 DEF StoreIsRecent, RecentInv
  <1>3. ASSUME NEW r \in Requests, RequestStep(r) PROVE Invalidated \/ UNCHANGED worker
    BY <1>3 DEF RequestStep, StartAddToken, StartSaveRoute, StartSyncTokens, CheckUser,
        StartUpdateUser, StartNewUser, WriteUser, DeleteUser, SetToken, DeleteToken, AddToken,
        StartAve, Discover, GiveUp, SaveRoutes, SaveFails, DeleteRoute, Invalidate,
        SyncReadTokens, SyncLock
  <1>4. CASE JobStart \/ RefreshStep \/ Age \/ UNCHANGED vars
    BY <1>1, <1>2, <1>4 DEF JobStart, RefreshStep, JobReadTokens, WriteBack, AveFails, RefreshEnds, Age, vars
  <1>5. ASSUME NEW w \in Workers, Install(w) PROVE StoreIsRecent'
    <2>1. \A x \in Workers : worker'[x].cacheAt # "same"
      <3>1. ASSUME NEW x \in Workers
            PROVE  worker'[x].cacheAt = IF worker[x].cacheAt = "same" THEN "gone" ELSE worker[x].cacheAt
        BY <1>0, <1>5 DEF Install, Worker
      <3>. QED BY <3>1
    <2>. QED BY <2>1 DEF StoreIsRecent
  <1>6. ASSUME NEW w \in Workers, NEW row,
               worker' = [worker EXCEPT ![w] = row], row.pc = "store" => row.found.recent
        PROVE  StoreIsRecent'
    BY <1>0, <1>6 DEF StoreIsRecent, RecentInv
  <1>7. ASSUME NEW w \in Workers,
               \/ Event(w) \/ NoLoad(w) \/ LoadUsers(w) \/ LoadFails(w) \/ ReadTargets(w) \/ ReadUser(w)
               \/ ReadEnabled(w) \/ ReadRoutes(w) \/ QueryRoutes(w) \/ StoreRoutes(w)
        PROVE  StoreIsRecent'
    <2>1. worker[w] \in Worker /\ IdleWorker.pc = "idle"
      BY <1>0 DEF IdleWorker
    <2>2. CASE Event(w)
      <3>1. PICK u \in Users : worker' = [worker EXCEPT ![w] = [IdleWorker EXCEPT !.pc = "refresh", !.u = u]]
        BY <2>2 DEF Event
      <3>2. [IdleWorker EXCEPT !.pc = "refresh", !.u = u].pc = "refresh"
        BY DEF IdleWorker
      <3>. QED BY <1>6, <3>1, <3>2
    <2>3. CASE NoLoad(w) \/ LoadUsers(w)
      <3>1. PICK pc \in {"read", "load"} : worker' = [worker EXCEPT ![w] = [worker[w] EXCEPT !.pc = pc]]
        BY <1>0, <2>3 DEF NoLoad, LoadUsers
      <3>2. [worker[w] EXCEPT !.pc = pc].pc = pc
        BY <2>1 DEF Worker
      <3>. QED BY <1>6, <3>1, <3>2
    <2>4. CASE LoadFails(w)
      <3>1. \/ worker' = [worker EXCEPT ![w] = IdleWorker]
            \/ worker' = [worker EXCEPT ![w] = [worker[w] EXCEPT !.pc = "read"]]
        BY <1>0, <2>4 DEF LoadFails
      <3>2. [worker[w] EXCEPT !.pc = "read"].pc = "read"
        BY <2>1 DEF Worker
      <3>. QED BY <1>6, <2>1, <3>1, <3>2
    <2>5. CASE ReadTargets(w) \/ ReadUser(w) \/ ReadEnabled(w)
      <3>1. \/ worker' = [worker EXCEPT ![w] = GoesOn(w)]
            \/ worker' = [worker EXCEPT ![w] = IdleWorker]
        BY <2>5, ReadsContinue DEF RecentInv
      <3>2. GoesOn(w).pc = "refresh"
        BY <2>1 DEF GoesOn, Worker
      <3>. QED BY <1>6, <2>1, <3>1, <3>2
    <2>6. CASE ReadRoutes(w)
      <3>1. \/ worker' = [worker EXCEPT ![w] = IdleWorker]
            \/ worker' = [worker EXCEPT ![w] = [worker[w] EXCEPT !.pc = "query", !.cacheAt = IF timed THEN "same" ELSE "never"]]
        BY <1>0, <2>6 DEF ReadRoutes
      <3>2. [worker[w] EXCEPT !.pc = "query", !.cacheAt = IF timed THEN "same" ELSE "never"].pc = "query"
        BY <2>1 DEF Worker
      <3>. QED BY <1>6, <2>1, <3>1, <3>2
    <2>7. CASE QueryRoutes(w)
      <3>. DEFINE found == [known |-> TRUE, dirs |-> routes[worker[w].u], recent |-> TRUE]
      <3>1. worker' = [worker EXCEPT ![w] = [worker[w] EXCEPT !.pc = "store", !.found = found]]
        BY <1>0, <2>7 DEF QueryRoutes
      <3>2. [worker[w] EXCEPT !.pc = "store", !.found = found].found.recent
        BY <2>1 DEF Worker
      <3>. QED BY <1>6, <3>1, <3>2
    <2>8. CASE StoreRoutes(w)
      BY <1>6, <2>1, <2>8 DEF StoreRoutes
    <2>. QED BY <1>7, <2>2, <2>3, <2>4, <2>5, <2>6, <2>7, <2>8
  <1>8. ASSUME NEW w \in Workers, LoadTokens(w) PROVE UNCHANGED worker
    BY <1>8 DEF LoadTokens
  <1>. QED BY <1>1, <1>2, <1>3, <1>4, <1>5, <1>7, <1>8 DEF Next, WorkerStep

LEMMA RoutesStep == ASSUME RecentInv, [Next]_vars PROVE RoutesNotOlderThanLoad'
  <1>1. ASSUME UNCHANGED <<timed, routeCache>> PROVE RoutesNotOlderThanLoad'
    BY <1>1 DEF RoutesNotOlderThanLoad, RecentInv
  <1>2. CASE timed' = FALSE
    BY <1>2 DEF RoutesNotOlderThanLoad
  <1>3. ASSUME NEW r \in Requests, RequestStep(r) PROVE timed' = FALSE \/ UNCHANGED <<timed, routeCache>>
    BY <1>3 DEF RequestStep, StartAddToken, StartSaveRoute, StartSyncTokens, CheckUser,
        StartUpdateUser, StartNewUser, WriteUser, DeleteUser, SetToken, DeleteToken, AddToken,
        StartAve, Discover, GiveUp, SaveRoutes, SaveFails, DeleteRoute, Invalidate, Invalidated,
        SyncReadTokens, SyncLock, cache
  <1>4. CASE JobStart \/ RefreshStep \/ Age \/ UNCHANGED vars
    BY <1>1, <1>2, <1>4 DEF JobStart, RefreshStep, JobReadTokens, WriteBack, AveFails, RefreshEnds,
        Invalidated, Age, vars, cache
  <1>5. ASSUME NEW w \in Workers, Install(w) PROVE RoutesNotOlderThanLoad'
    BY <1>5 DEF Install, NoRoutes, RoutesNotOlderThanLoad
  <1>6. ASSUME NEW w \in Workers, StoreRoutes(w) PROVE RoutesNotOlderThanLoad'
    <2>1. CASE timed /\ worker[w].cacheAt = "same"
      <3>1. worker[w].found.recent
        BY <1>6, <2>1 DEF StoreRoutes, RecentInv, StoreIsRecent
      <3>2. /\ UNCHANGED timed
            /\ routeCache' = [routeCache EXCEPT ![worker[w].u] = worker[w].found]
        BY <1>6, <2>1 DEF StoreRoutes, SameTime
      <3>3. routeCache \in [Users -> RouteEntry]
        BY DEF RecentInv, TypeInv, TypeOK
      <3>4. \A u \in Users : routeCache'[u] = worker[w].found \/ routeCache'[u] = routeCache[u]
        BY <3>2, <3>3
      <3>. QED BY <3>1, <3>2, <3>4 DEF RoutesNotOlderThanLoad, RecentInv
    <2>2. CASE timed /\ worker[w].cacheAt # "same"
      BY <1>1, <1>6, <2>2 DEF StoreRoutes, SameTime
    <2>3. CASE ~timed
      BY <1>6, <2>3 DEF StoreRoutes, RoutesNotOlderThanLoad
    <2>. QED BY <2>1, <2>2, <2>3
  <1>7. ASSUME NEW w \in Workers,
               \/ Event(w) \/ NoLoad(w) \/ LoadUsers(w) \/ LoadTokens(w) \/ LoadFails(w) \/ ReadTargets(w)
               \/ ReadUser(w) \/ ReadEnabled(w) \/ ReadRoutes(w) \/ QueryRoutes(w)
        PROVE  UNCHANGED <<timed, routeCache>>
    BY <1>7 DEF Event, NoLoad, LoadUsers, LoadTokens, LoadFails, ReadTargets, ReadUser, ReadEnabled,
        ReadRoutes, QueryRoutes, cache
  <1>. QED BY <1>1, <1>2, <1>3, <1>4, <1>5, <1>6, <1>7 DEF Next, WorkerStep

\* The routes that the cache keeps while it has a time were queried after it was
\* loaded, for any number of workers that query and store at the same time
\* (cachedRoutes compares monitorAt before it stores).
THEOREM RoutesRecent == Spec => []RoutesNotOlderThanLoad
  <1>1. Init => RecentInv
    BY TypeInit DEF Init, RecentInv, StoreIsRecent, RoutesNotOlderThanLoad, IdleWorker
  <1>2. RecentInv /\ [Next]_vars => RecentInv'
    BY TypeStep, StoreStep, RoutesStep DEF RecentInv
  <1>3. RecentInv => RoutesNotOlderThanLoad
    BY DEF RecentInv
  <1>. QED BY <1>1, <1>2, <1>3, PTL DEF Spec

-----------------------------------------------------------------------------
(* The two routes of a token.                                              *)

\* The request that saved a route to buy saves the one to sell next.
SellFollows ==
  \A u \in Users : "buy" \in routes[u] /\ "sell" \notin routes[u] =>
      happened > 0 \/ \E r \in Requests : req[r].pc = "saveSell" /\ req[r].u = u
\* A request that holds the refresh mutex waits for its refresh.
HolderSyncs == refreshMu \in Requests => req[refreshMu].pc = "syncing"
BothInv == TypeInv /\ SellFollows /\ HolderSyncs

LEMMA HolderStep == ASSUME TypeInv, HolderSyncs, [Next]_vars PROVE HolderSyncs'
  <1>0. Job \notin Requests /\ Nobody \notin Requests
    BY MonitorAssumption DEF MonitorAssumption, Refreshers
  <1>1. ASSUME NEW r \in Requests, SyncLock(r) PROVE HolderSyncs'
    BY <1>1, AtGoto DEF SyncLock, HolderSyncs
  <1>2. ASSUME NEW r \in Requests, RequestStep(r), ~SyncLock(r) PROVE HolderSyncs'
    <2>1. UNCHANGED refreshMu /\ req[r].pc # "syncing"
      BY <1>2 DEF RequestStep, StartAddToken, StartSaveRoute, StartSyncTokens, CheckUser,
        StartUpdateUser, StartNewUser, WriteUser, DeleteUser, SetToken, DeleteToken, AddToken,
        StartAve, Discover, GiveUp, SaveRoutes, SaveFails, DeleteRoute, Invalidate, SyncReadTokens, Begin
    <2>. QED BY <1>2, <2>1, OwnRequest DEF HolderSyncs
  <1>3. CASE JobStart \/ RefreshEnds
    BY <1>0, <1>3 DEF JobStart, RefreshEnds, HolderSyncs
  <1>4. CASE JobReadTokens \/ WriteBack \/ AveFails \/ Age \/ UNCHANGED vars
    BY <1>4 DEF JobReadTokens, WriteBack, AveFails, Age, vars, requests, HolderSyncs
  <1>5. ASSUME NEW w \in Workers, Event(w) \/ WorkerStep(w) PROVE HolderSyncs'
    <2>1. UNCHANGED requests
      BY <1>5 DEF Event, WorkerStep, NoLoad, LoadUsers, LoadTokens, Install, LoadFails, ReadTargets,
        ReadUser, ReadEnabled, ReadRoutes, QueryRoutes, StoreRoutes
    <2>. QED BY <2>1 DEF requests, HolderSyncs
  <1>. QED BY <1>1, <1>2, <1>3, <1>4, <1>5 DEF Next, RefreshStep

LEMMA HappenedGrows ==
  ASSUME TypeInv, [Next]_vars
  PROVE  happened \in Nat /\ happened' \in Nat /\ happened' >= happened
  <1>1. happened \in Nat
    BY MonitorAssumption DEF TypeInv, TypeOK, MonitorAssumption
  <1>2. UNCHANGED happened \/ happened' = happened + 1
    <2>1. ASSUME NEW r \in Requests, RequestStep(r) PROVE UNCHANGED happened \/ happened' = happened + 1
      BY <2>1 DEF RequestStep, StartAddToken, StartSaveRoute, StartSyncTokens, CheckUser,
        StartUpdateUser, StartNewUser, WriteUser, DeleteUser, SetToken, DeleteToken, AddToken,
        StartAve, Discover, GiveUp, SaveRoutes, SaveFails, DeleteRoute, Invalidate,
        SyncReadTokens, SyncLock, Happens
    <2>2. CASE JobStart \/ RefreshStep \/ Age \/ UNCHANGED vars
      BY <2>2 DEF JobStart, RefreshStep, JobReadTokens, WriteBack, AveFails, RefreshEnds, Age, vars, Happens
    <2>3. ASSUME NEW w \in Workers, Event(w) \/ WorkerStep(w)
          PROVE  UNCHANGED happened \/ happened' = happened + 1
      BY <2>3 DEF Event, WorkerStep, NoLoad, LoadUsers, LoadTokens, Install, LoadFails, ReadTargets,
        ReadUser, ReadEnabled, ReadRoutes, QueryRoutes, StoreRoutes, Happens
    <2>. QED BY <2>1, <2>2, <2>3 DEF Next
  <1>. QED BY <1>1, <1>2

\* Outside the two statements and the deletion, the routes and the request that
\* owes the second one stay.
LEMMA SellStillFollows ==
  ASSUME BothInv, [Next]_vars, UNCHANGED routes,
         \A r \in Requests : req[r].pc = "saveSell" =>
             \/ req'[r].pc = "saveSell" /\ req'[r].u = req[r].u
             \/ happened' > 0 \/ "sell" \in routes[req[r].u]
  PROVE  SellFollows'
  <1>. SUFFICES ASSUME NEW u \in Users, "buy" \in routes[u], "sell" \notin routes[u], ~(happened' > 0)
                PROVE  \E r \in Requests : req'[r].pc = "saveSell" /\ req'[r].u = u
    BY DEF SellFollows
  <1>1. ~(happened > 0)
    BY HappenedGrows DEF BothInv
  <1>2. PICK r \in Requests : req[r].pc = "saveSell" /\ req[r].u = u
    BY <1>1 DEF BothInv, SellFollows
  <1>. QED BY <1>2

LEMMA BothStep == ASSUME BothInv, [Next]_vars PROVE SellFollows'
  <1>0. /\ TypeInv /\ req \in [Requests -> Request] /\ routes \in [Users -> SUBSET Directions]
        /\ happened \in Nat /\ happened' \in Nat /\ happened' >= happened
    BY HappenedGrows DEF BothInv, TypeInv, TypeOK
  <1>1. ASSUME NEW r \in Requests, SaveRoutes(r), req[r].pc = "saveBuy" PROVE SellFollows'
    <2>1. req'[r].pc = "saveSell" /\ req'[r].u = req[r].u
      BY <1>0, <1>1, AtGoto DEF SaveRoutes
    <2>2. \A q \in Requests \ {r} : req'[q] = req[q]
      BY <1>0, <1>1, OwnRequest DEF RequestStep
    <2>3. routes' = [routes EXCEPT ![req[r].u] = routes[req[r].u] \cup {"buy"}] /\ UNCHANGED happened
      BY <1>1 DEF SaveRoutes
    <2>4. \A u \in Users : u # req[r].u => routes'[u] = routes[u]
      BY <1>0, <2>3
    <2>. QED BY <1>1, <2>1, <2>2, <2>3, <2>4 DEF SellFollows, BothInv
  <1>2. ASSUME NEW r \in Requests, SaveRoutes(r), req[r].pc = "saveSell" PROVE SellFollows'
    <2>1. \A q \in Requests \ {r} : req'[q] = req[q]
      BY <1>0, <1>2, OwnRequest DEF RequestStep
    <2>2. routes' = [routes EXCEPT ![req[r].u] = routes[req[r].u] \cup {"sell"}] /\ UNCHANGED happened
      BY <1>2 DEF SaveRoutes
    <2>3. \A u \in Users : IF u = req[r].u THEN "sell" \in routes'[u] ELSE routes'[u] = routes[u]
      BY <1>0, <2>2
    <2>. QED BY <2>1, <2>2, <2>3 DEF SellFollows, BothInv
  <1>3. ASSUME NEW r \in Requests, DeleteRoute(r) PROVE SellFollows'
    <2>1. \A q \in Requests \ {r} : req'[q] = req[q]
      BY <1>0, <1>3, OwnRequest DEF RequestStep
    <2>2. req[r].pc = "new" /\ UNCHANGED happened
      BY <1>3 DEF DeleteRoute, Begin
    <2>3. \A u \in Users : routes'[u] = {} \/ routes'[u] = routes[u]
      BY <1>0, <1>3 DEF DeleteRoute
    <2>. QED BY <2>1, <2>2, <2>3 DEF SellFollows, BothInv
  <1>4. ASSUME NEW r \in Requests, SaveFails(r) PROVE SellFollows'
    <2>1. happened' > 0
      BY <1>0, <1>4 DEF SaveFails, Happens
    <2>. QED BY <2>1 DEF SellFollows
  <1>5. ASSUME NEW r \in Requests, RequestStep(r), ~SaveRoutes(r), ~DeleteRoute(r), ~SaveFails(r)
        PROVE  SellFollows'
    <2>1. \A q \in Requests \ {r} : req'[q] = req[q]
      BY <1>0, <1>5, OwnRequest
    <2>2. UNCHANGED routes /\ req[r].pc # "saveSell"
      BY <1>5 DEF RequestStep, StartAddToken, StartSaveRoute, StartSyncTokens, CheckUser,
        StartUpdateUser, StartNewUser, WriteUser, DeleteUser, SetToken, DeleteToken, AddToken,
        StartAve, Discover, GiveUp, Invalidate, SyncReadTokens, SyncLock, Begin, tables
    <2>. QED BY <2>1, <2>2, SellStillFollows
  <1>6. CASE RefreshEnds
    <2>1. refreshMu = Job \/ refreshMu \in Requests
      BY <1>0, <1>6 DEF RefreshEnds, TypeInv, TypeOK, Refreshers
    <2>2. \A q \in Requests : q # refreshMu => req'[q] = req[q]
      BY <1>0, <1>6 DEF RefreshEnds
    <2>3. refreshMu \in Requests => req[refreshMu].pc = "syncing"
      BY DEF BothInv, HolderSyncs
    <2>4. UNCHANGED routes
      BY <1>6 DEF RefreshEnds, tables
    <2>. QED BY <2>1, <2>2, <2>3, <2>4, SellStillFollows
  <1>7. CASE JobStart \/ JobReadTokens \/ WriteBack \/ AveFails \/ Age \/ UNCHANGED vars
    <2>1. UNCHANGED <<req, routes>>
      BY <1>7 DEF JobStart, JobReadTokens, WriteBack, AveFails, Age, vars, tables, requests
    <2>. QED BY <2>1, SellStillFollows
  <1>8. ASSUME NEW w \in Workers, Event(w) \/ WorkerStep(w) PROVE SellFollows'
    <2>1. UNCHANGED <<tables, requests>>
      BY <1>8 DEF Event, WorkerStep, NoLoad, LoadUsers, LoadTokens, Install, LoadFails, ReadTargets,
        ReadUser, ReadEnabled, ReadRoutes, QueryRoutes, StoreRoutes
    <2>2. UNCHANGED <<req, routes>>
      BY <2>1 DEF tables, requests
    <2>. QED BY <2>2, SellStillFollows
  <1>9. ASSUME NEW r \in Requests, SaveRoutes(r) PROVE req[r].pc \in {"saveBuy", "saveSell"}
    BY <1>9 DEF SaveRoutes
  <1>. QED BY <1>1, <1>2, <1>3, <1>4, <1>5, <1>6, <1>7, <1>8, <1>9 DEF Next, RefreshStep

\* A route to buy is never left without the one to sell, except by a statement
\* that failed, for any requests that save and delete routes at the same time
\* (routeSave, persistDiscoveredRoute).
THEOREM RoutesInPairs == Spec => []BuyRouteHasSellRoute
  <1>1. Init => BothInv
    <2>. SUFFICES ASSUME Init PROVE BothInv
      OBVIOUS
    <2>1. SellFollows
      BY DEF Init, SellFollows, Directions
    <2>2. HolderSyncs
      BY MonitorAssumption DEF Init, HolderSyncs, MonitorAssumption, Refreshers
    <2>. QED BY <2>1, <2>2, TypeInit DEF BothInv
  <1>2. BothInv /\ [Next]_vars => BothInv'
    BY TypeStep, HolderStep, BothStep DEF BothInv
  <1>3. BothInv => BuyRouteHasSellRoute
    BY DEF BothInv, SellFollows, BuyRouteHasSellRoute
  <1>. QED BY <1>1, <1>2, <1>3, PTL DEF Spec

-----------------------------------------------------------------------------
(* The keys of the wallets, where requests of users do not overlap.        *)

\* The user id that a new user takes is free.
LEMMA NextUserIDFree == ASSUME TypeInv, NextUserID \in Users PROVE user[NextUserID] = NoRow
  <1>. DEFINE S == {v \in Users : \E u \in Rows : v <= u}
              n == NextUserID
  <1>. SUFFICES ASSUME n \in Rows PROVE FALSE
    BY DEF Rows
  <1>1. IsFiniteSet(Users) /\ MaxUser \in Nat
    BY FS_Interval, MonitorAssumption DEF Users, MonitorAssumption
  <1>2. IsFiniteSet(S) /\ Cardinality(S) \in Nat
    BY <1>1, FS_Subset, FS_CardinalityType
  <1>3. n = Cardinality(S) + 1
    BY DEF NextUserID
  <1>4. n \in 1 .. MaxUser
    BY DEF Rows, Users
  <1>5. 1 .. n \subseteq S
    BY <1>1, <1>4 DEF Users
  <1>6. Cardinality(1 .. n) = n
    BY <1>4, FS_Interval
  <1>7. Cardinality(1 .. n) <= Cardinality(S)
    BY <1>2, <1>5, FS_Subset
  <1>. HIDE DEF n, S
  <1>. QED BY <1>2, <1>3, <1>6, <1>7

\* A request of a user's row is on its way.
OnUser(r) == req[r].op \in UserOps /\ req[r].pc \notin {"new", "done"}
OneOnUser == \A q, r \in Requests : OnUser(q) /\ OnUser(r) => q = r
\* The row that a request read is still the row of the user when it writes.
MergesRow ==
  \A r \in Requests : req[r].pc = "write" /\ req[r].op \in {"updateUser", "newUser"} =>
      user[req[r].u] = req[r].row
KeyInv == TypeInv /\ OneOnUser /\ MergesRow /\ KeyOfWallet

\* A request of a user's row starts alone, or goes on.
LEMMA OneStep ==
  ASSUME ~UserRequestsOverlap, KeyInv, NEW r \in Requests, RequestStep(r)
  PROVE  /\ OneOnUser'
         /\ OnUser(r)' => \A q \in Requests \ {r} : ~OnUser(q)
  <1>0. TypeInv /\ req \in [Requests -> Request] /\ Done.pc = "done"
    BY DEF KeyInv, TypeInv, TypeOK, Done, Idle
  <1>1. \A q \in Requests \ {r} : req'[q] = req[q]
    BY <1>0, OwnRequest
  <1>2. ASSUME NEW op \in UserOps, Begin(r, op) PROVE \A q \in Requests : ~OnUser(q)
    BY <1>2 DEF Begin, OnUser
  <1>3. OnUser(r)' => OnUser(r) \/ \E op \in UserOps : Begin(r, op)
    <2>1. CASE StartAddToken(r) \/ StartSaveRoute(r) \/ StartSyncTokens(r)
      <3>1. \/ req'[r] = Done \/ req'[r].op \in {"addToken", "saveRoute", "syncTokens"}
        BY <1>0, <2>1, AtEnd, AtEnter DEF StartAddToken, StartSaveRoute, StartSyncTokens, CheckUser
      <3>. QED BY <1>0, <3>1 DEF OnUser, UserOps
    <2>2. CASE StartUpdateUser(r) \/ StartNewUser(r) \/ DeleteUser(r)
      BY <2>2 DEF StartUpdateUser, StartNewUser, DeleteUser, UserOps
    <2>3. CASE SetToken(r) \/ DeleteToken(r) \/ StartAve(r) \/ DeleteRoute(r)
      <3>1. \/ req'[r] = Done \/ req'[r].op \in {"setToken", "deleteToken", "startAve"}
        BY <1>0, <2>3, AtEnd, AtEnter DEF SetToken, DeleteToken, StartAve, DeleteRoute
      <3>. QED BY <1>0, <3>1 DEF OnUser, UserOps
    <2>4. CASE \/ WriteUser(r) \/ AddToken(r) \/ Discover(r) \/ GiveUp(r) \/ SaveRoutes(r) \/ SaveFails(r)
               \/ Invalidate(r) \/ SyncReadTokens(r) \/ SyncLock(r)
      <3>1. req'[r] = Done \/ req'[r].op = req[r].op
        BY <1>0, <2>4, AtEnd, AtGoto, AtEnter DEF WriteUser, AddToken, Discover, GiveUp, SaveRoutes,
          SaveFails, Invalidate, SyncReadTokens, SyncLock
      <3>2. req[r].pc \notin {"new", "done"}
        BY <2>4 DEF WriteUser, AddToken, Discover, GiveUp, SaveRoutes, SaveFails, Invalidate,
          SyncReadTokens, SyncLock
      <3>. QED BY <1>0, <3>1, <3>2 DEF OnUser
    <2>. QED BY <2>1, <2>2, <2>3, <2>4 DEF RequestStep
  <1>4. OnUser(r)' => \A q \in Requests \ {r} : ~OnUser(q)
    BY <1>2, <1>3 DEF KeyInv, OneOnUser
  <1>5. \A q \in Requests \ {r} : OnUser(q)' = OnUser(q)
    BY <1>1 DEF OnUser
  <1>. QED BY <1>4, <1>5 DEF KeyInv, OneOnUser

LEMMA KeyStep == ASSUME ~UserRequestsOverlap, KeyInv, [Next]_vars PROVE KeyInv'
  <1>0. TypeInv /\ req \in [Requests -> Request] /\ user \in [Users -> UserRow] /\ TypeInv'
        /\ Done.pc = "done"
    BY TypeStep DEF KeyInv, TypeInv, TypeOK, Done, Idle
  <1>1. ASSUME NEW r \in Requests, RequestStep(r) PROVE KeyInv'
    <2>1. OneOnUser' /\ (OnUser(r)' => \A q \in Requests \ {r} : ~OnUser(q))
          /\ \A q \in Requests \ {r} : req'[q] = req[q]
      BY <1>0, <1>1, OneStep, OwnRequest
    <2>2. CASE UNCHANGED user
      <3>1. MergesRow'
        <4>1. req'[r].pc = "write" /\ req'[r].op \in {"updateUser", "newUser"} =>
                user[req'[r].u] = req'[r].row
          <5>1. CASE StartUpdateUser(r)
            BY <1>0, <5>1 DEF StartUpdateUser
          <5>2. CASE StartNewUser(r)
            <6>1. NextUserID \in Users
              BY <5>2 DEF StartNewUser
            <6>. QED BY <1>0, <5>2, <6>1, NextUserIDFree DEF StartNewUser
          <5>3. CASE StartAddToken(r) \/ StartSaveRoute(r) \/ StartSyncTokens(r)
            <6>1. \/ req'[r] = Done \/ req'[r].op \in {"addToken", "saveRoute", "syncTokens"}
              BY <1>0, <5>3, AtEnd, AtEnter DEF StartAddToken, StartSaveRoute, StartSyncTokens, CheckUser
            <6>. QED BY <1>0, <6>1
          <5>4. CASE \/ WriteUser(r) \/ DeleteUser(r) \/ SetToken(r) \/ DeleteToken(r) \/ AddToken(r)
                     \/ StartAve(r) \/ Discover(r) \/ GiveUp(r) \/ SaveRoutes(r) \/ SaveFails(r)
                     \/ DeleteRoute(r) \/ Invalidate(r) \/ SyncReadTokens(r) \/ SyncLock(r)
            <6>1. req'[r] = Done \/ req'[r].pc # "write"
              BY <1>0, <5>4, AtEnd, AtGoto, AtEnter DEF WriteUser, DeleteUser, SetToken, DeleteToken,
                AddToken, StartAve, Discover, GiveUp, SaveRoutes, SaveFails, DeleteRoute, Invalidate,
                SyncReadTokens, SyncLock
            <6>. QED BY <1>0, <6>1
          <5>. QED BY <1>1, <5>1, <5>2, <5>3, <5>4 DEF RequestStep
        <4>. QED BY <2>1, <2>2, <4>1 DEF MergesRow, KeyInv
      <3>. QED BY <1>0, <2>1, <2>2, <3>1 DEF KeyInv, KeyOfWallet
    <2>3. ASSUME WriteUser(r) \/ DeleteUser(r) PROVE MergesRow'
      <3>1. OnUser(r)' /\ req'[r].pc = "invalidate"
        <4>1. req'[r].pc = "invalidate" /\ req'[r].op \in UserOps
          BY <1>0, <2>3, AtEnter DEF WriteUser, DeleteUser, UserOps
        <4>. QED BY <4>1 DEF OnUser
      <3>2. \A q \in Requests \ {r} : ~OnUser(q)
        BY <2>1, <3>1
      <3>3. \A q \in Requests \ {r} : ~(req'[q].pc = "write" /\ req'[q].op \in {"updateUser", "newUser"})
        BY <2>1, <3>2 DEF OnUser, UserOps
      <3>. QED BY <3>1, <3>3 DEF MergesRow
    <2>4. CASE WriteUser(r)
      <3>. DEFINE u == req[r].u
                  row == req[r].row
      <3>1. u \in Users => user[u] = row
        BY <2>4 DEF WriteUser, KeyInv, MergesRow
      <3>2. user' = [user EXCEPT ![u] =
                       [on |-> req[r].on, wallet |-> IF row # NoRow THEN row.wallet ELSE r,
                        key |-> IF user[u] # NoRow THEN user[u].key ELSE IF row # NoRow THEN "none" ELSE r]]
        BY <2>4 DEF WriteUser
      <3>3. \A v \in Users : v # u => user'[v] = user[v]
        BY <1>0, <3>2
      <3>4. u \in Users => user'[u].key = user'[u].wallet
        BY <1>0, <3>1, <3>2 DEF KeyInv, KeyOfWallet
      <3>. QED BY <1>0, <2>1, <2>3, <2>4, <3>3, <3>4 DEF KeyInv, KeyOfWallet
    <2>5. CASE DeleteUser(r)
      <3>1. \A v \in Users : user'[v] = NoRow \/ user'[v] = user[v]
        BY <1>0, <2>5 DEF DeleteUser
      <3>2. KeyOfWallet'
        BY <3>1 DEF KeyOfWallet, KeyInv, NoRow
      <3>. QED BY <1>0, <2>1, <2>3, <2>5, <3>2 DEF KeyInv
    <2>6. UNCHANGED user \/ WriteUser(r) \/ DeleteUser(r)
      BY <1>1 DEF RequestStep, StartAddToken, StartSaveRoute, StartSyncTokens, CheckUser,
        StartUpdateUser, StartNewUser, SetToken, DeleteToken, AddToken, StartAve, Discover, GiveUp,
        SaveRoutes, SaveFails, DeleteRoute, Invalidate, SyncReadTokens, SyncLock, tables
    <2>. QED BY <2>2, <2>4, <2>5, <2>6
  <1>2. ASSUME UNCHANGED user, \A q \in Requests : req'[q] = req[q] \/ req'[q] = Done
        PROVE  KeyInv'
    BY <1>0, <1>2 DEF KeyInv, OneOnUser, OnUser, MergesRow, KeyOfWallet
  <1>3. CASE RefreshEnds
    <2>1. UNCHANGED user /\ \A q \in Requests : req'[q] = req[q] \/ req'[q] = Done
      BY <1>0, <1>3 DEF RefreshEnds, tables
    <2>. QED BY <1>2, <2>1
  <1>4. CASE JobStart \/ JobReadTokens \/ WriteBack \/ AveFails \/ Age \/ UNCHANGED vars
    <2>1. UNCHANGED <<user, req>>
      BY <1>4 DEF JobStart, JobReadTokens, WriteBack, AveFails, Age, vars, tables, requests
    <2>. QED BY <1>2, <2>1
  <1>5. ASSUME NEW w \in Workers, Event(w) \/ WorkerStep(w) PROVE KeyInv'
    <2>1. UNCHANGED <<tables, requests>>
      BY <1>5 DEF Event, WorkerStep, NoLoad, LoadUsers, LoadTokens, Install, LoadFails, ReadTargets,
        ReadUser, ReadEnabled, ReadRoutes, QueryRoutes, StoreRoutes
    <2>2. UNCHANGED <<user, req>>
      BY <2>1 DEF tables, requests
    <2>. QED BY <1>2, <2>2
  <1>. QED BY <1>1, <1>3, <1>4, <1>5 DEF Next, RefreshStep

\* The key stored for a user is the key of its wallet, as long as no two requests
\* that write the row of a user overlap (userUpdate reads the row that UpsertUser
\* merges into; with overlapping requests it does not hold).
THEOREM KeysKept ==
  ASSUME ~UserRequestsOverlap
  PROVE  Spec => []KeyOfWallet
  <1>1. Init => KeyInv
    <2>. SUFFICES ASSUME Init PROVE KeyInv
      OBVIOUS
    <2>1. \A r \in Requests : req[r].pc = "new"
      BY DEF Init, Idle
    <2>2. KeyOfWallet
      BY DEF Init, KeyOfWallet, NoRow
    <2>. QED BY <2>1, <2>2, TypeInit DEF KeyInv, OneOnUser, OnUser, MergesRow
  <1>2. KeyInv /\ [Next]_vars => KeyInv'
    BY KeyStep
  <1>3. KeyInv => KeyOfWallet
    BY DEF KeyInv
  <1>. QED BY <1>1, <1>2, <1>3, PTL DEF Spec
=============================================================================
