----------------------------- MODULE MonitorCache -----------------------------
(***************************************************************************)
(* The monitored users, tokens and routes.  The operator changes their     *)
(* rows by requests of the HTTP API; an hourly job writes the tokens back  *)
(* with the market data of AVE; the engine decides its trades with a copy  *)
(* of the rows that it loads every ten seconds, and that a request throws  *)
(* away after it wrote.                                                    *)
(*                                                                         *)
(* A request, a refresh and a load are sequences of steps, each one        *)
(* database statement, one call of AVE or one critical section of          *)
(* monitorMu.  Every user has one token here, with a pool of its own.      *)
(***************************************************************************)
EXTENDS Integers, FiniteSets

CONSTANTS
    MaxUser,     \* user ids are 1 .. MaxUser
    Requests,    \* requests of the operator, each served once
    Workers,     \* goroutines of the engine
    Ticker,      \* the one that only keeps the cache loaded
    Job,         \* the hourly refresh
    Nobody,
    UserRequestsOverlap, \* may two requests that write a user's row overlap?
    MaxHappenings \* bound: refreshes of the job, ten seconds that pass, and
                 \* statements that fail

Users == 1 .. MaxUser
Directions == {"buy", "sell"}
Refreshers == Requests \cup {Job}

ASSUME MonitorAssumption ==
    /\ MaxUser \in Nat \ {0} /\ MaxHappenings \in Nat
    /\ UserRequestsOverlap \in BOOLEAN
    /\ Job \notin Requests /\ Nobody \notin Refreshers \cup Workers
    /\ {"first", "none"} \cap Requests = {}

VARIABLES
    user,        \* monitor_users: the switch, the wallet, the key stored for it
    token,       \* monitor_tokens: is the row there, and is it enabled
    routes,      \* monitor_routes: the directions with an enabled row
    req,         \* where each request is, and its local variables
    refreshMu,   \* aveRefreshMu
    refresh,     \* the refresh that holds it
    timed, aged, \* monitorAt is a time; ten seconds have passed since then
    cached,      \* monitorUsers and monitorTokens
    targets,     \* monitorByPool
    routeCache,  \* monitorRoutes
    loadMu,      \* monitorLoadMu
    snap,        \* what the load that holds it has read so far
    worker,      \* where each worker is with its event
    overlapped,  \* history: a row changed while the load was reading; while
                 \* the load was reading that filled the cache
    happened     \* how many of these there were

tables == <<user, token, routes>>
requests == <<req, refreshMu, refresh>>
cache == <<timed, aged, cached, targets, routeCache>>
loading == <<loadMu, snap, overlapped>>
vars == <<tables, requests, cache, loading, worker, happened>>

\* A wallet and its key are named after the request that generated them.
Wallets == Requests \cup {"first", "none"}
UserRow == [on : BOOLEAN, wallet : Wallets, key : Wallets]
NoRow == [on |-> FALSE, wallet |-> "none", key |-> "none"]
Switch == {"none", "off", "on"}
Copies == [users : [Users -> Switch], tokens : [Users -> Switch]]
NoCopies == [users |-> [u \in Users |-> "none"], tokens |-> [u \in Users |-> "none"]]

UserOps == {"updateUser", "newUser", "deleteUser"}
Ops == UserOps \cup {"setToken", "deleteToken", "addToken", "saveRoute", "deleteRoute",
                     "startAve", "syncTokens"}
RequestPCs == {"new", "write", "saveBuy", "saveSell", "discover", "giveUp", "readTokens",
               "sync", "syncNone", "syncing", "invalidate", "published", "done"}
Request == [pc : RequestPCs, op : Ops, u : 0 .. MaxUser, on : BOOLEAN, row : UserRow]
Idle == [pc |-> "new", op |-> "setToken", u |-> 0, on |-> FALSE, row |-> NoRow]
\* The users to do, and the one whose token was read: 0 for none.
Refresh == [todo : SUBSET Users, has : 0 .. MaxUser, wrote : BOOLEAN]
NoRefresh == [todo |-> {}, has |-> 0, wrote |-> FALSE]
\* recent, history: read after the cache was last loaded.
RouteEntry == [known : BOOLEAN, dirs : SUBSET Directions, recent : BOOLEAN]
NoRoutes == [known |-> FALSE, dirs |-> {}, recent |-> FALSE]
\* cacheAt is compared with monitorAt only: it was no time, it is the same time
\* as long as nothing changes monitorAt, and it never comes back after that.
Worker == [pc : {"idle", "refresh", "load", "read", "query", "store"},
           at : {"targets", "user", "enabled", "routes"}, u : Users,
           cacheAt : {"never", "same", "gone"}, found : RouteEntry]
IdleWorker == [pc |-> "idle", at |-> "targets", u |-> 1, cacheAt |-> "gone", found |-> NoRoutes]

\* Types; a token has its user; what is held under a mutex is given back.
TypeOK ==
    /\ user \in [Users -> UserRow] /\ token \in [Users -> Switch]
    /\ routes \in [Users -> SUBSET Directions]
    /\ req \in [Requests -> Request]
    /\ refreshMu \in Refreshers \cup {Nobody} /\ refresh \in Refresh
    /\ timed \in BOOLEAN /\ aged \in BOOLEAN
    /\ cached \in Copies /\ targets \subseteq Users
    /\ routeCache \in [Users -> RouteEntry]
    /\ loadMu \in Workers \cup {Nobody}
    /\ snap \in [of : Copies, todo : SUBSET Users]
    /\ worker \in [Workers -> Worker]
    /\ overlapped \in [load : BOOLEAN, cache : BOOLEAN]
    /\ happened \in 0 .. MaxHappenings
    /\ \A u \in Users : user[u] = NoRow => token[u] = "none"
    /\ refreshMu = Nobody => refresh = NoRefresh
    /\ loadMu = Nobody <=> \A w \in Workers : worker[w].pc # "load"

\* One user with an enabled token and its routes; the engine has just started.
Init ==
    /\ user = [u \in Users |-> IF u = 1 THEN [on |-> TRUE, wallet |-> "first", key |-> "first"] ELSE NoRow]
    /\ token = [u \in Users |-> IF u = 1 THEN "on" ELSE "none"]
    /\ routes = [u \in Users |-> IF u = 1 THEN Directions ELSE {}]
    /\ req = [r \in Requests |-> Idle]
    /\ refreshMu = Nobody /\ refresh = NoRefresh
    /\ timed = FALSE /\ aged = FALSE
    /\ cached = NoCopies /\ targets = {}
    /\ routeCache = [u \in Users |-> NoRoutes]
    /\ loadMu = Nobody /\ snap = [of |-> NoCopies, todo |-> {}]
    /\ worker = [w \in Workers |-> IdleWorker]
    /\ overlapped = [load |-> FALSE, cache |-> FALSE]
    /\ happened = 0

UserSwitch(u) == IF user[u] = NoRow THEN "none" ELSE IF user[u].on THEN "on" ELSE "off"
Rows == {u \in Users : user[u] # NoRow}
First(S) == CHOOSE u \in S : \A v \in S : u <= v

\* A row of a user or of a token is written.
Overlap == overlapped' = [overlapped EXCEPT !.load = loadMu # Nobody]

Happens == happened < MaxHappenings /\ happened' = happened + 1

-----------------------------------------------------------------------------
(* Requests.                                                               *)

\* A request of a user's row waits for the others where they do not overlap.
Begin(r, op) ==
    /\ req[r].pc = "new"
    /\ \/ UserRequestsOverlap \/ op \notin UserOps
       \/ \A q \in Requests : req[q].op \in UserOps => req[q].pc \in {"new", "done"}
Enter(r, op, u, pc) == req' = [req EXCEPT ![r] = [Idle EXCEPT !.pc = pc, !.op = op, !.u = u]]
Done == [Idle EXCEPT !.pc = "done"]
Goto(r, pc) == req' = [req EXCEPT ![r].pc = pc]
End(r) == req' = [req EXCEPT ![r] = Done]

\* addToken, route save and syncTokens look for the user first.
CheckUser(r, op, u, pc) ==
    /\ Begin(r, op)
    /\ IF user[u] = NoRow THEN End(r) ELSE Enter(r, op, u, pc)
    /\ UNCHANGED <<tables, refreshMu, refresh, cache, loading, worker, happened>>
StartAddToken(r) == \E u \in Users : CheckUser(r, "addToken", u, "write")
StartSaveRoute(r) == \E u \in Users : CheckUser(r, "saveRoute", u, "saveBuy")
StartSyncTokens(r) == \E u \in Users : CheckUser(r, "syncTokens", u, "readTokens")

\* updateUser merges the body into the row it reads; without an id it takes the
\* one after the largest.  The switch is the one of the body, or the present one.
StartUpdateUser(r) == \E u \in Users, body \in {"absent", "off", "on"} :
    /\ Begin(r, "updateUser")
    /\ req' = [req EXCEPT ![r] =
           [pc |-> "write", op |-> "updateUser", u |-> u, row |-> user[u],
            on |-> IF body = "absent" THEN user[u] = NoRow \/ user[u].on ELSE body = "on"]]
    /\ UNCHANGED <<tables, refreshMu, refresh, cache, loading, worker, happened>>
\* Mutant: the largest id, not the one after it.
NextUserIDTaken == Cardinality({v \in Users : \E u \in Rows : v <= u})
NextUserID == Cardinality({v \in Users : \E u \in Rows : v <= u}) + 1
StartNewUser(r) ==
    /\ NextUserID \in Users
    /\ Begin(r, "newUser")
    /\ req' = [req EXCEPT ![r] = [pc |-> "write", op |-> "newUser", u |-> NextUserID,
                                  row |-> NoRow, on |-> TRUE]]
    /\ UNCHANGED <<tables, refreshMu, refresh, cache, loading, worker, happened>>

\* UpsertUser.  The key is stored with a new row only.
WriteUser(r) ==
    /\ req[r].pc = "write" /\ req[r].op \in {"updateUser", "newUser"}
    /\ LET u == req[r].u
           had == req[r].row # NoRow
           wallet == IF had THEN req[r].row.wallet ELSE r
       IN user' = [user EXCEPT ![u] =
                       [on |-> req[r].on, wallet |-> wallet,
                        key |-> IF @ # NoRow THEN @.key ELSE IF had THEN "none" ELSE r]]
    /\ Enter(r, req[r].op, req[r].u, "invalidate") /\ Overlap
    /\ UNCHANGED <<token, routes, refreshMu, refresh, cache, loadMu, snap, worker, happened>>

\* deleteUser takes the tokens of the user along, not the routes.
DeleteUser(r) == \E u \in Users :
    /\ Begin(r, "deleteUser")
    /\ user' = [user EXCEPT ![u] = NoRow] /\ token' = [token EXCEPT ![u] = "none"]
    /\ Enter(r, "deleteUser", u, "invalidate") /\ Overlap
    /\ UNCHANGED <<routes, refreshMu, refresh, cache, loadMu, snap, worker, happened>>

\* enableToken, disableToken and deleteToken fail without a row.
SetToken(r) == \E u \in Users, on \in BOOLEAN :
    /\ Begin(r, "setToken")
    /\ IF token[u] = "none"
       THEN /\ End(r)
            /\ UNCHANGED <<token, overlapped>>
       ELSE /\ token' = [token EXCEPT ![u] = IF on THEN "on" ELSE "off"]
            /\ Enter(r, "setToken", u, "invalidate") /\ Overlap
    /\ UNCHANGED <<user, routes, refreshMu, refresh, cache, loadMu, snap, worker, happened>>
DeleteToken(r) == \E u \in Users :
    /\ Begin(r, "deleteToken")
    /\ token[u] # "none"
    /\ token' = [token EXCEPT ![u] = "none"]
    /\ Enter(r, "deleteToken", u, "invalidate") /\ Overlap
    /\ UNCHANGED <<user, routes, refreshMu, refresh, cache, loadMu, snap, worker, happened>>

\* Mutant: without the foreign key.
UpsertedAlone(u, on) == token' = [token EXCEPT ![u] = IF on THEN "on" ELSE "off"]
\* UpsertToken: a token needs the row of its user.
Upserted(u, on) == token' = IF user[u] = NoRow THEN token
                            ELSE [token EXCEPT ![u] = IF on THEN "on" ELSE "off"]
AddToken(r) ==
    /\ req[r].pc = "write" /\ req[r].op = "addToken"
    /\ \E on \in BOOLEAN : Upserted(req[r].u, on)
    /\ IF user[req[r].u] = NoRow THEN End(r) ELSE Goto(r, "invalidate")
    /\ Overlap
    /\ UNCHANGED <<user, routes, refreshMu, refresh, cache, loadMu, snap, worker, happened>>

\* startAveToken writes the token first and looks for its route afterwards.
StartAve(r) == \E u \in Users :
    /\ Begin(r, "startAve")
    /\ \E on \in BOOLEAN : Upserted(u, on)
    /\ IF user[u] = NoRow THEN End(r) ELSE Enter(r, "startAve", u, "published")
    /\ Overlap
    /\ UNCHANGED <<user, routes, refreshMu, refresh, cache, loadMu, snap, worker, happened>>
\* A route is found; none is; or it cannot be priced, which leaves the token on.
Discover(r) ==
    /\ req[r].pc = "discover"
    /\ Goto(r, "saveBuy") \/ Goto(r, "giveUp") \/ End(r)
    /\ UNCHANGED <<tables, refreshMu, refresh, cache, loading, worker, happened>>
GiveUp(r) ==
    /\ req[r].pc = "giveUp"
    /\ token' = [token EXCEPT ![req[r].u] = IF @ = "none" THEN @ ELSE "off"]
    /\ Goto(r, "invalidate") /\ Overlap
    /\ UNCHANGED <<user, routes, refreshMu, refresh, cache, loadMu, snap, worker, happened>>

\* Mutant: the request ends when the first route is saved.
SaveBuyOnly(r) ==
    /\ req[r].pc \in {"saveBuy", "saveSell"}
    /\ routes' = [routes EXCEPT ![req[r].u] = @ \cup {"buy"}]
    /\ End(r)
    /\ UNCHANGED <<user, token, refreshMu, refresh, cache, loading, worker, happened>>
\* The buy route is saved before its reverse; neither throws the cache away.
SaveRoutes(r) ==
    /\ req[r].pc \in {"saveBuy", "saveSell"}
    /\ LET dir == IF req[r].pc = "saveBuy" THEN "buy" ELSE "sell"
       IN routes' = [routes EXCEPT ![req[r].u] = @ \cup {dir}]
    /\ IF req[r].pc = "saveBuy" THEN Goto(r, "saveSell") ELSE End(r)
    /\ UNCHANGED <<user, token, refreshMu, refresh, cache, loading, worker, happened>>
SaveFails(r) ==
    /\ req[r].pc \in {"saveBuy", "saveSell"} /\ Happens
    /\ End(r)
    /\ UNCHANGED <<tables, refreshMu, refresh, cache, loading, worker>>
DeleteRoute(r) == \E u \in Users :
    /\ Begin(r, "deleteRoute")
    /\ routes' = [routes EXCEPT ![u] = {}]
    /\ End(r)
    /\ UNCHANGED <<user, token, refreshMu, refresh, cache, loading, worker, happened>>

\* InvalidateMonitorCache: no time, no targets, no routes; the copies stay.
Invalidated ==
    /\ timed' = FALSE /\ aged' = FALSE
    /\ targets' = {}
    /\ routeCache' = [u \in Users |-> NoRoutes]
    /\ worker' = [w \in Workers |-> IF worker[w].cacheAt = "same"
                                    THEN [worker[w] EXCEPT !.cacheAt = "gone"] ELSE worker[w]]
    /\ UNCHANGED cached
\* Mutant: startAveToken throws the cache away only after it gave up.
InvalidateLate(r) ==
    /\ req[r].pc \in {"invalidate", "published"}
    /\ IF req[r].pc = "published" THEN Goto(r, "discover") /\ UNCHANGED <<cache, worker>>
       ELSE Invalidated /\ End(r)
    /\ UNCHANGED <<tables, refreshMu, refresh, loading, happened>>
Invalidate(r) ==
    /\ req[r].pc \in {"invalidate", "published"}
    /\ Invalidated
    /\ IF req[r].pc = "published" THEN Goto(r, "discover") ELSE End(r)
    /\ UNCHANGED <<tables, refreshMu, refresh, loading, happened>>

-----------------------------------------------------------------------------
(* The refresh from AVE: hourly for the tokens that are on, of the users   *)
(* that are on; and by syncTokens for one user.                            *)

JobStart ==
    /\ refreshMu = Nobody
    /\ Happens
    /\ refreshMu' = Job
    /\ refresh' = [NoRefresh EXCEPT !.todo = {u \in Users : UserSwitch(u) = "on"}]
    /\ UNCHANGED <<tables, req, cache, loading, worker>>
JobReadTokens ==
    /\ refreshMu = Job /\ refresh.has = 0 /\ refresh.todo # {}
    /\ LET u == First(refresh.todo)
       IN refresh' = [refresh EXCEPT !.todo = @ \ {u}, !.has = IF token[u] = "on" THEN u ELSE 0]
    /\ UNCHANGED <<tables, req, refreshMu, cache, loading, worker, happened>>
\* syncTokens reads its tokens before it waits for the mutex.
SyncReadTokens(r) ==
    /\ req[r].pc = "readTokens"
    /\ IF token[req[r].u] = "on" THEN Goto(r, "sync") ELSE Goto(r, "syncNone")
    /\ UNCHANGED <<tables, refreshMu, refresh, cache, loading, worker, happened>>
SyncLock(r) ==
    /\ req[r].pc \in {"sync", "syncNone"} /\ refreshMu = Nobody
    /\ refreshMu' = r
    /\ refresh' = [NoRefresh EXCEPT !.has = IF req[r].pc = "sync" THEN req[r].u ELSE 0]
    /\ Goto(r, "syncing")
    /\ UNCHANGED <<tables, cache, loading, worker, happened>>
\* AVE answered with a pair: the row is written as it was read, its switch
\* included.  Otherwise (AveFails) it is left alone.
WriteBack ==
    /\ refresh.has # 0
    /\ Upserted(refresh.has, TRUE)
    /\ refresh' = [refresh EXCEPT !.has = 0, !.wrote = TRUE] /\ Overlap
    /\ UNCHANGED <<user, routes, req, refreshMu, cache, loadMu, snap, worker, happened>>
AveFails ==
    /\ refresh.has # 0
    /\ refresh' = [refresh EXCEPT !.has = 0]
    /\ UNCHANGED <<tables, req, refreshMu, cache, loading, worker, happened>>
RefreshEnds ==
    /\ refreshMu # Nobody /\ refresh.has = 0 /\ refresh.todo = {}
    /\ Invalidated
    /\ refreshMu' = Nobody /\ refresh' = NoRefresh
    /\ req' = IF refreshMu = Job THEN req ELSE [req EXCEPT ![refreshMu] = Done]
    /\ UNCHANGED <<tables, loading, happened>>

-----------------------------------------------------------------------------
(* The engine.  An event of a pool looks for the targets of the pool; the  *)
(* user, the switch of the token and the routes are read one after the     *)
(* other, each time after a look whether the cache has to be loaded.       *)

Event(w) == \E u \in Users :
    /\ worker[w].pc = "idle"
    /\ worker' = [worker EXCEPT ![w] = [IdleWorker EXCEPT !.pc = "refresh", !.u = u]]
    /\ UNCHANGED <<tables, requests, cache, loading, happened>>

\* refreshMonitorCache: the time is looked at with the mutex held.
Fresh == timed /\ ~aged
Age ==
    /\ Fresh /\ Happens
    /\ aged' = TRUE
    /\ UNCHANGED <<tables, requests, timed, cached, targets, routeCache, loading, worker>>
NoLoad(w) ==
    /\ worker[w].pc = "refresh" /\ loadMu = Nobody /\ Fresh
    /\ worker' = [worker EXCEPT ![w].pc = "read"]
    /\ UNCHANGED <<tables, requests, cache, loading, happened>>
LoadUsers(w) ==
    /\ worker[w].pc = "refresh" /\ loadMu = Nobody /\ ~Fresh
    /\ loadMu' = w
    /\ snap' = [of |-> [NoCopies EXCEPT !.users = [u \in Users |-> UserSwitch(u)]], todo |-> Rows]
    /\ overlapped' = [overlapped EXCEPT !.load = FALSE]
    /\ worker' = [worker EXCEPT ![w].pc = "load"]
    /\ UNCHANGED <<tables, requests, cache, happened>>
LoadTokens(w) ==
    /\ worker[w].pc = "load" /\ snap.todo # {}
    /\ LET u == First(snap.todo)
       IN snap' = [of |-> [snap.of EXCEPT !.tokens[u] = token[u]], todo |-> snap.todo \ {u}]
    /\ UNCHANGED <<tables, requests, cache, loadMu, overlapped, worker, happened>>
\* monitorAt is the time of the end of the load.
Install(w) ==
    /\ worker[w].pc = "load" /\ snap.todo = {}
    /\ timed' = TRUE /\ aged' = FALSE
    /\ cached' = snap.of
    /\ targets' = {u \in Users : snap.of.tokens[u] # "none"}
    /\ routeCache' = [u \in Users |-> NoRoutes]
    /\ worker' = [x \in Workers |->
           [worker[x] EXCEPT !.pc = IF x = w THEN "read" ELSE @,
                             !.cacheAt = IF @ = "same" THEN "gone" ELSE @,
                             !.found.recent = FALSE]]
    /\ loadMu' = Nobody
    /\ snap' = [of |-> NoCopies, todo |-> {}]
    /\ overlapped' = [load |-> FALSE, cache |-> overlapped.load]
    /\ UNCHANGED <<tables, requests, happened>>
\* A statement fails: processForMonitors gives the event up, the others go on
\* with what the maps hold.
LoadFails(w) ==
    /\ worker[w].pc = "load" /\ Happens
    /\ loadMu' = Nobody
    /\ snap' = [of |-> NoCopies, todo |-> {}]
    /\ worker' = [worker EXCEPT ![w] = IF @.at = "targets" THEN IdleWorker ELSE [@ EXCEPT !.pc = "read"]]
    /\ UNCHANGED <<tables, requests, cache, overlapped>>

\* The next reading; or the end of the event.
Following == [targets |-> "user", user |-> "enabled", enabled |-> "routes"]
Continue(w, yes) ==
    worker' = [worker EXCEPT ![w] = IF yes /\ w # Ticker THEN [@ EXCEPT !.pc = "refresh", !.at = Following[worker[w].at]] ELSE IdleWorker]
ReadTargets(w) ==
    /\ worker[w].pc = "read" /\ worker[w].at = "targets"
    /\ Continue(w, worker[w].u \in targets)
    /\ UNCHANGED <<tables, requests, cache, loading, happened>>
\* cachedUser and cachedTokenEnabled ask the database for what the maps miss.
OrDatabase(copy, row) == IF copy = "none" THEN row ELSE copy
ReadUser(w) ==
    /\ worker[w].pc = "read" /\ worker[w].at = "user"
    /\ LET u == worker[w].u IN Continue(w, OrDatabase(cached.users[u], UserSwitch(u)) = "on")
    /\ UNCHANGED <<tables, requests, cache, loading, happened>>
ReadEnabled(w) ==
    /\ worker[w].pc = "read" /\ worker[w].at = "enabled"
    /\ LET u == worker[w].u IN Continue(w, OrDatabase(cached.tokens[u], token[u]) = "on")
    /\ UNCHANGED <<tables, requests, cache, loading, happened>>
\* cachedRoutes: a trade takes the routes of the cache, or queries and stores them.
ReadRoutes(w) ==
    /\ worker[w].pc = "read" /\ worker[w].at = "routes"
    /\ worker' = [worker EXCEPT ![w] =
           IF routeCache[worker[w].u].known THEN IdleWorker
           ELSE [@ EXCEPT !.pc = "query", !.cacheAt = IF timed THEN "same" ELSE "never"]]
    /\ UNCHANGED <<tables, requests, cache, loading, happened>>
QueryRoutes(w) ==
    /\ worker[w].pc = "query"
    /\ worker' = [worker EXCEPT ![w].pc = "store", ![w].found =
           [known |-> TRUE, dirs |-> routes[worker[w].u], recent |-> TRUE]]
    /\ UNCHANGED <<tables, requests, cache, loading, happened>>
\* Mutant: the routes are stored whatever monitorAt is by then.
SameTimeAlways(w) == TRUE
SameTime(w) == IF timed THEN worker[w].cacheAt = "same" ELSE worker[w].cacheAt = "never"
StoreRoutes(w) ==
    /\ worker[w].pc = "store"
    /\ routeCache' = IF SameTime(w) THEN [routeCache EXCEPT ![worker[w].u] = worker[w].found]
                                    ELSE routeCache
    /\ worker' = [worker EXCEPT ![w] = IdleWorker]
    /\ UNCHANGED <<tables, requests, timed, aged, cached, targets, loading, happened>>

-----------------------------------------------------------------------------
RequestStep(r) ==
    \/ StartAddToken(r) \/ StartSaveRoute(r) \/ StartSyncTokens(r) \/ StartUpdateUser(r)
    \/ StartNewUser(r) \/ WriteUser(r) \/ DeleteUser(r) \/ SetToken(r) \/ DeleteToken(r)
    \/ AddToken(r) \/ StartAve(r) \/ Discover(r) \/ GiveUp(r) \/ SaveRoutes(r) \/ SaveFails(r)
    \/ DeleteRoute(r) \/ Invalidate(r) \/ SyncReadTokens(r) \/ SyncLock(r)
RefreshStep == JobReadTokens \/ WriteBack \/ AveFails \/ RefreshEnds
WorkerStep(w) ==
    \/ NoLoad(w) \/ LoadUsers(w) \/ LoadTokens(w) \/ Install(w) \/ LoadFails(w)
    \/ ReadTargets(w) \/ ReadUser(w) \/ ReadEnabled(w) \/ ReadRoutes(w)
    \/ QueryRoutes(w) \/ StoreRoutes(w)
Next ==
    \/ \E r \in Requests : RequestStep(r)
    \/ JobStart \/ RefreshStep \/ Age
    \/ \E w \in Workers : Event(w) \/ WorkerStep(w)

Spec == Init /\ [][Next]_vars

-----------------------------------------------------------------------------
(* Properties.                                                             *)

\* Somebody has written a user or a token and has not thrown the cache away yet.
Unannounced == refresh.wrote \/ \E r \in Requests : req[r].pc \in {"invalidate", "published"}

\* While the cache has a time, its users and tokens are the rows of the
\* database, unless a write is not announced yet or overlapped the load that
\* filled the cache: every handler that writes them calls invalidateCache after
\* the write, and nobody else's step can put old copies back.
CoherentUnlessOverlapped ==
    timed /\ ~overlapped.cache /\ ~Unannounced =>
        /\ cached.users = [u \in Users |-> UserSwitch(u)]
        /\ cached.tokens = token

\* The routes that cachedRoutes stores were queried after the cache was loaded
\* that they are stored in: a worker that was overtaken by a load or by an
\* invalidation between its query and its store keeps its old routes to itself.
RoutesNotOlderThanLoad ==
    timed => \A u \in Users : routeCache[u].known => routeCache[u].recent

\* A route to buy a token is never left without the one to sell it (routeSave,
\* persistDiscoveredRoute), whatever requests save and delete at the same time,
\* except by a statement that failed.
BuyRouteHasSellRoute ==
    \A u \in Users : "buy" \in routes[u] /\ "sell" \notin routes[u] =>
        happened > 0 \/ \E r \in Requests : req[r].pc = "saveSell"

\* The key that is stored for a user is the key of its wallet (userUpdate,
\* UpsertUser).
KeyOfWallet == \A u \in Users : user[u].key = user[u].wallet

\* Only a request of the operator turns a token on: the hourly refresh of the
\* market and pool data leaves the switch alone.
OnlyOperatorEnables ==
    [][\A u \in Users : token'[u] = "on" /\ token[u] # "on" =>
           \E r \in Requests : AddToken(r) \/ StartAve(r) \/ SetToken(r)]_vars
=============================================================================
