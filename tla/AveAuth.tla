------------------------------- MODULE AveAuth -------------------------------
(***************************************************************************)
(* The token that AVE wants with every request (x_auth).  It is stored in  *)
(* ave_configs; a request that AVE rejects obtains another one, under a    *)
(* mutex, and tries once more; the operator may store one as well; and the *)
(* refresh of the price, every minute, writes the one it used back beside  *)
(* the price.                                                              *)
(*                                                                         *)
(* Tokens are numbers, in the order in which they come to be; 0 is none.   *)
(* AVE_VISITOR_ID is configured and AVE asks for no captcha.               *)
(***************************************************************************)
EXTENDS Integers, FiniteSets

CONSTANTS
    Callers,     \* goroutines that call aveJSON
    Price,       \* the goroutine of refreshAveEthUSDPrice
    Nobody,
    EnvTokens,   \* what AVE_X_AUTH may be: 0 or 1
    MaxExpiries, \* bound: tokens that AVE ceases to accept, or never does
    MaxUpdates,  \* bound: tokens that the operator stores
    MaxFaults    \* bound: calls that fail, and restarts

Goroutines == Callers \cup {Price}

ASSUME AveAssumption ==
    /\ Price \notin Callers /\ Nobody \notin Goroutines
    /\ EnvTokens \subseteq {0, 1}
    /\ MaxExpiries \in Nat /\ MaxUpdates \in Nat /\ MaxFaults \in Nat

VARIABLES
    env,       \* AVE_X_AUTH
    stored,    \* x_auth in ave_configs
    newest,    \* the number of tokens so far
    valid,     \* those that AVE accepts
    at,        \* where each goroutine is
    auth,      \* its token
    mutex,     \* aveAuthMu
    expired, faults, \* how many of these there were
    asked,     \* history: tokens that AVE was asked for
    updates,   \* history: tokens of the operator
    undone     \* history: the price refresh stored another token than was used

history == <<asked, updates, undone>>
vars == <<env, stored, newest, valid, at, auth, mutex, expired, faults, history>>

Points == {"idle", "request", "lock", "ask", "save", "retry", "write"}

Init ==
    /\ env \in EnvTokens
    /\ stored = 0 /\ newest = env /\ valid = 1 .. env
    /\ at = [g \in Goroutines |-> "idle"] /\ auth = [g \in Goroutines |-> 0]
    /\ mutex = Nobody
    /\ expired = 0 /\ faults = 0
    /\ asked = 0 /\ updates = {} /\ undone = 0

\* aveAuth.
Current == IF stored = 0 THEN env ELSE stored

Goto(g, point) == at' = [at EXCEPT ![g] = point]
Holds(g, token) == auth' = [auth EXCEPT ![g] = token]
Return(g) == Goto(g, "idle") /\ Holds(g, 0)

-----------------------------------------------------------------------------
(* aveJSON and refreshAveEthUSDPrice.                                      *)

\* Without a token aveJSON obtains one before its only request; the price
\* refresh sends its request all the same.
Start(g) ==
    /\ at[g] = "idle"
    /\ Holds(g, Current)
    /\ Goto(g, IF g # Price /\ Current = 0 THEN "lock" ELSE "request")
    /\ UNCHANGED <<env, stored, newest, valid, mutex, expired, faults, history>>

Accepted(g) == auth[g] \in valid
Answered(g) == IF g = Price THEN Goto(g, "write") /\ UNCHANGED auth ELSE Return(g)
Request(g) ==
    /\ at[g] = "request"
    /\ IF Accepted(g) THEN Answered(g) ELSE Goto(g, "lock") /\ UNCHANGED auth
    /\ UNCHANGED <<env, stored, newest, valid, mutex, expired, faults, history>>
Retry(g) ==
    /\ at[g] = "retry"
    /\ IF Accepted(g) THEN Answered(g) ELSE Return(g)
    /\ UNCHANGED <<env, stored, newest, valid, mutex, expired, faults, history>>

\* Mutant: the refreshed token of another request is not looked for.
NeverReplaced(g) == FALSE
Replaced(g) == Current # 0 /\ Current # auth[g]
\* refreshAveAuth up to its second look at the token.
Lock(g) ==
    /\ at[g] = "lock" /\ mutex = Nobody
    /\ IF Replaced(g)
       THEN Holds(g, Current) /\ Goto(g, "retry") /\ UNCHANGED mutex
       ELSE mutex' = g /\ Goto(g, "ask") /\ UNCHANGED auth
    /\ UNCHANGED <<env, stored, newest, valid, expired, faults, history>>

Ask(g) ==
    /\ at[g] = "ask"
    /\ newest' = newest + 1 /\ valid' = valid \cup {newest'}
    /\ Holds(g, newest') /\ Goto(g, "save")
    /\ asked' = asked + 1
    /\ UNCHANGED <<env, stored, mutex, expired, faults, updates, undone>>

\* Mutant: the mutex is kept on failure.
Kept(g) == mutex
Released(g) == IF mutex = g THEN Nobody ELSE mutex
Save(g) ==
    /\ at[g] = "save"
    /\ stored' = auth[g] /\ mutex' = Nobody /\ Goto(g, "retry")
    /\ UNCHANGED <<env, newest, valid, auth, expired, faults, history>>

\* The price and the token it was read with go into one row, without the mutex.
Write ==
    /\ at[Price] = "write"
    /\ stored' = auth[Price] /\ Return(Price)
    /\ undone' = IF Current = auth[Price] THEN undone ELSE undone + 1
    /\ UNCHANGED <<env, newest, valid, mutex, expired, faults, asked, updates>>

\* A call of AVE or of the database fails, or takes too long.
Fail(g) ==
    /\ at[g] # "idle"
    /\ faults < MaxFaults /\ faults' = faults + 1
    /\ Return(g) /\ mutex' = Released(g)
    /\ UNCHANGED <<env, stored, newest, valid, expired, history>>

-----------------------------------------------------------------------------
(* The operator, AVE, a restart.                                           *)

\* Mutant: without the mutex.
Unguarded == TRUE
MayUpdate == mutex = Nobody
Refused == expired < MaxExpiries /\ expired' = expired + 1
\* aveUpdateConfig, appDataUpdateXAuth: of any token, good or bad.
Update(good) ==
    /\ MayUpdate /\ Cardinality(updates) < MaxUpdates
    /\ newest' = newest + 1 /\ stored' = newest' /\ updates' = updates \cup {newest'}
    /\ IF good THEN valid' = valid \cup {newest'} /\ UNCHANGED expired
       ELSE Refused /\ UNCHANGED valid
    /\ UNCHANGED <<env, at, auth, mutex, faults, asked, undone>>

Expire(token) ==
    /\ token \in valid /\ Refused
    /\ valid' = valid \ {token}
    /\ UNCHANGED <<env, stored, newest, at, auth, mutex, faults, history>>

Restart ==
    /\ faults < MaxFaults /\ faults' = faults + 1
    /\ at' = [g \in Goroutines |-> "idle"] /\ auth' = [g \in Goroutines |-> 0]
    /\ mutex' = Nobody
    /\ UNCHANGED <<env, stored, newest, valid, expired, history>>

-----------------------------------------------------------------------------
Step(g) == Start(g) \/ Request(g) \/ Retry(g) \/ Lock(g) \/ Ask(g) \/ Save(g)
Next ==
    \/ \E g \in Goroutines : Step(g) \/ Fail(g)
    \/ Write
    \/ \E good \in BOOLEAN : Update(good)
    \/ \E token \in valid : Expire(token)
    \/ Restart
Spec == Init /\ [][Next]_vars

\* Calls return or time out, the ticker of the price never stops, and Go's mutex
\* lets every goroutine in that waits for it long enough.
FairSpec ==
    /\ Spec
    /\ \A g \in Goroutines : /\ WF_vars(Request(g) \/ Retry(g) \/ Ask(g) \/ Save(g))
                             /\ SF_vars(Lock(g))
    /\ WF_vars(Start(Price)) /\ WF_vars(Write)

-----------------------------------------------------------------------------
(* Properties.                                                             *)

\* Requests that are rejected together share one new token (README.md:51): AVE is
\* asked for no more tokens than there was need for, one for each token it
\* ceased to accept or the operator mistyped, one when there is none, and one more for
\* every failure and for every token that the price refresh wrote back.
OneTokenPerExpiry ==
    asked <= 1 - env + expired + faults + undone

\* What the operator stored stays while AVE accepts it, whichever requests were
\* rejected before and are waiting or asking for a token: the mutex spans the
\* second look and the save.  Only the price refresh, which writes without the
\* mutex, may undo it.
OperatorTokenKept ==
    [][ /\ stored' # stored /\ undone' = 0
        /\ stored \in updates /\ stored \in valid
        => stored' \in updates' ]_vars

\* Once AVE accepts its tokens and nothing fails, the stored token becomes one that
\* AVE accepts, and stays it, although the price refresh writes back the token it
\* read before its request.
StoredTokenHeals == <>[](Current \in valid)
=============================================================================
