---------------------------- MODULE AveAuthProofs ----------------------------
(* Theorems about AveAuth, for every number of goroutines and every bound. *)
EXTENDS AveAuth, TLAPS

-----------------------------------------------------------------------------
(* Types, the mutex and the rejected tokens.                               *)

\* Every token that is stored, held or accepted is one that came to be.
Types ==
  /\ env \in {0, 1} /\ newest \in Nat
  /\ env \in 0 .. newest /\ stored \in 0 .. newest
  /\ valid \subseteq 1 .. newest /\ updates \subseteq 1 .. newest
  /\ at \in [Goroutines -> Points]
  /\ auth \in [Goroutines -> 0 .. newest]
  /\ mutex \in Goroutines \cup {Nobody}
  /\ {expired, faults, asked, undone} \subseteq Nat

\* A goroutine that asks for a token or saves one holds the mutex.
MutexHeld == \A g \in Goroutines : at[g] \in {"ask", "save"} => mutex = g

\* A token that AVE has rejected stays rejected: a new one has a new number.
StaysRejected == \A g \in Goroutines : at[g] = "lock" => auth[g] \notin valid

Locals == Types /\ MutexHeld /\ StaysRejected

LEMMA LocalsInit == Init => Locals
  BY AveAssumption
  DEF Init, Locals, Types, MutexHeld, StaysRejected, Points, AveAssumption

\* Goto and Holds assign values of the right sets.
LEMMA MoveTyped ==
  ASSUME Types, NEW g \in Goroutines
  PROVE  /\ \A point \in Points : Goto(g, point) => at' \in [Goroutines -> Points]
         /\ \A n \in Nat : \A k \in 0 .. n : n >= newest /\ Holds(g, k) => auth' \in [Goroutines -> 0 .. n]
  BY DEF Types, Goto, Holds

\* The token in use is one that came to be.
LEMMA CurrentTyped == ASSUME Types PROVE Current \in 0 .. newest
  BY DEF Types, Current

\* Every action keeps the types.
LEMMA TypesStep == ASSUME Types, [Next]_vars PROVE Types'
  <1>0. Current \in 0 .. newest
    BY CurrentTyped
  <1>1. ASSUME NEW g \in Goroutines, Start(g) PROVE Types'
    BY <1>0, <1>1 DEF Types, Start, Holds, Goto, Points, history
  <1>2. ASSUME NEW g \in Goroutines, Request(g) \/ Retry(g) PROVE Types'
    <2>1. 0 \in 0 .. newest /\ {"idle", "write", "lock"} \subseteq Points
      BY DEF Types, Points
    <2>2. at' \in [Goroutines -> Points] /\ auth' \in [Goroutines -> 0 .. newest]
      BY <1>2, <2>1, MoveTyped DEF Types, Request, Retry, Answered, Return
    <2>. QED BY <1>2, <2>2 DEF Types, Request, Retry, history
  <1>3. ASSUME NEW g \in Goroutines, Lock(g) PROVE Types'
    BY <1>0, <1>3 DEF Types, Lock, Holds, Goto, Points, history
  <1>4. ASSUME NEW g \in Goroutines, Ask(g) PROVE Types'
    <2>1. newest' = newest + 1 /\ newest' \in Nat
      BY <1>4 DEF Types, Ask
    <2>2. at' \in [Goroutines -> Points] /\ auth' \in [Goroutines -> 0 .. newest']
      BY <1>4, <2>1, MoveTyped DEF Types, Ask, Points
    <2>3. valid' \subseteq 1 .. newest' /\ updates' \subseteq 1 .. newest'
      BY <1>4, <2>1 DEF Types, Ask
    <2>4. stored' \in 0 .. newest' /\ env' \in 0 .. newest'
      BY <1>4, <2>1 DEF Types, Ask
    <2>. QED BY <1>4, <2>1, <2>2, <2>3, <2>4 DEF Types, Ask
  <1>5. ASSUME NEW g \in Goroutines, Save(g) PROVE Types'
    BY <1>5 DEF Types, Save, Goto, Points, history
  <1>6. CASE Write
    BY <1>6, AveAssumption DEF Types, Write, Return, Holds, Goto, Points, Goroutines
  <1>7. ASSUME NEW g \in Goroutines, Fail(g) PROVE Types'
    BY <1>7 DEF Types, Fail, Return, Holds, Goto, Points, Released, history
  <1>8. ASSUME NEW good \in BOOLEAN, Update(good) PROVE Types'
    <2>1. newest' = newest + 1 /\ newest' \in Nat /\ stored' = newest' /\ newest' \in 0 .. newest'
      BY <1>8 DEF Types, Update
    <2>2. at' \in [Goroutines -> Points] /\ auth' \in [Goroutines -> 0 .. newest']
      BY <1>8, <2>1 DEF Types, Update
    <2>3. valid' \subseteq 1 .. newest' /\ updates' \subseteq 1 .. newest'
      <3>1. valid' \subseteq valid \cup {newest'} /\ updates' = updates \cup {newest'}
        BY <1>8 DEF Update
      <3>. QED BY <2>1, <3>1 DEF Types
    <2>4. stored' \in 0 .. newest' /\ env' \in 0 .. newest' /\ env' \in {0, 1}
      BY <1>8, <2>1 DEF Types, Update
    <2>5. expired' \in Nat
      BY <1>8 DEF Types, Update, Refused
    <2>. QED BY <1>8, <2>1, <2>2, <2>3, <2>4, <2>5 DEF Types, Update
  <1>9. ASSUME NEW token \in valid, Expire(token) PROVE Types'
    BY <1>9 DEF Types, Expire, Refused, history
  <1>10. CASE Restart
    BY <1>10 DEF Types, Restart, Points, history
  <1>11. CASE UNCHANGED vars
    BY <1>11 DEF Types, vars, history
  <1>12. QED
    BY <1>1, <1>2, <1>3, <1>4, <1>5, <1>6, <1>7, <1>8, <1>9, <1>10, <1>11 DEF Next, Step

\* Every action keeps the mutex and the rejected tokens what they are.
LEMMA LocalsStep == ASSUME Locals, [Next]_vars PROVE Locals'
  <1>. USE DEF MutexHeld, StaysRejected
  <1>0. Types /\ Types' /\ MutexHeld /\ StaysRejected
    BY TypesStep DEF Locals
  <1>1. ASSUME NEW g \in Goroutines, Start(g) PROVE MutexHeld' /\ StaysRejected'
    BY <1>0, <1>1 DEF Types, Start, Holds, Goto
  <1>2. ASSUME NEW g \in Goroutines, Request(g) \/ Retry(g) PROVE MutexHeld' /\ StaysRejected'
    BY <1>0, <1>2 DEF Types, Request, Retry, Answered, Accepted, Return, Holds, Goto
  <1>3. ASSUME NEW g \in Goroutines, Lock(g) PROVE MutexHeld' /\ StaysRejected'
    BY <1>0, <1>3, AveAssumption DEF Types, Lock, Holds, Goto, AveAssumption
  <1>4. ASSUME NEW g \in Goroutines, Ask(g) PROVE MutexHeld' /\ StaysRejected'
    BY <1>0, <1>4 DEF Types, Ask, Holds, Goto
  <1>5. ASSUME NEW g \in Goroutines, Save(g) PROVE MutexHeld' /\ StaysRejected'
    BY <1>0, <1>5 DEF Types, Save, Goto
  <1>6. CASE Write
    <2>1. /\ Price \in Goroutines /\ UNCHANGED <<valid, mutex>>
          /\ at' = [at EXCEPT ![Price] = "idle"] /\ auth' = [auth EXCEPT ![Price] = 0]
      BY <1>6 DEF Write, Return, Holds, Goto, Goroutines
    <2>. QED BY <1>0, <2>1 DEF Types, Locals
  <1>7. ASSUME NEW g \in Goroutines, Fail(g) PROVE MutexHeld' /\ StaysRejected'
    BY <1>0, <1>7 DEF Types, Fail, Return, Holds, Goto, Released
  <1>8. ASSUME NEW good \in BOOLEAN, Update(good) PROVE MutexHeld' /\ StaysRejected'
    BY <1>0, <1>8 DEF Types, Update, Refused
  <1>9. ASSUME NEW token \in valid, Expire(token) PROVE MutexHeld' /\ StaysRejected'
    BY <1>0, <1>9 DEF Types, Expire, Refused
  <1>10. CASE Restart
    <2>1. \A g \in Goroutines : at'[g] = "idle"
      BY <1>10 DEF Restart
    <2>. QED BY <1>0, <2>1 DEF Locals
  <1>11. CASE UNCHANGED vars
    <2>1. UNCHANGED <<at, auth, valid, mutex>>
      BY <1>11 DEF vars
    <2>. QED BY <1>0, <2>1 DEF Locals
  <1>12. QED
    BY <1>0, <1>1, <1>2, <1>3, <1>4, <1>5, <1>6, <1>7, <1>8, <1>9, <1>10, <1>11
    DEF Next, Step, Locals

-----------------------------------------------------------------------------
(* AVE is asked for no more tokens than there was need for.                *)

\* There is a good token: the one about to be saved, or the one in use, and
\* nobody is asking for another.
Asking == mutex # Nobody /\ at[mutex] = "ask"
Saving == mutex # Nobody /\ at[mutex] = "save"
Satisfied == IF Saving THEN auth[mutex] \in valid ELSE Current \in valid /\ ~Asking
Owed == IF Satisfied THEN 0 ELSE 1

\* What was asked for, and what may have to be asked for next, had its cause.
Budget == 1 - env + expired + faults + undone
WithinBudget == asked + Owed <= Budget

\* A step without a cause of its own leaves a good token good.
LEMMA BudgetStep == ASSUME Locals, WithinBudget, [Next]_vars PROVE WithinBudget'
  <1>. DEFINE causes == expired + faults + undone
  <1>0. /\ Types /\ MutexHeld /\ StaysRejected /\ Types' /\ MutexHeld'
        /\ Owed \in {0, 1} /\ Owed' \in {0, 1}
        /\ {asked, asked', causes, causes'} \subseteq Nat
    BY LocalsStep DEF Locals, Types, Owed
  \* A step that asks for nothing: it costs nothing, or it has a cause.
  <1>1. ASSUME asked' = asked, env' = env,
               \/ causes' = causes /\ (Satisfied => Satisfied')
               \/ causes' > causes
        PROVE  WithinBudget'
    BY <1>0, <1>1 DEF WithinBudget, Budget, Owed, Types
  <1>2. ASSUME NEW g \in Goroutines, Start(g) \/ Request(g) \/ Retry(g) PROVE WithinBudget'
    <2>1. /\ UNCHANGED <<env, stored, valid, mutex, asked, expired, faults, undone>>
          /\ at[g] \notin {"ask", "save"} /\ at'[g] \notin {"ask", "save"}
          /\ \A o \in Goroutines : o # g => at'[o] = at[o] /\ auth'[o] = auth[o]
      BY <1>0, <1>2 DEF Types, Start, Request, Retry, Answered, Return, Holds, Goto, history
    <2>2. Satisfied' = Satisfied
      BY <1>0, <2>1 DEF Satisfied, Saving, Asking, Current, Types
    <2>. QED BY <1>1, <2>1, <2>2
  \* A rejected token is what is in use, or there is none.
  <1>3. ASSUME NEW g \in Goroutines, Lock(g) PROVE WithinBudget'
    <2>1. UNCHANGED <<env, stored, valid, asked, expired, faults, undone>> /\ mutex = Nobody
      BY <1>3 DEF Lock, history
    <2>2. CASE Replaced(g)
      <3>1. mutex' = Nobody
        BY <1>3, <2>1, <2>2 DEF Lock
      <3>. QED BY <1>1, <2>1, <3>1 DEF Satisfied, Saving, Asking, Current
    <2>3. CASE ~Replaced(g)
      <3>1. Current \notin valid
        BY <1>0, <1>3, <2>3 DEF Replaced, StaysRejected, Lock, Types
      <3>2. ~Satisfied
        BY <2>1, <3>1 DEF Satisfied, Saving
      <3>. QED BY <1>1, <2>1, <3>2
    <2>. QED BY <2>2, <2>3
  \* The token that is asked for was owed, and the new one is good.
  <1>4. ASSUME NEW g \in Goroutines, Ask(g) PROVE WithinBudget'
    <2>1. /\ mutex = g /\ g # Nobody /\ mutex' = g /\ at[g] = "ask" /\ at'[g] = "save"
          /\ auth'[g] \in valid'
      BY <1>0, <1>4, AveAssumption DEF Ask, MutexHeld, Types, Goto, Holds, AveAssumption
    <2>2. ~Satisfied /\ Satisfied'
      BY <2>1 DEF Satisfied, Saving, Asking
    <2>3. asked' = asked + 1 /\ UNCHANGED <<env, expired, faults, undone>>
      BY <1>4 DEF Ask
    <2>. QED BY <1>0, <2>2, <2>3 DEF WithinBudget, Budget, Owed, Types
  <1>5. ASSUME NEW g \in Goroutines, Save(g) PROVE WithinBudget'
    <2>1. /\ mutex = g /\ g # Nobody /\ mutex' = Nobody /\ at[g] = "save"
          /\ stored' = auth[g]
          /\ UNCHANGED <<env, valid, asked, expired, faults, undone>>
      BY <1>0, <1>5, AveAssumption DEF Save, MutexHeld, Types, AveAssumption, history
    <2>2. Satisfied => Satisfied'
      <3>1. Satisfied => stored' \in valid'
        BY <2>1 DEF Satisfied, Saving
      <3>2. Satisfied' <=> Current' \in valid'
        BY <2>1 DEF Satisfied, Saving, Asking
      <3>. QED BY <1>0, <3>1, <3>2 DEF Current, Types
    <2>. QED BY <1>1, <2>1, <2>2
  \* The price refresh leaves the token in use, or undoes it.
  <1>6. CASE Write
    <2>1. /\ UNCHANGED <<env, valid, mutex, asked, expired, faults>>
          /\ stored' = auth[Price] /\ Price \in Goroutines /\ at[Price] = "write"
          /\ at' = [at EXCEPT ![Price] = "idle"] /\ auth' = [auth EXCEPT ![Price] = 0]
      BY <1>6 DEF Write, Return, Holds, Goto, Goroutines
    <2>2. CASE Current = auth[Price]
      <3>1. undone' = undone
        BY <1>6, <2>2 DEF Write
      <3>2. Current' = Current
        BY <2>1, <2>2 DEF Current
      <3>3. Asking' = Asking /\ Saving' = Saving /\ (Saving => auth'[mutex] = auth[mutex])
        BY <1>0, <2>1 DEF Asking, Saving, Types
      <3>4. Satisfied' = Satisfied
        BY <2>1, <3>2, <3>3 DEF Satisfied
      <3>. QED BY <1>1, <2>1, <3>1, <3>4
    <2>3. CASE Current # auth[Price]
      <3>1. undone' = undone + 1
        BY <1>6, <2>3 DEF Write
      <3>. QED BY <1>0, <1>1, <2>1, <3>1 DEF Types
    <2>. QED BY <2>2, <2>3
  <1>7. ASSUME NEW g \in Goroutines, Fail(g) \/ Restart PROVE WithinBudget'
    <2>1. UNCHANGED <<env, asked, expired, undone>> /\ faults' = faults + 1
      BY <1>7 DEF Fail, Restart, history
    <2>. QED BY <1>0, <1>1, <2>1 DEF Types
  \* The operator stores a token when nobody asks for one.
  <1>8. ASSUME NEW good \in BOOLEAN, Update(good) PROVE WithinBudget'
    <2>1. UNCHANGED <<env, asked, faults, undone, mutex>> /\ mutex = Nobody
      BY <1>8 DEF Update, MayUpdate
    <2>2. CASE good
      <3>1. expired' = expired /\ stored' \in valid' /\ stored' # 0
        BY <1>0, <1>8, <2>2 DEF Update, Types
      <3>2. Satisfied'
        BY <2>1, <3>1 DEF Satisfied, Saving, Asking, Current
      <3>. QED BY <1>1, <2>1, <3>1, <3>2
    <2>3. CASE ~good
      <3>1. expired' = expired + 1
        BY <1>8, <2>3 DEF Update, Refused
      <3>. QED BY <1>0, <1>1, <2>1, <3>1 DEF Types
    <2>. QED BY <2>2, <2>3
  <1>9. ASSUME NEW token \in valid, Expire(token) PROVE WithinBudget'
    <2>1. UNCHANGED <<env, asked, faults, undone>> /\ expired' = expired + 1
      BY <1>9 DEF Expire, Refused, history
    <2>. QED BY <1>0, <1>1, <2>1 DEF Types
  <1>10. CASE UNCHANGED vars
    BY <1>10 DEF vars, history, WithinBudget, Budget, Owed, Satisfied, Saving, Asking, Current
  <1>11. CASE Restart
    BY <1>7, <1>11 DEF Goroutines
  <1>. QED BY <1>2, <1>3, <1>4, <1>5, <1>6, <1>7, <1>8, <1>9, <1>10, <1>11 DEF Next, Step

\* AVE is asked for no more tokens than expiries, mistyped tokens, failures and
\* tokens written back account for: requests rejected together share one.
THEOREM TokensShared == Spec => []OneTokenPerExpiry
  <1>1. Init => Locals /\ WithinBudget
    <2>1. ASSUME Init PROVE WithinBudget
      BY <2>1, AveAssumption DEF Init, WithinBudget, Budget, Owed, Satisfied, Saving, Asking, Current, AveAssumption
    <2>. QED BY <2>1, LocalsInit
  <1>2. Locals /\ WithinBudget /\ [Next]_vars => Locals' /\ WithinBudget'
    BY LocalsStep, BudgetStep
  <1>3. Locals /\ WithinBudget => OneTokenPerExpiry
    BY DEF Locals, Types, WithinBudget, Budget, Owed, OneTokenPerExpiry
  <1>. QED BY <1>1, <1>2, <1>3, PTL DEF Spec

-----------------------------------------------------------------------------
(* What the operator stored stays.                                         *)

\* While nothing was undone, a goroutine that asks for a token or saves one
\* replaces a token that AVE rejects.
ReplacesRejected ==
  undone = 0 => \A g \in Goroutines : at[g] \in {"ask", "save"} => Current \notin valid

\* A token that is rejected stays the one in use until the mutex is given back.
LEMMA RejectedStep == ASSUME Locals, ReplacesRejected, [Next]_vars PROVE ReplacesRejected'
  <1>. USE DEF ReplacesRejected
  <1>0. Types /\ MutexHeld /\ StaysRejected /\ Types' /\ MutexHeld' /\ Current \in 0 .. newest
    BY LocalsStep, CurrentTyped DEF Locals
  <1>1. ASSUME NEW g \in Goroutines, Start(g) \/ Request(g) \/ Retry(g) PROVE ReplacesRejected'
    <2>1. /\ UNCHANGED <<env, stored, valid, undone>>
          /\ at'[g] \notin {"ask", "save"}
          /\ \A o \in Goroutines : o # g => at'[o] = at[o]
      BY <1>0, <1>1 DEF Types, Start, Request, Retry, Answered, Return, Holds, Goto, history
    <2>. QED BY <2>1 DEF Current
  <1>2. ASSUME NEW g \in Goroutines, Lock(g) PROVE ReplacesRejected'
    <2>1. /\ UNCHANGED <<env, stored, valid, undone>> /\ mutex = Nobody /\ at[g] = "lock"
          /\ \A o \in Goroutines : o # g => at'[o] = at[o]
      BY <1>0, <1>2 DEF Types, Lock, Goto, history
    <2>2. CASE Replaced(g)
      <3>1. at'[g] = "retry"
        BY <1>0, <1>2, <2>2 DEF Types, Lock, Goto
      <3>. QED BY <2>1, <3>1 DEF Current
    <2>3. CASE ~Replaced(g)
      <3>1. Current \notin valid
        BY <1>0, <2>1, <2>3 DEF Replaced, StaysRejected, Types
      <3>. QED BY <2>1, <3>1 DEF Current
    <2>. QED BY <2>2, <2>3
  <1>3. ASSUME NEW g \in Goroutines, Ask(g) PROVE ReplacesRejected'
    <2>1. /\ UNCHANGED <<env, stored, undone>> /\ valid' = valid \cup {newest + 1} /\ at[g] = "ask"
      BY <1>3 DEF Ask
    <2>2. Current' = Current /\ (undone = 0 => Current \notin valid)
      BY <2>1 DEF Current
    <2>. QED BY <1>0, <2>1, <2>2 DEF Types
  <1>4. ASSUME NEW g \in Goroutines, Save(g) PROVE ReplacesRejected'
    <2>1. mutex' = Nobody
      BY <1>4 DEF Save
    <2>. QED BY <1>0, <2>1, AveAssumption DEF MutexHeld, AveAssumption
  <1>5. ASSUME NEW g \in Goroutines, Fail(g) PROVE ReplacesRejected'
    <2>1. UNCHANGED <<env, stored, valid, undone>> /\ at' = [at EXCEPT ![g] = "idle"]
      BY <1>5 DEF Fail, Return, Goto, history
    <2>. QED BY <1>0, <2>1 DEF Current, Types
  \* A price refresh that undoes nothing leaves the token in use.
  <1>6. CASE Write
    <2>1. /\ UNCHANGED <<env, valid>> /\ stored' = auth[Price]
          /\ undone' = IF Current = auth[Price] THEN undone ELSE undone + 1
          /\ \A o \in Goroutines : at'[o] \in {"ask", "save"} => at[o] \in {"ask", "save"}
      BY <1>0, <1>6 DEF Types, Write, Return, Goto, Holds, Goroutines
    <2>2. undone' = 0 => undone = 0 /\ Current = auth[Price]
      BY <1>0, <2>1 DEF Types
    <2>3. undone' = 0 => Current' = Current
      BY <2>1, <2>2 DEF Current
    <2>. QED BY <2>1, <2>2, <2>3
  <1>7. ASSUME NEW good \in BOOLEAN, Update(good) PROVE ReplacesRejected'
    <2>1. mutex' = Nobody
      BY <1>7 DEF Update, MayUpdate
    <2>. QED BY <1>0, <2>1, AveAssumption DEF MutexHeld, AveAssumption
  <1>8. ASSUME NEW token \in valid, Expire(token) PROVE ReplacesRejected'
    BY <1>8 DEF Expire, Current, history
  <1>9. CASE Restart
    BY <1>9 DEF Restart
  <1>10. CASE UNCHANGED vars
    BY <1>10 DEF vars, history, Current
  <1>. QED BY <1>1, <1>2, <1>3, <1>4, <1>5, <1>6, <1>7, <1>8, <1>9, <1>10 DEF Next, Step

\* A good token of the operator is replaced by another one of the operator only,
\* unless the price refresh has undone one.
THEOREM OperatorKept == Spec => OperatorTokenKept
  <1>. DEFINE Kept0 == stored' # stored /\ undone' = 0 /\ stored \in updates /\ stored \in valid
                         => stored' \in updates'
  <1>1. Init => Locals /\ ReplacesRejected
    <2>1. Init => ReplacesRejected
      BY DEF Init, ReplacesRejected
    <2>. QED BY <2>1, LocalsInit
  <1>2. Locals /\ ReplacesRejected /\ [Next]_vars => Locals' /\ ReplacesRejected'
    BY LocalsStep, RejectedStep
  <1>3. Locals /\ ReplacesRejected /\ [Next]_vars => [Kept0]_vars
    <2>. SUFFICES ASSUME Locals, ReplacesRejected, Next, stored' # stored, undone' = 0,
                         stored \in updates, stored \in valid
                  PROVE  stored' \in updates'
      BY DEF vars
    <2>0. Types /\ stored # 0 /\ Current = stored
      BY DEF Locals, Types, Current
    <2>1. ASSUME NEW g \in Goroutines, Save(g) PROVE FALSE
      BY <2>0, <2>1 DEF ReplacesRejected, Save, history
    <2>2. CASE Write
      BY <2>0, <2>2 DEF Write, Types
    <2>3. ASSUME NEW good \in BOOLEAN, Update(good) PROVE stored' \in updates'
      BY <2>3 DEF Update
    <2>4. ASSUME NEW g \in Goroutines, Start(g) \/ Request(g) \/ Retry(g) \/ Lock(g) \/ Ask(g) \/ Fail(g)
          PROVE  FALSE
      BY <2>4 DEF Start, Request, Retry, Lock, Ask, Fail
    <2>5. ASSUME NEW token \in valid, Expire(token) PROVE FALSE
      BY <2>5 DEF Expire
    <2>. QED BY <2>1, <2>2, <2>3, <2>4, <2>5 DEF Next, Step, Restart
  <1>. QED BY <1>1, <1>2, <1>3, PTL DEF Spec, OperatorTokenKept
=============================================================================
