---------------------------- MODULE OrderedFeed ----------------------------
(***************************************************************************)
(* What the path from the websocket to the strategy promises.  Events are  *)
(* numbered in chain order.  An event may be lost on its way, but the ones *)
(* a worker gets, it gets in chain order and once: a worker takes the      *)
(* oldest event that is on its way to it.                                  *)
(***************************************************************************)
EXTENDS Naturals

CONSTANT Consumers

VARIABLES
    last,     \* the newest event seen by the reader
    pending,  \* of each consumer: the events on their way to it
    done      \* of each consumer: the last event it took

vars == <<last, pending, done>>

Init ==
    /\ last = 0
    /\ pending = [c \in Consumers |-> {}]
    /\ done = [c \in Consumers |-> 0]

Skip ==
    /\ last' \in Nat /\ last' > last
    /\ UNCHANGED <<pending, done>>

Accept(c) ==
    /\ last' \in Nat /\ last' > last
    /\ pending' = [pending EXCEPT ![c] = @ \cup {last'}]
    /\ UNCHANGED done

Take(c) ==
    /\ \E e \in pending[c] :
        /\ \A other \in pending[c] : e <= other
        /\ pending' = [pending EXCEPT ![c] = @ \ {e}]
        /\ done' = [done EXCEPT ![c] = e]
    /\ UNCHANGED last

Lose(c) ==
    /\ \E e \in pending[c] : pending' = [pending EXCEPT ![c] = @ \ {e}]
    /\ UNCHANGED <<last, done>>

\* A restart forgets what is on its way, and skips what is not read yet.
Restart ==
    /\ last' \in Nat /\ last' >= last
    /\ pending' = [c \in Consumers |-> {}]
    /\ UNCHANGED done

Next ==
    \/ Skip \/ Restart
    \/ \E c \in Consumers : Accept(c) \/ Take(c) \/ Lose(c)

Spec == Init /\ [][Next]_vars

-----------------------------------------------------------------------------
\* What is on its way is newer than what was taken, so that no consumer takes
\* an event twice or after a newer one.
PendingIsNewer ==
    \A c \in Consumers : \A e \in pending[c] : done[c] < e /\ e <= last
=============================================================================
