--------------------------- MODULE EventPipeline ---------------------------
(***************************************************************************)
(* The way of a swap from the chain to the strategy.  The reader of the    *)
(* websocket puts each log into the ingress queue and copies it to the     *)
(* subscriber of the API; a goroutine carries it to the strategy channel;  *)
(* Run distributes the channel over the shards, each a queue with a        *)
(* backlog; the worker of the shard takes from the queue and processes.    *)
(* All queues are bounded, and nobody upstream waits for a worker.         *)
(* Every second the poller reads the logs of the new blocks again and      *)
(* processes them itself, whatever the shards do.                          *)
(*                                                                         *)
(* A block holds one swap, and is its number.  Logs the strategy filter    *)
(* drops never enter the pipeline and are left out.                        *)
(***************************************************************************)
EXTENDS Integers, Sequences, FiniteSets, Totals

CONSTANTS
    Pools,
    Workers,
    ShardOf,         \* [Pools -> Workers], the hash of the pool
    IngressBuffer, StrategyBuffer, QueueBuffer, ShardBacklog, BridgeBuffer,
    PollSpan,        \* the blocks of one log query (2000)
    MaxBlocks,       \* bound: the blocks mined
    Faults, MaxFaults, \* which failures happen, and a bound on their number
    Hung             \* workers that may hang in a database or RPC call for ever

AllFaults == {"disconnect",  \* the websocket misses a log
              "process",     \* Process returns an error
              "refresh",     \* refreshMonitorCache returns an error
              "restart"}

ASSUME PipelineAssumption ==
    /\ IsFiniteSet(Workers)
    /\ ShardOf \in [Pools -> Workers]
    /\ {IngressBuffer, StrategyBuffer, QueueBuffer} \subseteq Nat \ {0}
    /\ {ShardBacklog, BridgeBuffer, PollSpan, MaxBlocks, MaxFaults} \subseteq Nat
    /\ Faults \subseteq AllFaults /\ Hung \subseteq Workers

VARIABLES
    chain,      \* the pool of each block's swap
    heard,      \* the last block the websocket delivered or missed
    ingress,    \* RPC.ingress
    carried,    \* the event between RPC.ingress and RPC.Events
    events,     \* RPC.Events
    shard,      \* queues and backlogs of Run
    busy,       \* the event each worker processes
    taken,      \* history: the last event each worker took
    bridge,     \* the copies in the channel of the API's subscriber
    metrics,    \* the counters /health reports
    polled,     \* v4Blocks: the last block polled
    poll,       \* the round of the poller
    processed,  \* the events whose Process succeeded
    failed,     \* history: the events whose Process failed
    faults      \* the failures so far

path == <<heard, ingress, carried, events, shard, busy, taken, bridge, metrics>>
poller == <<polled, poll>>
results == <<processed, failed>>
vars == <<chain, path, poller, results, faults>>

NoEvent == 0
Blocks == Nat \ {0}
Events == Nat
Unset == -1
Idle == [active |-> FALSE, next |-> 0, to |-> 0, ok |-> TRUE]
Shards == [queue : Seq(Blocks), backlog : Seq(Blocks)]
Metrics == [messages : Nat, published : Nat, dropped : Nat,
            queueDropped : Nat, processed : Nat]
NoMetrics == [messages |-> 0, published |-> 0, dropped |-> 0,
              queueDropped |-> 0, processed |-> 0]

TypeOK ==
    /\ chain \in Seq(Pools)
    /\ heard \in Nat
    /\ ingress \in Seq(Blocks) /\ events \in Seq(Blocks)
    /\ carried \in Events
    /\ shard \in [Workers -> Shards]
    /\ busy \in [Workers -> Events] /\ taken \in [Workers -> Events]
    /\ bridge \in Nat
    /\ metrics \in Metrics
    /\ polled \in Nat \cup {Unset}
    /\ poll \in [active : BOOLEAN, next : Nat, to : Nat, ok : BOOLEAN]
    /\ processed \subseteq Blocks /\ failed \subseteq Blocks
    /\ faults \in Nat

Init ==
    /\ chain = <<>>
    /\ heard = 0
    /\ ingress = <<>> /\ carried = NoEvent /\ events = <<>>
    /\ shard = [w \in Workers |-> [queue |-> <<>>, backlog |-> <<>>]]
    /\ busy = [w \in Workers |-> NoEvent]
    /\ taken = [w \in Workers |-> NoEvent]
    /\ bridge = 0
    /\ metrics = NoMetrics
    /\ polled = Unset /\ poll = Idle
    /\ processed = {} /\ failed = {}
    /\ faults = 0

Lesser(a, b) == IF a < b THEN a ELSE b
Greater(a, b) == IF a > b THEN a ELSE b

Fault(kind) == kind \in Faults /\ faults < MaxFaults /\ faults' = faults + 1

Block ==
    /\ Len(chain) < MaxBlocks
    /\ \E pool \in Pools : chain' = Append(chain, pool)
    /\ UNCHANGED <<path, poller, results, faults>>

-----------------------------------------------------------------------------
(* The reader.                                                             *)

WorkerOf(e) == ShardOf[chain[e]]

\* publishEvent never waits: an event that does not fit is dropped and counted.
PublishEvent(e) ==
    \/ /\ Len(ingress) < IngressBuffer
       /\ ingress' = Append(ingress, e)
       /\ metrics' = [metrics EXCEPT !.messages = @ + 1, !.published = @ + 1]
    \/ /\ Len(ingress) >= IngressBuffer
       /\ UNCHANGED ingress
       /\ metrics' = [metrics EXCEPT !.messages = @ + 1, !.dropped = @ + 1]

Hear ==
    /\ heard < Len(chain)
    /\ heard' = heard + 1
    /\ PublishEvent(heard + 1)
    /\ bridge' = IF bridge < BridgeBuffer THEN bridge + 1 ELSE bridge
    /\ UNCHANGED <<chain, carried, events, shard, busy, taken, poller, results, faults>>

\* The connection breaks, and the logs until it is up again are not delivered.
Disconnect ==
    /\ heard < Len(chain)
    /\ Fault("disconnect")
    /\ heard' = heard + 1
    /\ UNCHANGED <<chain, ingress, carried, events, shard, busy, taken, bridge,
                   metrics, poller, results>>

\* The API's subscriber shows the event to its websocket clients.
Bridge ==
    /\ bridge > 0
    /\ bridge' = bridge - 1
    /\ UNCHANGED <<chain, heard, ingress, carried, events, shard, busy, taken,
                   metrics, poller, results, faults>>

-----------------------------------------------------------------------------
(* The dispatcher of the ingress queue, and Run.                           *)

Carry ==
    /\ carried = NoEvent /\ ingress # <<>>
    /\ carried' = Head(ingress) /\ ingress' = Tail(ingress)
    /\ UNCHANGED <<chain, heard, events, shard, busy, taken, bridge, metrics,
                   poller, results, faults>>

Deliver ==
    /\ carried # NoEvent /\ Len(events) < StrategyBuffer
    /\ events' = Append(events, carried) /\ carried' = NoEvent
    /\ UNCHANGED <<chain, heard, ingress, shard, busy, taken, bridge, metrics,
                   poller, results, faults>>

HasRoom(s) == Len(s.queue) < QueueBuffer
IsFull(s) == s.backlog # <<>> \/ ~HasRoom(s)

\* enqueue: into the queue when nothing waits before it, else into the backlog.
EnqueueAhead(s, e) ==
    IF HasRoom(s) THEN [s EXCEPT !.queue = Append(@, e)]
                  ELSE [s EXCEPT !.backlog = Append(@, e)]
Enqueued(s, e) ==
    IF IsFull(s) THEN [s EXCEPT !.backlog = Append(@, e)]
                 ELSE [s EXCEPT !.queue = Append(@, e)]

\* drain: what fits moves from the backlog to the queue.
Drained(s) ==
    LET n == Lesser(Len(s.backlog), QueueBuffer - Len(s.queue)) IN
    [queue |-> s.queue \o SubSeq(s.backlog, 1, n),
     backlog |-> SubSeq(s.backlog, n + 1, Len(s.backlog))]
DrainedAll(ss) == [w \in Workers |-> Drained(ss[w])]

\* An event whose backlog is at its limit is dropped.
DropWaiting(s) == FALSE
MayDrop(s) == IsFull(s) /\ Len(s.backlog) >= ShardBacklog

Uncounted(m) == m
Counted(m) == [m EXCEPT !.queueDropped = @ + 1]

Receive ==
    /\ events # <<>>
    /\ LET e == Head(events)
           w == WorkerOf(e) IN
        \/ /\ IsFull(shard[w]) => Len(shard[w].backlog) < ShardBacklog
           /\ shard' = DrainedAll([shard EXCEPT ![w] = Enqueued(@, e)])
           /\ UNCHANGED metrics
        \/ /\ MayDrop(shard[w])
           /\ shard' = DrainedAll(shard)
           /\ metrics' = Counted(metrics)
    /\ events' = Tail(events)
    /\ UNCHANGED <<chain, heard, ingress, carried, busy, taken, bridge, poller,
                   results, faults>>

\* The ticker of two milliseconds.
Drain ==
    /\ shard' = DrainedAll(shard)
    /\ UNCHANGED <<chain, heard, ingress, carried, events, busy, taken, bridge,
                   metrics, poller, results, faults>>

-----------------------------------------------------------------------------
(* The workers.                                                            *)

Take(w) ==
    /\ busy[w] = NoEvent /\ shard[w].queue # <<>>
    /\ LET e == Head(shard[w].queue) IN
        /\ busy' = [busy EXCEPT ![w] = e]
        /\ taken' = [taken EXCEPT ![w] = e]
    /\ shard' = [shard EXCEPT ![w].queue = Tail(@)]
    /\ metrics' = [metrics EXCEPT !.processed = @ + 1]
    /\ UNCHANGED <<chain, heard, ingress, carried, events, bridge, poller,
                   results, faults>>

\* processForMonitors, which logs an error of Process and goes on.
Finish(w) ==
    /\ busy[w] # NoEvent
    /\ busy' = [busy EXCEPT ![w] = NoEvent]
    /\ \/ processed' = processed \cup {busy[w]} /\ UNCHANGED <<failed, faults>>
       \/ Fault("process") /\ failed' = failed \cup {busy[w]} /\ UNCHANGED processed
       \/ Fault("refresh") /\ UNCHANGED results
    /\ UNCHANGED <<chain, heard, ingress, carried, events, shard, taken, bridge,
                   metrics, poller>>

-----------------------------------------------------------------------------
(* The poller.                                                             *)

\* The first round after a start reads the last three blocks.
FromCursor == polled + 1
From == IF polled = Unset THEN Greater(1, Len(chain) - 2) ELSE polled + 1

PollStart ==
    /\ ~poll.active
    /\ From <= Len(chain)
    /\ poll' = [active |-> TRUE, next |-> From,
                to |-> Lesser(Len(chain), From + PollSpan), ok |-> TRUE]
    /\ UNCHANGED <<chain, path, polled, results, faults>>

PollEvent ==
    /\ poll.active /\ poll.next <= poll.to
    /\ \/ /\ processed' = processed \cup {poll.next}
          /\ poll' = [poll EXCEPT !.next = @ + 1]
          /\ UNCHANGED <<failed, faults>>
       \/ /\ Fault("process")
          /\ failed' = failed \cup {poll.next}
          /\ poll' = [poll EXCEPT !.next = @ + 1]
          /\ UNCHANGED processed
       \/ /\ Fault("refresh")
          /\ poll' = [poll EXCEPT !.next = @ + 1, !.ok = FALSE]
          /\ UNCHANGED results
    /\ UNCHANGED <<chain, path, polled>>

\* The cursor moves only after a round without an error.
Always(round) == TRUE
MovesCursor(round) == round.ok

PollEnd ==
    /\ poll.active /\ poll.next > poll.to
    /\ poll' = Idle
    /\ polled' = IF MovesCursor(poll) THEN poll.to ELSE polled
    /\ UNCHANGED <<chain, path, results, faults>>

-----------------------------------------------------------------------------
\* A restart: the new subscription delivers new logs only.
Restart ==
    /\ Fault("restart")
    /\ heard' = Len(chain)
    /\ ingress' = <<>> /\ carried' = NoEvent /\ events' = <<>>
    /\ shard' = [w \in Workers |-> [queue |-> <<>>, backlog |-> <<>>]]
    /\ busy' = [w \in Workers |-> NoEvent]
    /\ bridge' = 0
    /\ metrics' = NoMetrics
    /\ polled' = Unset /\ poll' = Idle
    /\ UNCHANGED <<chain, taken, results>>

PathNext ==
    \/ Block \/ Hear \/ Disconnect \/ Bridge \/ Carry \/ Deliver
    \/ Receive \/ Drain \/ Restart
    \/ \E w \in Workers : Take(w) \/ Finish(w)

PollerNext == PollStart \/ PollEvent \/ PollEnd

Next == PathNext \/ PollerNext

Spec == Init /\ [][Next]_vars

\* The path alone: the poller reads and writes nothing of it.
PathSpec == Init /\ [][PathNext]_vars

RunFairness == WF_vars(Carry) /\ WF_vars(Deliver) /\ WF_vars(Receive) /\ WF_vars(Drain)
WorkerFairness(w) == WF_vars(Take(w)) /\ WF_vars(Finish(w))
PollerFairness == WF_vars(PollStart) /\ WF_vars(PollEvent) /\ WF_vars(PollEnd)

\* Go schedules every goroutine, and database and RPC calls return or time out,
\* but for the hung workers.  The websocket may be down for ever.
FairSpec ==
    /\ Spec /\ RunFairness /\ PollerFairness
    /\ \A w \in Workers \ Hung : WorkerFairness(w)

-----------------------------------------------------------------------------
(* Properties.                                                             *)

Elements(s) == {s[i] : i \in DOMAIN s}
Carried == {carried} \ {NoEvent}
InFlight(w) ==
    Elements(shard[w].queue) \cup Elements(shard[w].backlog)
        \cup {e \in Elements(ingress) \cup Carried \cup Elements(events) : WorkerOf(e) = w}

Feed == INSTANCE OrderedFeed WITH
            Consumers <- Workers,
            last <- heard,
            pending <- [w \in Workers |-> InFlight(w)],
            done <- taken

\* The shards implement the feed: every worker takes the events of its pools
\* in chain order, whatever is dropped on the way.
FeedImplemented == Feed!Spec

\* The events that wait in the queue and the backlog of each shard.
Waiting == [w \in Workers |-> Len(shard[w].queue) + Len(shard[w].backlog)]

\* The counters of /health account for every log that was read: what is not in
\* a queue was processed or is counted as dropped.
MetricsAccountForEvents ==
    LET queued == Len(ingress) + Cardinality(Carried) + Len(events) + Total(Waiting, Workers) IN
    /\ metrics.messages = metrics.published + metrics.dropped
    /\ metrics.published = queued + metrics.processed + metrics.queueDropped

\* With a worker hung, the events of the other shards still reach theirs.
OtherShardsGoOn ==
    \A w \in Workers \ Hung : \A b \in 1 .. MaxBlocks :
        (b \in InFlight(w)) ~> (b \notin InFlight(w))

\* A block above the cursor of the poller reaches Process in the end, however many
\* logs the websocket misses and the queues drop (the compensation FUNCTIONAL_SPEC.md
\* promises).  A Process that fails is not tried again.
AboveCursor(b) == polled # Unset /\ polled < b /\ b <= Len(chain)
EveryBlockTried ==
    \A b \in 1 .. MaxBlocks : AboveCursor(b) ~> (b \in processed \cup failed)
=============================================================================
