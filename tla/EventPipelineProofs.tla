-------------------------- MODULE EventPipelineProofs --------------------------
(***************************************************************************)
(* Theorems about EventPipeline, for any pools, shards and buffers.  The   *)
(* events are numbers, and what is on its way to the workers stands in     *)
(* chain order from the queue of a shard back to the ingress queue.  From  *)
(* that order follow the type of the variables and the refinement of       *)
(* OrderedFeed.                                                            *)
(***************************************************************************)
EXTENDS EventPipeline, FoldProofs, SequenceTheorems, TLAPS

-----------------------------------------------------------------------------
(* Sequences of events.                                                    *)

Ascending(s) == \A i, j \in 1 .. Len(s) : i < j => s[i] < s[j]
Before(A, B) == \A a \in A, b \in B : a < b

LEMMA ElementsTyped ==
  ASSUME NEW s \in Seq(Blocks)
  PROVE  Elements(s) \subseteq Blocks /\ (Elements(s) = {} <=> s = <<>>)
  <1>1. Len(s) \in Nat /\ DOMAIN s = 1 .. Len(s) /\ \A i \in 1 .. Len(s) : s[i] \in Blocks
    OBVIOUS
  <1>2. s # <<>> => 1 \in 1 .. Len(s)
    BY <1>1, EmptySeq
  <1>3. s = <<>> => DOMAIN s = {}
    BY <1>1
  <1>. QED BY <1>1, <1>2, <1>3 DEF Elements

LEMMA ElementsEmpty == Elements(<<>>) = {} /\ Ascending(<<>>)
  BY DEF Elements, Ascending

\* A queue grows at its end.
LEMMA AppendElements ==
  ASSUME NEW s \in Seq(Blocks), NEW e \in Blocks
  PROVE  /\ Append(s, e) \in Seq(Blocks)
         /\ Elements(Append(s, e)) = Elements(s) \cup {e}
         /\ Ascending(s) /\ Before(Elements(s), {e}) => Ascending(Append(s, e))
  <1>1. /\ Append(s, e) \in Seq(Blocks) /\ Len(Append(s, e)) = Len(s) + 1
        /\ \A i \in 1 .. Len(s) : Append(s, e)[i] = s[i]
        /\ Append(s, e)[Len(s) + 1] = e
    OBVIOUS
  <1>2. Elements(Append(s, e)) = Elements(s) \cup {e}
    <2>1. DOMAIN s = 1 .. Len(s) /\ DOMAIN Append(s, e) = 1 .. Len(s) + 1 /\ Len(s) \in Nat
      OBVIOUS
    <2>2. ASSUME NEW x \in Elements(Append(s, e)) PROVE x \in Elements(s) \cup {e}
      <3>1. PICK i \in 1 .. Len(s) + 1 : x = Append(s, e)[i]
        BY <2>1 DEF Elements
      <3>2. CASE i = Len(s) + 1
        BY <1>1, <3>1, <3>2
      <3>3. CASE i \in 1 .. Len(s)
        BY <1>1, <2>1, <3>1, <3>3 DEF Elements
      <3>. QED BY <2>1, <3>2, <3>3
    <2>3. ASSUME NEW x \in Elements(s) PROVE x \in Elements(Append(s, e))
      <3>1. PICK i \in 1 .. Len(s) : x = s[i]
        BY <2>1 DEF Elements
      <3>2. x = Append(s, e)[i] /\ i \in 1 .. Len(s) + 1
        BY <1>1, <2>1, <3>1
      <3>. QED BY <2>1, <3>2 DEF Elements
    <2>4. e \in Elements(Append(s, e))
      <3>1. Len(s) + 1 \in 1 .. Len(s) + 1
        BY <2>1
      <3>. QED BY <1>1, <2>1, <3>1 DEF Elements
    <2>. QED BY <2>2, <2>3, <2>4
  <1>3. ASSUME Ascending(s), Before(Elements(s), {e}) PROVE Ascending(Append(s, e))
    <2>1. \A i \in 1 .. Len(s) : s[i] < e
      BY <1>3 DEF Before, Elements
    <2>. QED BY <1>1, <1>3, <2>1 DEF Ascending
  <1>. QED BY <1>1, <1>2, <1>3

\* The head of an ascending queue is its oldest event, and leaves the others.
LEMMA TailElements ==
  ASSUME NEW s \in Seq(Blocks), s # <<>>, Ascending(s)
  PROVE  /\ Head(s) \in Elements(s) /\ Tail(s) \in Seq(Blocks) /\ Ascending(Tail(s))
         /\ Elements(Tail(s)) = Elements(s) \ {Head(s)}
         /\ \A x \in Elements(s) : Head(s) <= x
         /\ Before({Head(s)}, Elements(Tail(s)))
  <1>1. /\ Tail(s) \in Seq(Blocks) /\ Len(Tail(s)) = Len(s) - 1 /\ Len(s) \in Nat \ {0}
        /\ \A i \in 1 .. Len(s) - 1 : Tail(s)[i] = s[i + 1]
        /\ Head(s) = s[1]
    BY HeadTailProperties
  <1>2. Elements(s) = {s[i] : i \in 1 .. Len(s)}
    BY DEF Elements
  <1>3. Elements(Tail(s)) = {s[i] : i \in 2 .. Len(s)}
    <2>1. DOMAIN Tail(s) = 1 .. Len(s) - 1
      BY <1>1
    <2>2. ASSUME NEW x \in Elements(Tail(s)) PROVE x \in {s[i] : i \in 2 .. Len(s)}
      <3>1. PICK i \in 1 .. Len(s) - 1 : x = Tail(s)[i]
        BY <2>1 DEF Elements
      <3>2. x = s[i + 1] /\ i + 1 \in 2 .. Len(s)
        BY <1>1, <3>1
      <3>. QED BY <3>2
    <2>3. ASSUME NEW i \in 2 .. Len(s) PROVE s[i] \in Elements(Tail(s))
      <3>1. i - 1 \in 1 .. Len(s) - 1 /\ Tail(s)[i - 1] = s[i]
        BY <1>1
      <3>. QED BY <2>1, <3>1 DEF Elements
    <2>. QED BY <2>2, <2>3
  <1>4. \A i \in 2 .. Len(s) : s[1] < s[i]
    BY <1>1 DEF Ascending
  <1>5. \A i \in 1 .. Len(s) : s[i] \in Nat
    BY DEF Blocks
  <1>6. Elements(Tail(s)) = Elements(s) \ {Head(s)}
    <2>1. 1 .. Len(s) = {1} \cup 2 .. Len(s)
      BY <1>1
    <2>2. Elements(s) = {s[1]} \cup {s[i] : i \in 2 .. Len(s)}
      BY <1>2, <2>1
    <2>3. s[1] \notin {s[i] : i \in 2 .. Len(s)}
      BY <1>1, <1>4, <1>5
    <2>. QED BY <1>1, <1>3, <2>2, <2>3
  <1>7. Ascending(Tail(s))
    BY <1>1 DEF Ascending
  <1>8. /\ Head(s) \in Elements(s) /\ \A x \in Elements(s) : Head(s) <= x
        /\ Before({Head(s)}, Elements(Tail(s)))
    <2>1. 1 \in 1 .. Len(s) /\ \A i \in 1 .. Len(s) : s[1] <= s[i]
      BY <1>1, <1>4, <1>5
    <2>. QED BY <1>1, <1>2, <1>3, <1>4, <2>1 DEF Before
  <1>. QED BY <1>1, <1>6, <1>7, <1>8

LEMMA ConcatElements ==
  ASSUME NEW s \in Seq(Blocks), NEW t \in Seq(Blocks)
  PROVE  s \o t \in Seq(Blocks) /\ Elements(s \o t) = Elements(s) \cup Elements(t)
  <1>1. /\ s \o t \in Seq(Blocks) /\ Len(s \o t) = Len(s) + Len(t)
        /\ Len(s) \in Nat /\ Len(t) \in Nat
        /\ \A i \in 1 .. Len(s) + Len(t) :
              (s \o t)[i] = IF i <= Len(s) THEN s[i] ELSE t[i - Len(s)]
    OBVIOUS
  <1>2. /\ Elements(s) = {s[i] : i \in 1 .. Len(s)}
        /\ Elements(t) = {t[i] : i \in 1 .. Len(t)}
        /\ Elements(s \o t) = {(s \o t)[i] : i \in 1 .. Len(s) + Len(t)}
    BY <1>1 DEF Elements
  <1>3. ASSUME NEW i \in 1 .. Len(s) + Len(t)
        PROVE  (s \o t)[i] \in Elements(s) \cup Elements(t)
    <2>1. CASE i <= Len(s)
      BY <1>1, <1>2, <2>1
    <2>2. CASE ~(i <= Len(s))
      <3>1. i - Len(s) \in 1 .. Len(t) /\ (s \o t)[i] = t[i - Len(s)]
        BY <1>1, <2>2
      <3>. QED BY <1>2, <3>1
    <2>. QED BY <2>1, <2>2
  <1>4. ASSUME NEW i \in 1 .. Len(s) PROVE s[i] \in Elements(s \o t)
    <2>1. i \in 1 .. Len(s) + Len(t) /\ (s \o t)[i] = s[i]
      BY <1>1
    <2>. QED BY <1>2, <2>1
  <1>5. ASSUME NEW i \in 1 .. Len(t) PROVE t[i] \in Elements(s \o t)
    <2>1. /\ Len(s) + i \in 1 .. Len(s) + Len(t) /\ ~(Len(s) + i <= Len(s))
          /\ Len(s) + i - Len(s) = i
      BY <1>1
    <2>2. (s \o t)[Len(s) + i] = t[i]
      BY <1>1, <2>1
    <2>. QED BY <1>2, <2>1, <2>2
  <1>6. Elements(s \o t) \subseteq Elements(s) \cup Elements(t)
    BY <1>2, <1>3
  <1>7. Elements(s) \subseteq Elements(s \o t) /\ Elements(t) \subseteq Elements(s \o t)
    <2>1. ASSUME NEW x \in Elements(s) PROVE x \in Elements(s \o t)
      BY <1>2, <1>4
    <2>2. ASSUME NEW x \in Elements(t) PROVE x \in Elements(s \o t)
      BY <1>2, <1>5
    <2>. QED BY <2>1, <2>2
  <1>. QED BY <1>1, <1>6, <1>7

-----------------------------------------------------------------------------
(* The shards.                                                             *)

\* The events of a shard in the order in which its worker takes them.
Path(s) == s.queue \o s.backlog
Fits(s) == s \in Shards /\ Len(s.queue) <= QueueBuffer

LEMMA PathTyped ==
  ASSUME NEW s \in Shards
  PROVE  Path(s) \in Seq(Blocks)
         /\ Elements(Path(s)) = Elements(s.queue) \cup Elements(s.backlog)
  BY ConcatElements DEF Shards, Path

\* drain moves events from the backlog to the queue and changes no order.
LEMMA PathDrained ==
  ASSUME NEW s, Fits(s) PROVE Fits(Drained(s)) /\ Path(Drained(s)) = Path(s)
  <1>. DEFINE n == Lesser(Len(s.backlog), QueueBuffer - Len(s.queue))
              moved == SubSeq(s.backlog, 1, n)
              left == SubSeq(s.backlog, n + 1, Len(s.backlog))
  <1>1. /\ s.queue \in Seq(Blocks) /\ s.backlog \in Seq(Blocks) /\ QueueBuffer \in Nat
        /\ Len(s.queue) \in Nat /\ Len(s.backlog) \in Nat
    BY PipelineAssumption DEF Fits, Shards, PipelineAssumption
  <1>2. n \in 0 .. Len(s.backlog) /\ n <= QueueBuffer - Len(s.queue)
    <2>1. Len(s.queue) <= QueueBuffer
      BY DEF Fits
    <2>2. \A a, b \in Nat : Lesser(a, b) \in 0 .. a /\ Lesser(a, b) <= b
      BY DEF Lesser
    <2>3. QueueBuffer - Len(s.queue) \in Nat
      BY <1>1, <2>1
    <2>. QED BY <1>1, <2>2, <2>3
  <1>3. moved \in Seq(Blocks) /\ left \in Seq(Blocks) /\ Len(moved) = n
        /\ moved \o left = s.backlog
    <2>. HIDE DEF n
    <2>1. moved \in Seq(Blocks) /\ Len(moved) = n /\ \A i \in 1 .. n : moved[i] = s.backlog[i]
      <3>1. \A i \in 1 .. n : s.backlog[i] \in Blocks
        BY <1>1, <1>2
      <3>. QED BY <1>1, <1>2, <3>1, SubSeqProperties
    <2>2. /\ left \in Seq(Blocks) /\ Len(left) = Len(s.backlog) - n
          /\ \A i \in 1 .. Len(s.backlog) - n : left[i] = s.backlog[n + i]
      <3>1. \A i \in n + 1 .. Len(s.backlog) : s.backlog[i] \in Blocks
        BY <1>1, <1>2
      <3>. QED BY <1>1, <1>2, <3>1, SubSeqProperties
    <2>3. /\ moved \o left \in Seq(Blocks) /\ Len(moved \o left) = Len(s.backlog)
          /\ \A i \in 1 .. Len(s.backlog) : (moved \o left)[i] = s.backlog[i]
      <3>. HIDE DEF moved, left
      <3>1. moved \in Seq(Blocks) /\ left \in Seq(Blocks)
        BY <2>1, <2>2
      <3>2. /\ moved \o left \in Seq(Blocks) /\ Len(moved \o left) = Len(moved) + Len(left)
            /\ \A i \in 1 .. Len(moved) + Len(left) :
                  (moved \o left)[i] = IF i <= Len(moved) THEN moved[i] ELSE left[i - Len(moved)]
        BY <3>1, ConcatProperties
      <3>3. n \in Nat /\ Len(moved \o left) = Len(s.backlog)
        BY <1>1, <1>2, <2>1, <2>2, <3>2
      <3>4. ASSUME NEW i \in 1 .. Len(s.backlog) PROVE (moved \o left)[i] = s.backlog[i]
        <4>1. i \in 1 .. Len(moved) + Len(left) /\ Len(moved) = n
          BY <1>1, <1>2, <2>1, <2>2
        <4>2. CASE i <= n
          BY <2>1, <3>2, <3>3, <4>1, <4>2
        <4>3. CASE ~(i <= n)
          <5>1. i - n \in 1 .. Len(s.backlog) - n /\ n + (i - n) = i
            BY <1>1, <1>2, <3>3, <4>3
          <5>. QED BY <2>2, <3>2, <4>1, <4>3, <5>1
        <4>. QED BY <4>2, <4>3
      <3>. QED BY <3>2, <3>3, <3>4
    <2>. HIDE DEF moved, left
    <2>. QED BY <1>1, <2>1, <2>2, <2>3, SeqEqual
  <1>4. Drained(s) = [queue |-> s.queue \o moved, backlog |-> left]
    BY DEF Drained
  <1>. HIDE DEF n, moved, left
  <1>5. /\ Len(s.queue \o moved) = Len(s.queue) + n /\ s.queue \o moved \in Seq(Blocks)
        /\ (s.queue \o moved) \o left = s.queue \o s.backlog
    <2>1. (s.queue \o moved) \o left = s.queue \o (moved \o left)
      <3>. DEFINE q == s.queue
      <3>1. q \in Seq(Blocks) /\ moved \in Seq(Blocks) /\ left \in Seq(Blocks)
        BY <1>1, <1>3
      <3>. HIDE DEF q
      <3>2. (q \o moved) \o left = q \o (moved \o left)
        BY <3>1, ConcatAssociative
      <3>. QED BY <3>2 DEF q
    <2>2. s.queue \o moved \in Seq(Blocks) /\ Len(s.queue \o moved) = Len(s.queue) + Len(moved)
      BY <1>1, <1>3, ConcatProperties
    <2>. QED BY <1>3, <2>1, <2>2
  <1>6. Len(s.queue) + n <= QueueBuffer
    BY <1>1, <1>2
  <1>. QED BY SMTT(30), <1>1, <1>3, <1>4, <1>5, <1>6 DEF Fits, Shards, Path

\* enqueue puts an event behind all others.
LEMMA PathEnqueued ==
  ASSUME NEW s, Fits(s), NEW e \in Blocks
  PROVE  Fits(Enqueued(s, e)) /\ Path(Enqueued(s, e)) = Append(Path(s), e)
  <1>1. /\ s.queue \in Seq(Blocks) /\ s.backlog \in Seq(Blocks) /\ QueueBuffer \in Nat
        /\ s = [queue |-> s.queue, backlog |-> s.backlog]
    BY PipelineAssumption DEF Fits, Shards, PipelineAssumption
  <1>2. CASE IsFull(s)
    <2>1. Enqueued(s, e) = [queue |-> s.queue, backlog |-> Append(s.backlog, e)]
      BY <1>1, <1>2 DEF Enqueued, Fits, Shards
    <2>2. s.queue \o Append(s.backlog, e) = Append(s.queue \o s.backlog, e)
      BY <1>1
    <2>. QED BY <1>1, <2>1, <2>2 DEF Fits, Shards, Path
  <1>3. CASE ~IsFull(s)
    <2>1. Enqueued(s, e) = [queue |-> Append(s.queue, e), backlog |-> <<>>]
      BY <1>1, <1>3 DEF Enqueued, Fits, Shards, IsFull
    <2>2. Append(s.queue, e) \o <<>> = Append(s.queue \o s.backlog, e)
      BY <1>1, <1>3, ConcatEmptySeq, AppendElements DEF IsFull
    <2>3. Append(s.queue, e) \in Seq(Blocks) /\ Len(Append(s.queue, e)) = Len(s.queue) + 1
      BY <1>1
    <2>4. Len(s.queue) + 1 <= QueueBuffer
      BY <1>1, <1>3 DEF IsFull, HasRoom
    <2>. QED BY <1>1, <2>1, <2>2, <2>3, <2>4 DEF Fits, Shards, Path
  <1>. QED BY <1>2, <1>3

\* A worker takes the first event of its shard.
LEMMA PathTaken ==
  ASSUME NEW s, Fits(s), s.queue # <<>>
  PROVE  /\ Fits([s EXCEPT !.queue = Tail(@)])
         /\ Path([s EXCEPT !.queue = Tail(@)]) = Tail(Path(s))
         /\ Path(s) # <<>> /\ Head(Path(s)) = Head(s.queue)
  <1>1. /\ s.queue \in Seq(Blocks) /\ s.backlog \in Seq(Blocks) /\ QueueBuffer \in Nat
    BY PipelineAssumption DEF Fits, Shards, PipelineAssumption
  <1>2. [s EXCEPT !.queue = Tail(@)] = [queue |-> Tail(s.queue), backlog |-> s.backlog]
    BY SMTT(30) DEF Fits, Shards
  <1>3. Tail(s.queue) \in Seq(Blocks) /\ Len(Tail(s.queue)) = Len(s.queue) - 1
    BY <1>1, HeadTailProperties
  <1>4. /\ Tail(s.queue) \o s.backlog = Tail(s.queue \o s.backlog)
        /\ s.queue \o s.backlog # <<>> /\ Head(s.queue \o s.backlog) = Head(s.queue)
    <2>. DEFINE q == s.queue  b == s.backlog
    <2>0. q \in Seq(Blocks) /\ b \in Seq(Blocks) /\ q # <<>>
      BY <1>1
    <2>. HIDE DEF q, b
    <2>1. /\ q \o b \in Seq(Blocks) /\ Len(q \o b) = Len(q) + Len(b)
          /\ \A i \in 1 .. Len(q) + Len(b) : (q \o b)[i] = IF i <= Len(q) THEN q[i] ELSE b[i - Len(q)]
      BY <2>0, ConcatProperties
    <2>2. /\ Tail(q) \in Seq(Blocks) /\ Len(Tail(q)) = Len(q) - 1 /\ Len(q) \in Nat \ {0}
          /\ \A i \in 1 .. Len(q) - 1 : Tail(q)[i] = q[i + 1]
      BY <2>0, HeadTailProperties
    <2>3. q \o b # <<>>
      BY <2>0, <2>1, <2>2
    <2>4. /\ Tail(q \o b) \in Seq(Blocks) /\ Len(Tail(q \o b)) = Len(q) + Len(b) - 1
          /\ \A i \in 1 .. Len(q) + Len(b) - 1 : Tail(q \o b)[i] = (q \o b)[i + 1]
      BY <2>1, <2>3, HeadTailProperties
    <2>5. /\ Tail(q) \o b \in Seq(Blocks) /\ Len(Tail(q) \o b) = Len(q) - 1 + Len(b)
          /\ \A i \in 1 .. Len(q) - 1 + Len(b) :
                (Tail(q) \o b)[i] = IF i <= Len(q) - 1 THEN Tail(q)[i] ELSE b[i - (Len(q) - 1)]
      BY <2>0, <2>2, ConcatProperties
    <2>6. \A i \in 1 .. Len(q) + Len(b) - 1 : (Tail(q) \o b)[i] = Tail(q \o b)[i]
      <3>1. Len(b) \in Nat
        BY <2>0
      <3>2. ASSUME NEW i \in 1 .. Len(q) + Len(b) - 1
            PROVE  (Tail(q) \o b)[i] = (q \o b)[i + 1]
        <4>1. CASE i <= Len(q) - 1
          BY <2>1, <2>2, <2>5, <3>1, <4>1
        <4>2. CASE ~(i <= Len(q) - 1)
          <5>1. i + 1 \in 1 .. Len(q) + Len(b) /\ ~(i + 1 <= Len(q)) /\ i + 1 - Len(q) = i - (Len(q) - 1)
            BY <2>2, <3>1, <4>2
          <5>. QED BY <2>1, <2>2, <2>5, <3>1, <4>2, <5>1
        <4>. QED BY <4>1, <4>2
      <3>. QED BY <2>4, <3>2
    <2>7. Tail(q) \o b = Tail(q \o b)
      <3>1. Len(b) \in Nat
        BY <2>0
      <3>2. Len(Tail(q) \o b) = Len(Tail(q \o b)) /\ Len(Tail(q) \o b) = Len(q) + Len(b) - 1
        BY <2>2, <2>4, <2>5, <3>1
      <3>. QED BY <2>4, <2>5, <2>6, <3>2, SeqEqual
    <2>8. Head(q \o b) = Head(q)
      <3>1. Head(q \o b) = (q \o b)[1] /\ Head(q) = q[1] /\ Len(b) \in Nat
        BY <2>0, <2>1, <2>3
      <3>. QED BY <2>1, <2>2, <3>1
    <2>. QED BY <2>3, <2>7, <2>8 DEF q, b
  <1>5. Len(Tail(s.queue)) <= QueueBuffer
    <2>1. Len(s.queue) <= QueueBuffer /\ Len(s.queue) \in Nat
      BY <1>1 DEF Fits
    <2>. QED BY <1>1, <1>3, <2>1
  <1>6. Fits([queue |-> Tail(s.queue), backlog |-> s.backlog])
    BY <1>1, <1>3, <1>5 DEF Fits, Shards
  <1>. QED BY <1>2, <1>4, <1>6 DEF Path

-----------------------------------------------------------------------------
(* The order of the events.                                                *)

Queued(w) == Elements(Path(shard[w]))
OnWay == Elements(events) \cup Carried \cup Elements(ingress)

\* From the ingress queue to the channel of the strategy, the oldest in front.
Upstream ==
  /\ heard <= Len(chain)
  /\ Ascending(ingress) /\ Ascending(events)
  /\ Before(Carried, Elements(ingress))
  /\ Before(Elements(events), Carried \cup Elements(ingress))
  /\ \A e \in OnWay : e <= heard

\* What a shard holds is older than what comes, newer than what its worker took.
InShard(w) ==
  /\ Ascending(Path(shard[w]))
  /\ Before(Queued(w), OnWay)
  /\ \A e \in Queued(w) : e <= heard
  /\ taken[w] <= heard
  /\ Before({taken[w]}, Queued(w) \cup OnWay)

PipeInv ==
  /\ TypeOK
  /\ \A w \in Workers : Fits(shard[w])
  /\ Upstream
  /\ \A w \in Workers : InShard(w)
  /\ poll.active => poll.next # 0

\* What is in flight to a worker, by the place where it is.
LEMMA InFlightIs ==
  ASSUME NEW w \in Workers
  PROVE  /\ shard[w] \in Shards =>
              InFlight(w) = Queued(w) \cup {e \in OnWay : WorkerOf(e) = w}
         /\ shard'[w] \in Shards =>
              InFlight(w)' = Queued(w)' \cup {e \in OnWay' : WorkerOf(e)' = w}
  <1>1. shard[w] \in Shards => Queued(w) = Elements(shard[w].queue) \cup Elements(shard[w].backlog)
    BY PathTyped DEF Queued
  <1>2. shard'[w] \in Shards => Queued(w)' = Elements(shard'[w].queue) \cup Elements(shard'[w].backlog)
    BY PathTyped DEF Queued
  <1>3. shard[w] \in Shards => InFlight(w) = Queued(w) \cup {e \in OnWay : WorkerOf(e) = w}
    BY <1>1 DEF InFlight, OnWay
  <1>4. shard'[w] \in Shards =>
          InFlight(w)' = Queued(w)' \cup {e \in OnWay' : WorkerOf(e)' = w}
    BY <1>2 DEF InFlight, OnWay
  <1>. QED BY <1>3, <1>4

LEMMA InvTyped ==
  ASSUME PipeInv
  PROVE  /\ ingress \in Seq(Blocks) /\ events \in Seq(Blocks)
         /\ Elements(ingress) \subseteq Blocks /\ Elements(events) \subseteq Blocks
         /\ Carried \subseteq Blocks /\ OnWay \subseteq Blocks
         /\ heard \in Nat /\ Len(chain) \in Nat /\ chain \in Seq(Pools)
         /\ \A w \in Workers : Path(shard[w]) \in Seq(Blocks) /\ Queued(w) \subseteq Blocks
         /\ \A w \in Workers : taken[w] \in Nat
  <1>1. /\ ingress \in Seq(Blocks) /\ events \in Seq(Blocks) /\ carried \in Nat
        /\ heard \in Nat /\ Len(chain) \in Nat /\ chain \in Seq(Pools)
        /\ \A w \in Workers : shard[w] \in Shards /\ taken[w] \in Nat
    BY DEF PipeInv, TypeOK, Events
  <1>2. Elements(ingress) \subseteq Blocks /\ Elements(events) \subseteq Blocks
    BY <1>1, ElementsTyped
  <1>3. Carried \subseteq Blocks
    BY <1>1 DEF Carried, NoEvent, Blocks
  <1>4. \A w \in Workers : Path(shard[w]) \in Seq(Blocks) /\ Queued(w) \subseteq Blocks
    BY <1>1, PathTyped, ElementsTyped DEF Queued
  <1>. QED BY <1>1, <1>2, <1>3, <1>4 DEF OnWay

FeedStep == Feed!Next \/ UNCHANGED Feed!vars

\* A step that leaves every event on its way where it is, as seen by the feed.
LEMMA FeedStutter ==
  ASSUME UNCHANGED <<heard, taken>>, \A w \in Workers : InFlight(w)' = InFlight(w)
  PROVE  FeedStep
  BY DEF FeedStep, Feed!vars

\* A step that loses the event e of one worker.
LEMMA FeedLose ==
  ASSUME NEW w \in Workers, NEW e \in InFlight(w), UNCHANGED <<heard, taken>>,
         \A v \in Workers : InFlight(v)' = IF v = w THEN InFlight(v) \ {e} ELSE InFlight(v)
  PROVE  FeedStep
  <1>1. [v \in Workers |-> InFlight(v)]'
          = [[v \in Workers |-> InFlight(v)] EXCEPT ![w] = @ \ {e}]
    OBVIOUS
  <1>. QED BY <1>1 DEF FeedStep, Feed!Next, Feed!Lose

\* The new block is the next one of the chain, and the events keep their worker.
LEMMA BlockInv == ASSUME PipeInv, Block PROVE PipeInv' /\ FeedStep
  <1>1. PICK pool \in Pools : chain' = Append(chain, pool)
    BY DEF Block
  <1>2. chain' \in Seq(Pools) /\ Len(chain') = Len(chain) + 1
        /\ \A e \in 1 .. Len(chain) : chain'[e] = chain[e]
    BY <1>1, InvTyped
  <1>3. UNCHANGED <<path, poller, results, faults>>
    BY DEF Block
  <1>4. \A w \in Workers : Queued(w)' = Queued(w)
    BY <1>3 DEF Queued, path
  <1>5. OnWay' = OnWay /\ Carried' = Carried
    BY <1>3 DEF OnWay, Carried, path
  <1>6. Upstream'
    BY <1>2, <1>3, <1>5, InvTyped DEF PipeInv, Upstream, path
  <1>7. \A w \in Workers : InShard(w)' /\ Fits(shard'[w])
    BY <1>3, <1>4, <1>5 DEF PipeInv, InShard, path
  <1>8. PipeInv'
    BY <1>2, <1>3, <1>6, <1>7 DEF PipeInv, TypeOK, path, poller, results
  <1>9. \A e \in OnWay : WorkerOf(e)' = WorkerOf(e)
    <2>1. \A e \in OnWay : e \in 1 .. Len(chain)
      BY InvTyped DEF PipeInv, Upstream, Blocks
    <2>. QED BY <1>2, <2>1 DEF WorkerOf
  <1>10. \A w \in Workers : InFlight(w)' = InFlight(w)
    <2>1. \A w \in Workers : shard[w] \in Shards /\ shard'[w] \in Shards
      BY <1>8 DEF PipeInv, Fits
    <2>. QED BY <1>4, <1>5, <1>9, <2>1, InFlightIs
  <1>. QED BY <1>3, <1>8, <1>10, FeedStutter DEF path

\* A log that is missed is skipped.
LEMMA SkipInv == ASSUME PipeInv, Disconnect PROVE PipeInv' /\ FeedStep
  <1>1. /\ heard' = heard + 1 /\ heard < Len(chain)
        /\ UNCHANGED <<chain, ingress, carried, events, shard, busy, taken, bridge,
                       metrics, poller, results>>
    BY DEF Disconnect
  <1>2. faults' \in Nat /\ heard' \in Nat
    BY <1>1 DEF Disconnect, Fault, PipeInv, TypeOK
  <1>3. OnWay' = OnWay /\ Carried' = Carried /\ \A w \in Workers : Queued(w)' = Queued(w)
    BY <1>1 DEF OnWay, Carried, Queued
  <1>4. \A e \in Nat : e <= heard => e <= heard'
    BY <1>1, InvTyped
  <1>5. Upstream'
    BY <1>1, <1>3, <1>4, InvTyped DEF PipeInv, Upstream, Blocks
  <1>6. \A w \in Workers : InShard(w)' /\ Fits(shard'[w])
    BY <1>1, <1>3, <1>4, InvTyped DEF PipeInv, InShard, Blocks
  <1>7. PipeInv'
    BY <1>1, <1>2, <1>5, <1>6 DEF PipeInv, TypeOK, poller, results
  <1>8. \A w \in Workers : InFlight(w)' = InFlight(w)
    BY <1>1 DEF InFlight, Carried, WorkerOf
  <1>9. [w \in Workers |-> InFlight(w)]' = [w \in Workers |-> InFlight(w)]
    BY <1>8
  <1>10. Feed!Skip
    BY <1>1, <1>2, <1>9, InvTyped DEF Feed!Skip
  <1>. QED BY <1>7, <1>10 DEF FeedStep, Feed!Next

\* A log that is read joins the ingress queue behind all others, or is dropped.
LEMMA HearInv == ASSUME PipeInv, Hear PROVE PipeInv' /\ FeedStep
  <1>0. PICK e \in Blocks : e = heard + 1
    BY InvTyped DEF Blocks
  <1>1. /\ heard' = e /\ heard < Len(chain) /\ PublishEvent(e)
        /\ UNCHANGED <<chain, carried, events, shard, busy, taken, poller, results, faults>>
        /\ heard \in Nat
    BY <1>0, InvTyped DEF Hear
  <1>2. bridge' \in Nat /\ metrics' \in Metrics
    <2>1. metrics \in Metrics /\ bridge \in Nat
      BY DEF PipeInv, TypeOK
    <2>2. bridge' \in Nat
      BY <2>1 DEF Hear
    <2>3. \/ metrics' = [metrics EXCEPT !.messages = @ + 1, !.published = @ + 1]
          \/ metrics' = [metrics EXCEPT !.messages = @ + 1, !.dropped = @ + 1]
      BY <1>1 DEF PublishEvent
    <2>4. /\ metrics.messages + 1 \in Nat /\ metrics.published + 1 \in Nat
          /\ metrics.dropped + 1 \in Nat
      BY <2>1 DEF Metrics
    <2>5. /\ [metrics EXCEPT !.messages = @ + 1, !.published = @ + 1] \in Metrics
          /\ [metrics EXCEPT !.messages = @ + 1, !.dropped = @ + 1] \in Metrics
      BY <2>1, <2>4 DEF Metrics
    <2>. QED BY <2>2, <2>3, <2>5
  <1>3. WorkerOf(e) \in Workers /\ WorkerOf(e)' = WorkerOf(e)
    <2>1. e \in 1 .. Len(chain)
      BY <1>0, <1>1, InvTyped DEF Blocks
    <2>2. chain[e] \in Pools
      BY <2>1, InvTyped
    <2>. QED BY <1>1, <2>2, PipelineAssumption DEF WorkerOf, PipelineAssumption
  <1>4. \A x \in OnWay : x < e
    BY <1>0, <1>1, InvTyped DEF PipeInv, Upstream, Blocks
  <1>5. \A w \in Workers : Queued(w)' = Queued(w) /\ (\A x \in Queued(w) : x < e) /\ taken[w] < e
    <2>1. UNCHANGED shard
      BY <1>1
    <2>2. \A w \in Workers : Queued(w)' = Queued(w)
      BY <2>1 DEF Queued
    <2>3. ASSUME NEW w \in Workers PROVE (\A x \in Queued(w) : x < e) /\ taken[w] < e
      <3>1. InShard(w)
        BY DEF PipeInv
      <3>2. (\A x \in Queued(w) : x <= heard) /\ taken[w] <= heard
        BY <3>1 DEF InShard
      <3>. QED BY <1>0, <3>2, InvTyped DEF Blocks
    <2>. QED BY <2>2, <2>3
  <1>6. CASE ingress' = ingress
    <2>1. OnWay' = OnWay /\ Carried' = Carried
      BY <1>1, <1>6 DEF OnWay, Carried
    <2>2. \A x \in Nat : x < e => x <= heard'
      BY <1>1, InvTyped DEF Blocks
    <2>3. Upstream'
      <3>1. heard' <= Len(chain')
        BY <1>0, <1>1, InvTyped
      <3>. QED BY <1>1, <1>4, <1>6, <2>1, <2>2, <3>1, InvTyped DEF PipeInv, Upstream, Blocks
    <2>4. \A w \in Workers : InShard(w)' /\ Fits(shard'[w])
      BY <1>1, <1>5, <2>1, <2>2, InvTyped DEF PipeInv, InShard, Blocks
    <2>5. PipeInv'
      BY <1>1, <1>2, <1>6, <2>3, <2>4 DEF PipeInv, TypeOK, poller, results, Blocks
    <2>6. \A w \in Workers : InFlight(w)' = InFlight(w)
      BY <1>1, <1>6 DEF InFlight, Carried, WorkerOf
    <2>7. [w \in Workers |-> InFlight(w)]' = [w \in Workers |-> InFlight(w)]
      BY <2>6
    <2>8. Feed!Skip
      BY <1>0, <1>1, <2>7, InvTyped DEF Feed!Skip
    <2>. QED BY <2>5, <2>8 DEF FeedStep, Feed!Next
  <1>7. CASE ingress' = Append(ingress, e)
    <2>1. /\ ingress' \in Seq(Blocks) /\ Elements(ingress') = Elements(ingress) \cup {e}
          /\ Ascending(ingress')
      <3>1. Before(Elements(ingress), {e})
        BY <1>4 DEF Before, OnWay
      <3>. QED BY <1>1, <1>7, <3>1, InvTyped, AppendElements DEF PipeInv, Upstream
    <2>2. Carried' = Carried /\ OnWay' = OnWay \cup {e}
      BY <1>1, <2>1 DEF OnWay, Carried
    <2>3. e <= heard' /\ \A x \in Nat : x < e => x <= heard'
      BY <1>1, InvTyped DEF Blocks
    <2>4. Upstream'
      <3>1. heard' <= Len(chain')
        BY <1>0, <1>1, InvTyped
      <3>2. Before(Carried, {e}) /\ Before(Elements(events), {e})
        BY <1>4 DEF Before, OnWay
      <3>3. /\ Before(Carried', Elements(ingress'))
            /\ Before(Elements(events)', Carried' \cup Elements(ingress'))
        BY <1>1, <2>1, <2>2, <3>2 DEF PipeInv, Upstream, Before
      <3>4. \A x \in OnWay' : x <= heard'
        BY <1>4, <2>2, <2>3, InvTyped DEF Blocks
      <3>. QED BY <1>1, <2>1, <3>1, <3>3, <3>4 DEF PipeInv, Upstream
    <2>5. \A w \in Workers : InShard(w)' /\ Fits(shard'[w])
      <3>. SUFFICES ASSUME NEW w \in Workers PROVE InShard(w)' /\ Fits(shard'[w])
        OBVIOUS
      <3>1. Before(Queued(w)', OnWay') /\ Before({taken'[w]}, Queued(w)' \cup OnWay')
        BY <1>1, <1>5, <2>2 DEF PipeInv, InShard, Before
      <3>2. taken'[w] <= heard' /\ \A x \in Queued(w)' : x <= heard'
        BY <1>1, <1>5, <2>3, InvTyped DEF Blocks
      <3>. QED BY <1>1, <3>1, <3>2 DEF PipeInv, InShard
    <2>6. PipeInv'
      BY <1>1, <1>2, <2>1, <2>4, <2>5 DEF PipeInv, TypeOK, poller, results, Blocks
    <2>7. \A w \in Workers : InFlight(w)' = IF w = WorkerOf(e) THEN InFlight(w) \cup {e} ELSE InFlight(w)
      <3>1. \A w \in Workers : shard[w] \in Shards /\ shard'[w] \in Shards
        BY <2>6 DEF PipeInv, Fits
      <3>2. \A x : WorkerOf(x)' = WorkerOf(x)
        BY <1>1 DEF WorkerOf
      <3>3. ASSUME NEW w \in Workers
            PROVE  InFlight(w)' = IF w = WorkerOf(e) THEN InFlight(w) \cup {e} ELSE InFlight(w)
        <4>1. /\ InFlight(w) = Queued(w) \cup {x \in OnWay : WorkerOf(x) = w}
              /\ InFlight(w)' = Queued(w)' \cup {x \in OnWay' : WorkerOf(x)' = w}
          BY <3>1, InFlightIs
        <4>2. {x \in OnWay' : WorkerOf(x)' = w}
                = {x \in OnWay : WorkerOf(x) = w} \cup {x \in {e} : WorkerOf(x) = w}
          BY <2>2, <3>2
        <4>. QED BY <1>5, <4>1, <4>2
      <3>. QED BY <3>3
    <2>8. Feed!Accept(WorkerOf(e))
      <3>1. [w \in Workers |-> InFlight(w)]'
              = [[w \in Workers |-> InFlight(w)] EXCEPT ![WorkerOf(e)] = @ \cup {e}]
        BY <2>7
      <3>2. heard' \in Nat /\ heard' > heard
        BY <1>0, <1>1
      <3>. QED BY <1>1, <3>1, <3>2 DEF Feed!Accept
    <2>. QED BY <1>3, <2>6, <2>8 DEF FeedStep, Feed!Next
  <1>. QED BY <1>1, <1>6, <1>7 DEF PublishEvent

\* A step that moves an event on changes nothing for a shard that keeps its path,
\* and nothing for the feed.
LEMMA Moves ==
  ASSUME PipeInv, UNCHANGED <<chain, heard, taken>>, OnWay' = OnWay,
         \A w \in Workers : Fits(shard'[w]) /\ Path(shard'[w]) = Path(shard[w])
  PROVE  (\A w \in Workers : InShard(w)') /\ FeedStep
  <1>1. \A w \in Workers : Queued(w)' = Queued(w)
    BY DEF Queued
  <1>2. \A w \in Workers : InShard(w)'
    BY <1>1 DEF PipeInv, InShard
  <1>3. ASSUME NEW w \in Workers PROVE InFlight(w)' = InFlight(w)
    <2>1. shard[w] \in Shards /\ shard'[w] \in Shards
      BY DEF PipeInv, Fits
    <2>2. \A x : WorkerOf(x)' = WorkerOf(x)
      BY DEF WorkerOf
    <2>. QED BY <1>1, <2>1, <2>2, InFlightIs
  <1>. QED BY <1>2, <1>3, FeedStutter

LEMMA CarryInv == ASSUME PipeInv, Carry PROVE PipeInv' /\ FeedStep
  <1>1. /\ carried = NoEvent /\ ingress # <<>>
        /\ carried' = Head(ingress) /\ ingress' = Tail(ingress)
        /\ UNCHANGED <<chain, heard, events, shard, busy, taken, bridge, metrics,
                       poller, results, faults>>
    BY DEF Carry
  <1>2. /\ Head(ingress) \in Elements(ingress) /\ Tail(ingress) \in Seq(Blocks)
        /\ Ascending(Tail(ingress)) /\ Elements(Tail(ingress)) = Elements(ingress) \ {Head(ingress)}
        /\ Before({Head(ingress)}, Elements(Tail(ingress))) /\ Head(ingress) \in Blocks
    BY <1>1, InvTyped, TailElements DEF PipeInv, Upstream
  <1>3. Carried = {} /\ Carried' = {Head(ingress)}
    BY <1>1, <1>2 DEF Carried, NoEvent, Blocks
  <1>4. OnWay' = OnWay
    BY <1>1, <1>2, <1>3 DEF OnWay
  <1>5. Upstream'
    BY <1>1, <1>2, <1>3, <1>4 DEF PipeInv, Upstream, Before
  <1>6. (\A w \in Workers : InShard(w)' /\ Fits(shard'[w])) /\ FeedStep
    BY <1>1, <1>4, Moves DEF PipeInv
  <1>7. PipeInv'
    BY <1>1, <1>2, <1>5, <1>6 DEF PipeInv, TypeOK, poller, results, Blocks, Events
  <1>. QED BY <1>6, <1>7

LEMMA DeliverInv == ASSUME PipeInv, Deliver PROVE PipeInv' /\ FeedStep
  <1>1. /\ carried # NoEvent /\ events' = Append(events, carried) /\ carried' = NoEvent
        /\ UNCHANGED <<chain, heard, ingress, shard, busy, taken, bridge, metrics,
                       poller, results, faults>>
    BY DEF Deliver
  <1>2. Carried = {carried} /\ Carried' = {} /\ carried \in Blocks
    BY <1>1, InvTyped DEF Carried
  <1>3. Before(Elements(events), {carried}) /\ Before({carried}, Elements(ingress))
    BY <1>2 DEF PipeInv, Upstream, Before
  <1>4. /\ events' \in Seq(Blocks) /\ Elements(events') = Elements(events) \cup {carried}
        /\ Ascending(events')
    BY <1>1, <1>2, <1>3, InvTyped, AppendElements DEF PipeInv, Upstream
  <1>5. OnWay' = OnWay
    BY <1>1, <1>2, <1>4 DEF OnWay
  <1>6. Upstream'
    BY <1>1, <1>2, <1>3, <1>4, <1>5 DEF PipeInv, Upstream, Before
  <1>7. (\A w \in Workers : InShard(w)' /\ Fits(shard'[w])) /\ FeedStep
    BY <1>1, <1>5, Moves DEF PipeInv
  <1>8. PipeInv'
    BY <1>1, <1>4, <1>6, <1>7 DEF PipeInv, TypeOK, poller, results, Events, NoEvent
  <1>. QED BY <1>7, <1>8

\* The ticker drains every shard.
LEMMA DrainInv == ASSUME PipeInv, Drain PROVE PipeInv' /\ FeedStep
  <1>1. /\ shard' = DrainedAll(shard)
        /\ UNCHANGED <<chain, heard, ingress, carried, events, busy, taken, bridge,
                       metrics, poller, results, faults>>
    BY DEF Drain
  <1>2. \A w \in Workers : Fits(shard'[w]) /\ Path(shard'[w]) = Path(shard[w])
    BY <1>1, PathDrained DEF DrainedAll, PipeInv
  <1>3. OnWay' = OnWay /\ Carried' = Carried
    BY <1>1 DEF OnWay, Carried
  <1>4. Upstream'
    BY <1>1, <1>3 DEF PipeInv, Upstream
  <1>5. (\A w \in Workers : InShard(w)') /\ FeedStep
    BY <1>1, <1>2, <1>3, Moves
  <1>6. shard' \in [Workers -> Shards]
    BY <1>1, <1>2 DEF DrainedAll, Fits
  <1>7. PipeInv'
    BY <1>1, <1>2, <1>4, <1>5, <1>6 DEF PipeInv, TypeOK, poller, results
  <1>. QED BY <1>5, <1>7

\* The first event of the channel goes behind all others of its shard, or is lost.
LEMMA ReceiveInv == ASSUME PipeInv, Receive PROVE PipeInv' /\ FeedStep
  <1>1. PICK e, w : /\ e = Head(events) /\ w = WorkerOf(e) /\ events # <<>>
    BY DEF Receive
  <1>2. /\ events' = Tail(events)
        /\ UNCHANGED <<chain, heard, ingress, carried, busy, taken, bridge, poller,
                       results, faults>>
    BY DEF Receive
  <1>3. /\ e \in Elements(events) /\ e \in Blocks /\ events' \in Seq(Blocks) /\ Ascending(events')
        /\ Elements(events') = Elements(events) \ {e}
        /\ Before({e}, Elements(events'))
    BY <1>1, <1>2, InvTyped, TailElements DEF PipeInv, Upstream
  <1>4. Carried' = Carried /\ OnWay' = OnWay \ {e} /\ e \in OnWay
    <2>1. Carried' = Carried
      BY <1>2 DEF Carried
    <2>2. e \notin Carried \cup Elements(ingress)
      BY <1>3, InvTyped DEF PipeInv, Upstream, Before, Blocks
    <2>. QED BY <1>2, <1>3, <2>1, <2>2 DEF OnWay
  <1>5. Before({e}, OnWay')
    BY <1>2, <1>3, <1>4 DEF PipeInv, Upstream, Before, OnWay
  <1>6. Upstream'
    BY <1>2, <1>3, <1>4 DEF PipeInv, Upstream, Before
  <1>7. w \in Workers
    <2>1. e \in 1 .. Len(chain)
      <3>1. e <= heard /\ heard <= Len(chain)
        BY <1>4 DEF PipeInv, Upstream
      <3>2. e \in Nat /\ e >= 1 /\ heard \in Nat /\ Len(chain) \in Nat
        BY <1>3, InvTyped DEF Blocks
      <3>. QED BY <3>1, <3>2
    <2>. QED BY SMTT(30), <1>1, <2>1, InvTyped, PipelineAssumption DEF WorkerOf, PipelineAssumption
  <1>8. \A v \in Workers : e \notin Queued(v)
    BY <1>3, <1>4 DEF PipeInv, InShard, Before, Blocks
  <1>9. \A v \in Workers : Before(Queued(v), OnWay') /\ Before({taken[v]}, Queued(v) \cup OnWay')
                           /\ Before(Queued(v), {e}) /\ taken[v] < e
    BY <1>4 DEF PipeInv, InShard, Before
  <1>10. \A x : WorkerOf(x)' = WorkerOf(x)
    BY <1>2 DEF WorkerOf
  <1>11. CASE shard' = DrainedAll([shard EXCEPT ![w] = Enqueued(@, e)]) /\ UNCHANGED metrics
    <2>1. ASSUME NEW v \in Workers
          PROVE  /\ Fits(shard'[v])
                 /\ Path(shard'[v]) = IF v = w THEN Append(Path(shard[w]), e) ELSE Path(shard[v])
      <3>. DEFINE s == IF v = w THEN Enqueued(shard[w], e) ELSE shard[v]
      <3>1. shard'[v] = Drained(s)
        BY <1>7, <1>11 DEF DrainedAll, PipeInv, TypeOK
      <3>2. Fits(s) /\ Path(s) = IF v = w THEN Append(Path(shard[w]), e) ELSE Path(shard[v])
        BY <1>3, PathEnqueued DEF PipeInv
      <3>. QED BY <3>1, <3>2, PathDrained
    <2>2. ASSUME NEW v \in Workers
          PROVE  Queued(v)' = (IF v = w THEN Queued(v) \cup {e} ELSE Queued(v)) /\ Ascending(Path(shard'[v]))
      <3>1. Path(shard[v]) \in Seq(Blocks) /\ Ascending(Path(shard[v]))
            /\ Before(Elements(Path(shard[v])), {e})
        BY <1>9, InvTyped DEF PipeInv, InShard, Queued
      <3>2. /\ Elements(Append(Path(shard[v]), e)) = Elements(Path(shard[v])) \cup {e}
            /\ Ascending(Append(Path(shard[v]), e))
        BY <1>3, <3>1, AppendElements
      <3>. QED BY <2>1, <3>1, <3>2 DEF Queued
    <2>3. ASSUME NEW v \in Workers PROVE InShard(v)'
      <3>1. Before(Queued(v)', OnWay') /\ Before({taken'[v]}, Queued(v)' \cup OnWay')
        BY <1>2, <1>5, <1>9, <2>2 DEF Before
      <3>2. taken'[v] <= heard' /\ \A x \in Queued(v)' : x <= heard'
        BY <1>2, <1>4, <2>2 DEF PipeInv, InShard, Upstream
      <3>. QED BY <2>2, <3>1, <3>2 DEF InShard
    <2>4. ASSUME NEW v \in Workers PROVE InFlight(v)' = InFlight(v)
      <3>1. shard[v] \in Shards /\ shard'[v] \in Shards
        BY <2>1 DEF PipeInv, Fits
      <3>2. {x \in OnWay' : WorkerOf(x)' = v} = {x \in OnWay : WorkerOf(x) = v} \ {e}
        BY <1>4, <1>10
      <3>3. v = w <=> e \in {x \in OnWay : WorkerOf(x) = v}
        BY <1>1, <1>4
      <3>. QED BY <2>2, <3>1, <3>2, <3>3, InFlightIs
    <2>5. FeedStep
      BY <1>2, <2>4, FeedStutter
    <2>6. shard' \in [Workers -> Shards]
      BY <1>11, <2>1 DEF DrainedAll, Fits
    <2>7. PipeInv'
      BY <1>2, <1>3, <1>6, <1>11, <2>1, <2>3, <2>6 DEF PipeInv, TypeOK, poller, results
    <2>. QED BY <2>5, <2>7
  <1>12. CASE shard' = DrainedAll(shard) /\ metrics' = Counted(metrics)
    <2>1. ASSUME NEW v \in Workers
          PROVE  Fits(shard'[v]) /\ Path(shard'[v]) = Path(shard[v]) /\ Queued(v)' = Queued(v)
      <3>1. Fits(shard'[v]) /\ Path(shard'[v]) = Path(shard[v])
        BY <1>12, PathDrained DEF DrainedAll, PipeInv
      <3>. QED BY <3>1 DEF Queued
    <2>2. ASSUME NEW v \in Workers PROVE InShard(v)'
      BY <1>2, <1>9, <2>1 DEF PipeInv, InShard
    <2>3. \A v \in Workers : InFlight(v)' = IF v = w THEN InFlight(v) \ {e} ELSE InFlight(v)
      <3>. SUFFICES ASSUME NEW v \in Workers
                    PROVE  InFlight(v)' = IF v = w THEN InFlight(v) \ {e} ELSE InFlight(v)
        OBVIOUS
      <3>1. shard[v] \in Shards /\ shard'[v] \in Shards
        BY <2>1 DEF PipeInv, Fits
      <3>2. {x \in OnWay' : WorkerOf(x)' = v} = {x \in OnWay : WorkerOf(x) = v} \ {e}
        BY <1>4, <1>10
      <3>3. v # w => e \notin {x \in OnWay : WorkerOf(x) = v}
        BY <1>1
      <3>. QED BY SMTT(30), <1>8, <2>1, <3>1, <3>2, <3>3, InFlightIs
    <2>4. e \in InFlight(w)
      <3>1. shard[w] \in Shards
        BY <1>7 DEF PipeInv, Fits
      <3>. QED BY <1>1, <1>4, <1>7, <3>1, InFlightIs
    <2>5. FeedStep
      BY <1>2, <1>7, <2>3, <2>4, FeedLose
    <2>6. shard' \in [Workers -> Shards] /\ metrics' \in Metrics
      <3>1. metrics \in Metrics
        BY DEF PipeInv, TypeOK
      <3>2. metrics' \in Metrics
        BY <1>12, <3>1 DEF Counted, Metrics
      <3>. QED BY <1>12, <2>1, <3>2 DEF DrainedAll, Fits
    <2>7. PipeInv'
      BY <1>2, <1>3, <1>6, <2>1, <2>2, <2>6 DEF PipeInv, TypeOK, poller, results
    <2>. QED BY <2>5, <2>7
  <1>. QED BY <1>1, <1>11, <1>12 DEF Receive

\* A worker takes the oldest of all events in flight to it.
LEMMA TakeInv == ASSUME PipeInv, NEW w \in Workers, Take(w) PROVE PipeInv' /\ FeedStep
  <1>. DEFINE e == Head(shard[w].queue)
  <1>1. /\ shard[w].queue # <<>>
        /\ busy' = [busy EXCEPT ![w] = e] /\ taken' = [taken EXCEPT ![w] = e]
        /\ shard' = [shard EXCEPT ![w].queue = Tail(@)]
        /\ metrics' = [metrics EXCEPT !.processed = @ + 1]
        /\ UNCHANGED <<chain, heard, ingress, carried, events, bridge, poller, results, faults>>
    BY DEF Take
  <1>2. /\ Fits(shard'[w]) /\ Path(shard'[w]) = Tail(Path(shard[w]))
        /\ Path(shard[w]) # <<>> /\ Head(Path(shard[w])) = e
    <2>1. shard'[w] = [shard[w] EXCEPT !.queue = Tail(@)]
      BY <1>1 DEF PipeInv, TypeOK
    <2>. QED BY <1>1, <2>1, PathTaken DEF PipeInv
  <1>. HIDE DEF e
  <1>3. /\ e \in Queued(w) /\ Queued(w)' = Queued(w) \ {e} /\ Ascending(Path(shard'[w]))
        /\ \A x \in Queued(w) : e <= x
        /\ Before({e}, Queued(w)') /\ e \in Blocks
    BY <1>2, InvTyped, TailElements DEF PipeInv, InShard, Queued
  <1>4. OnWay' = OnWay /\ Carried' = Carried
    BY <1>1 DEF OnWay, Carried
  <1>5. \A v \in Workers : v # w => shard'[v] = shard[v] /\ taken'[v] = taken[v]
    BY <1>1 DEF PipeInv, TypeOK
  <1>6. taken'[w] = e /\ taken' \in [Workers -> Events] /\ busy' \in [Workers -> Events]
    BY <1>1, <1>3 DEF PipeInv, TypeOK, Events, Blocks
  <1>7. Upstream'
    BY <1>1, <1>4 DEF PipeInv, Upstream
  <1>8. ASSUME NEW v \in Workers PROVE InShard(v)' /\ Fits(shard'[v])
    <2>1. CASE v = w
      BY <1>1, <1>2, <1>3, <1>4, <1>6, <2>1 DEF PipeInv, InShard, Before
    <2>2. CASE v # w
      BY <1>1, <1>4, <1>5, <2>2 DEF PipeInv, InShard, Queued
    <2>. QED BY <2>1, <2>2
  <1>9. shard' \in [Workers -> Shards] /\ metrics' \in Metrics
    <2>1. metrics \in Metrics
      BY DEF PipeInv, TypeOK
    <2>2. metrics' \in Metrics
      BY <1>1, <2>1 DEF Metrics
    <2>3. DOMAIN shard' = Workers /\ shard' = [v \in Workers |-> shard'[v]]
      BY <1>1 DEF PipeInv, TypeOK
    <2>. QED BY <1>8, <2>2, <2>3 DEF Fits
  <1>10. PipeInv'
    BY <1>1, <1>6, <1>7, <1>8, <1>9 DEF PipeInv, TypeOK, poller, results
  <1>11. \A x : WorkerOf(x)' = WorkerOf(x)
    BY <1>1 DEF WorkerOf
  <1>12. \A v \in Workers : shard[v] \in Shards /\ shard'[v] \in Shards
    BY <1>8 DEF PipeInv, Fits
  <1>13. \A v \in Workers : InFlight(v)' = IF v = w THEN InFlight(w) \ {e} ELSE InFlight(v)
    <2>1. e \notin OnWay
      BY <1>3 DEF PipeInv, InShard, Before, Blocks
    <2>2. \A v \in Workers : v # w => Queued(v)' = Queued(v)
      BY <1>5 DEF Queued
    <2>3. \A v \in Workers : {x \in OnWay' : WorkerOf(x)' = v} = {x \in OnWay : WorkerOf(x) = v}
      BY <1>4, <1>11
    <2>4. ASSUME NEW v \in Workers
          PROVE  InFlight(v)' = IF v = w THEN InFlight(w) \ {e} ELSE InFlight(v)
      <3>1. /\ InFlight(v) = Queued(v) \cup {x \in OnWay : WorkerOf(x) = v}
            /\ InFlight(v)' = Queued(v)' \cup {x \in OnWay' : WorkerOf(x)' = v}
        BY <1>12, InFlightIs
      <3>2. CASE v = w
        BY <1>3, <2>1, <2>3, <3>1, <3>2
      <3>3. CASE v # w
        BY <2>2, <2>3, <3>1, <3>3
      <3>. QED BY <3>2, <3>3
    <2>. QED BY <2>4
  <1>14. e \in InFlight(w) /\ \A x \in InFlight(w) : e <= x
    <2>1. \A x \in OnWay : e <= x
      BY <1>3, InvTyped DEF PipeInv, InShard, Before, Blocks
    <2>. QED BY <1>3, <1>12, <2>1, InFlightIs
  <1>15. Feed!Take(w)
    <2>1. [v \in Workers |-> InFlight(v)]'
            = [[v \in Workers |-> InFlight(v)] EXCEPT ![w] = @ \ {e}]
      BY <1>13
    <2>. QED BY <1>1, <1>14, <2>1 DEF Feed!Take
  <1>. QED BY <1>10, <1>15 DEF FeedStep, Feed!Next

\* A restart forgets what is on its way and skips what was not read.
LEMMA RestartInv == ASSUME PipeInv, Restart PROVE PipeInv' /\ FeedStep
  <1>1. /\ heard' = Len(chain) /\ ingress' = <<>> /\ carried' = NoEvent /\ events' = <<>>
        /\ shard' = [w \in Workers |-> [queue |-> <<>>, backlog |-> <<>>]]
        /\ UNCHANGED <<chain, taken, results>>
        /\ poll' = Idle /\ polled' = Unset
    BY DEF Restart
  <1>2. OnWay' = {} /\ Carried' = {}
    BY <1>1, ElementsEmpty DEF OnWay, Carried
  <1>3. /\ \A w \in Workers : Path(shard'[w]) = <<>>
        /\ \A w \in Workers : Fits(shard'[w])
    BY <1>1, PipelineAssumption DEF Path, Fits, Shards, PipelineAssumption
  <1>4. \A w \in Workers : Queued(w)' = {}
    BY <1>3, ElementsEmpty DEF Queued
  <1>5. Upstream'
    BY <1>1, <1>2, ElementsEmpty, InvTyped DEF Upstream, Before
  <1>6. \A w \in Workers : InShard(w)'
    BY <1>1, <1>2, <1>3, <1>4, ElementsEmpty, InvTyped DEF PipeInv, InShard, Upstream, Before
  <1>7. TypeOK'
    <2>1. faults' \in Nat /\ bridge' \in Nat /\ metrics' \in Metrics
          /\ busy' \in [Workers -> Events]
      BY DEF Restart, Fault, PipeInv, TypeOK, Metrics, NoMetrics, Events, NoEvent
    <2>2. shard' \in [Workers -> Shards] /\ heard' \in Nat
      BY <1>1, InvTyped DEF Shards
    <2>3. poll' \in [active : BOOLEAN, next : Nat, to : Nat, ok : BOOLEAN]
      BY <1>1 DEF Idle
    <2>. QED BY <1>1, <2>1, <2>2, <2>3 DEF PipeInv, TypeOK, results, Events, NoEvent
  <1>8. PipeInv'
    BY <1>1, <1>3, <1>5, <1>6, <1>7 DEF PipeInv, Idle
  <1>9. \A w \in Workers : InFlight(w)' = {}
    <2>1. \A w \in Workers : shard'[w] \in Shards
      BY <1>3 DEF Fits
    <2>. QED BY <1>2, <1>4, <2>1, InFlightIs
  <1>10. Feed!Restart
    <2>1. [w \in Workers |-> InFlight(w)]' = [w \in Workers |-> {}]
      BY <1>9
    <2>2. heard' \in Nat /\ heard' >= heard
      BY <1>1, InvTyped DEF PipeInv, Upstream
    <2>. QED BY <1>1, <2>1, <2>2 DEF Feed!Restart
  <1>. QED BY <1>8, <1>10 DEF FeedStep, Feed!Next

\* The poller, the workers at work and the API's subscriber move no event.
LEMMA AsideInv ==
  ASSUME PipeInv, UNCHANGED <<chain, heard, ingress, carried, events, shard, taken>>,
         TypeOK', poll'.active => poll'.next # 0
  PROVE  PipeInv' /\ FeedStep
  <1>1. OnWay' = OnWay /\ Carried' = Carried
    BY DEF OnWay, Carried
  <1>2. Upstream'
    BY <1>1 DEF PipeInv, Upstream
  <1>3. (\A w \in Workers : InShard(w)') /\ FeedStep
    BY <1>1, Moves DEF PipeInv
  <1>. QED BY <1>2, <1>3 DEF PipeInv

LEMMA AsideTyped ==
  ASSUME PipeInv,
         \/ Bridge \/ PollStart \/ PollEvent \/ PollEnd \/ UNCHANGED vars
         \/ \E w \in Workers : Finish(w)
  PROVE  /\ UNCHANGED <<chain, heard, ingress, carried, events, shard, taken>>
         /\ TypeOK' /\ (poll'.active => poll'.next # 0)
  <1>1. /\ poll \in [active : BOOLEAN, next : Nat, to : Nat, ok : BOOLEAN]
        /\ polled \in Nat \cup {Unset} /\ Len(chain) \in Nat /\ faults \in Nat
        /\ bridge \in Nat /\ processed \subseteq Blocks /\ failed \subseteq Blocks
    BY InvTyped DEF PipeInv, TypeOK
  <1>2. CASE Bridge
    BY <1>1, <1>2 DEF Bridge, PipeInv, TypeOK, poller, results
  <1>3. CASE PollStart
    <2>1. From \in Nat \ {0} /\ Lesser(Len(chain), From + PollSpan) \in Nat
      <3>1. From \in Nat \ {0}
        <4>1. Greater(1, Len(chain) - 2) \in Nat \ {0}
          <5>1. \A n \in Int : Greater(1, n) \in Nat \ {0}
            BY DEF Greater
          <5>2. Len(chain) - 2 \in Int
            BY <1>1
          <5>. QED BY <5>1, <5>2
        <4>2. polled # Unset => polled + 1 \in Nat \ {0}
          BY <1>1
        <4>. QED BY <4>1, <4>2 DEF From
      <3>. QED BY <1>1, <3>1, PipelineAssumption DEF Lesser, PipelineAssumption
    <2>. QED BY <1>1, <1>3, <2>1 DEF PollStart, PipeInv, TypeOK, path, results
  <1>4. CASE PollEvent
    <2>1. poll.next \in Blocks /\ poll.next + 1 \in Nat \ {0}
      BY <1>1, <1>4 DEF PollEvent, PipeInv, Blocks
    <2>2. /\ poll' \in [active : BOOLEAN, next : Nat, to : Nat, ok : BOOLEAN]
          /\ poll'.next # 0 /\ faults' \in Nat
          /\ processed' \subseteq Blocks /\ failed' \subseteq Blocks
      <3>1. /\ poll' = [poll EXCEPT !.next = poll.next + 1]
               \/ poll' = [poll EXCEPT !.next = poll.next + 1, !.ok = FALSE]
            /\ processed' \in {processed, processed \cup {poll.next}}
            /\ failed' \in {failed, failed \cup {poll.next}}
            /\ faults' \in {faults, faults + 1}
        BY <1>4 DEF PollEvent, Fault, results
      <3>2. /\ poll' \in [active : BOOLEAN, next : Nat, to : Nat, ok : BOOLEAN]
            /\ poll'.next = poll.next + 1
        BY <1>1, <2>1, <3>1
      <3>. QED BY <1>1, <2>1, <3>1, <3>2
    <2>. QED BY <1>4, <2>2 DEF PollEvent, PipeInv, TypeOK, path
  <1>5. CASE PollEnd
    BY <1>1, <1>5 DEF PollEnd, PipeInv, TypeOK, path, results, Idle
  <1>6. CASE UNCHANGED vars
    BY <1>6 DEF vars, PipeInv, TypeOK, path, poller, results
  <1>7. ASSUME NEW w \in Workers, Finish(w)
        PROVE  /\ UNCHANGED <<chain, heard, ingress, carried, events, shard, taken>>
               /\ TypeOK' /\ (poll'.active => poll'.next # 0)
    <2>1. busy[w] \in Blocks
      BY <1>7 DEF Finish, PipeInv, TypeOK, Events, NoEvent, Blocks
    <2>2. processed' \subseteq Blocks /\ failed' \subseteq Blocks /\ faults' \in Nat
      BY <1>1, <1>7, <2>1 DEF Finish, Fault, results
    <2>3. busy' \in [Workers -> Events]
      BY <1>7 DEF Finish, PipeInv, TypeOK, Events, NoEvent
    <2>. QED BY <1>7, <2>2, <2>3 DEF Finish, PipeInv, TypeOK, poller
  <1>. QED BY <1>2, <1>3, <1>4, <1>5, <1>6, <1>7

-----------------------------------------------------------------------------
(* The theorems.                                                           *)

LEMMA PipeStep == ASSUME PipeInv, [Next]_vars PROVE PipeInv' /\ FeedStep
  BY BlockInv, SkipInv, HearInv, CarryInv, DeliverInv, ReceiveInv, DrainInv, RestartInv,
     TakeInv, AsideTyped, AsideInv
  DEF Next, PathNext, PollerNext

LEMMA PipeInit == Init => PipeInv /\ Feed!Init
  <1>. SUFFICES ASSUME Init PROVE PipeInv /\ Feed!Init
    OBVIOUS
  <1>1. OnWay = {} /\ Carried = {}
    BY ElementsEmpty DEF Init, OnWay, Carried
  <1>2. \A w \in Workers : Path(shard[w]) = <<>> /\ Fits(shard[w])
    BY PipelineAssumption DEF Init, Path, Fits, Shards, PipelineAssumption
  <1>3. \A w \in Workers : Queued(w) = {}
    BY <1>2, ElementsEmpty DEF Queued
  <1>4. Upstream /\ \A w \in Workers : InShard(w)
    BY <1>1, <1>2, <1>3, ElementsEmpty DEF Init, Upstream, InShard, Before, NoEvent
  <1>5. TypeOK
    BY DEF Init, TypeOK, Shards, Metrics, NoMetrics, Events, NoEvent, Idle
  <1>6. PipeInv
    BY <1>2, <1>4, <1>5 DEF PipeInv, Init, Idle
  <1>7. \A w \in Workers : InFlight(w) = {}
    <2>1. \A w \in Workers : shard[w] \in Shards
      BY <1>2 DEF Fits
    <2>. QED BY <1>1, <1>3, <2>1, InFlightIs
  <1>8. Feed!Init
    BY <1>7 DEF Init, Feed!Init, NoEvent
  <1>. QED BY <1>6, <1>8

\* Every variable keeps to its set.
THEOREM TypeCorrect == Spec => []TypeOK
  <1>1. PipeInv /\ [Next]_vars => PipeInv'
    BY PipeStep
  <1>2. PipeInv => TypeOK
    BY DEF PipeInv
  <1>. QED BY PipeInit, <1>1, <1>2, PTL DEF Spec

\* The path from the websocket to the workers implements the feed: whatever the
\* queues drop and whatever is missed, a worker takes the oldest event in flight
\* to it.
THEOREM FeedCorrect == Spec => FeedImplemented
  <1>1. PipeInv /\ [Next]_vars => PipeInv' /\ [Feed!Next]_(Feed!vars)
    BY PipeStep DEF FeedStep
  <1>2. Init => PipeInv /\ Feed!Init
    BY PipeInit
  <1>. QED BY <1>1, <1>2, PTL DEF Spec, FeedImplemented, Feed!Spec

\* What keeps the order of the feed, in terms of the path: what is on its way to
\* a worker, and what the worker took, is no newer than what the reader saw.
OnTheirWay == [w \in Workers |-> InFlight(w)]
FeedInv ==
    /\ heard \in Nat
    /\ OnTheirWay \in [Workers -> SUBSET Nat]
    /\ taken \in [Workers -> Nat]
    /\ \A w \in Workers : taken[w] <= heard
    /\ Feed!PendingIsNewer

LEMMA FeedNewer ==
  /\ Feed!PendingIsNewer <=>
        \A w \in Workers : \A e \in OnTheirWay[w] : taken[w] < e /\ e <= heard
  /\ Feed!PendingIsNewer' <=>
        \A w \in Workers : \A e \in OnTheirWay'[w] : taken'[w] < e /\ e <= heard'
  BY DEF Feed!PendingIsNewer, OnTheirWay

LEMMA FeedInit == Feed!Init => FeedInv
  BY FeedNewer DEF Feed!Init, FeedInv, OnTheirWay

\* The reader moves on; a worker may get what it read last.
LEMMA FeedRead ==
  ASSUME FeedInv, Feed!Skip \/ Feed!Restart \/ \E w \in Workers : Feed!Accept(w)
  PROVE  FeedInv'
  <1>1. /\ heard' \in Nat /\ heard' >= heard
        /\ taken' = taken
    <2>1. heard \in Nat
      BY DEF FeedInv
    <2>2. CASE Feed!Skip
      BY <2>1, <2>2 DEF Feed!Skip
    <2>3. CASE Feed!Restart
      BY <2>1, <2>3 DEF Feed!Restart
    <2>4. CASE \E w \in Workers : Feed!Accept(w)
      BY <2>1, <2>4 DEF Feed!Accept
    <2>. QED BY <2>2, <2>3, <2>4
  <1>2. /\ OnTheirWay' \in [Workers -> SUBSET Nat]
        /\ \A w \in Workers : \A e \in OnTheirWay'[w] :
              e \in OnTheirWay[w] \/ (e = heard' /\ heard' > heard)
    <2>1. CASE Feed!Skip
      <3>1. OnTheirWay' = OnTheirWay
        BY <2>1 DEF OnTheirWay, Feed!Skip
      <3>. QED BY <3>1 DEF FeedInv
    <2>2. CASE Feed!Restart
      <3>1. OnTheirWay' = [w \in Workers |-> {}]
        BY <2>2 DEF OnTheirWay, Feed!Restart
      <3>. QED BY <3>1
    <2>3. CASE \E w \in Workers : Feed!Accept(w)
      <3>1. PICK c \in Workers : /\ heard' \in Nat /\ heard' > heard
                                 /\ OnTheirWay' = [OnTheirWay EXCEPT ![c] = @ \cup {heard'}]
        BY <2>3 DEF OnTheirWay, Feed!Accept
      <3>. QED BY <3>1 DEF FeedInv
    <2>. QED BY <2>1, <2>2, <2>3
  <1>3. Feed!PendingIsNewer'
    <2>. SUFFICES ASSUME NEW w \in Workers, NEW e \in OnTheirWay'[w]
                  PROVE  taken[w] < e /\ e <= heard'
      BY <1>1, FeedNewer
    <2>1. taken[w] <= heard /\ taken[w] \in Nat /\ heard \in Nat
      BY DEF FeedInv
    <2>2. CASE e \in OnTheirWay[w]
      <3>1. e \in Nat /\ taken[w] < e /\ e <= heard
        BY <2>2, FeedNewer DEF FeedInv
      <3>. QED BY <3>1, <2>1, <1>1
    <2>3. CASE e = heard' /\ heard' > heard
      BY <2>1, <2>3, <1>1
    <2>. QED BY <2>2, <2>3, <1>2
  <1>. QED BY <1>1, <1>2, <1>3 DEF FeedInv

\* The oldest of the events is taken, so that the others are newer than it.
LEMMA FeedTake ==
  ASSUME FeedInv, NEW c \in Workers, Feed!Take(c)
  PROVE  FeedInv'
  <1>1. PICK e \in OnTheirWay[c] :
          /\ \A other \in OnTheirWay[c] : e <= other
          /\ OnTheirWay' = [OnTheirWay EXCEPT ![c] = @ \ {e}]
          /\ taken' = [taken EXCEPT ![c] = e]
    BY DEF Feed!Take, OnTheirWay
  <1>2. e \in Nat /\ e <= heard /\ heard' = heard
    BY <1>1, FeedNewer DEF FeedInv, Feed!Take
  <1>3. /\ OnTheirWay' \in [Workers -> SUBSET Nat]
        /\ taken' \in [Workers -> Nat]
        /\ \A w \in Workers : taken'[w] <= heard'
    BY <1>1, <1>2 DEF FeedInv
  <1>4. Feed!PendingIsNewer'
    <2>. SUFFICES ASSUME NEW w \in Workers, NEW x \in OnTheirWay'[w]
                  PROVE  taken'[w] < x /\ x <= heard
      BY <1>2, FeedNewer
    <2>1. x \in OnTheirWay[w] /\ x \in Nat /\ x <= heard /\ taken[w] < x
      BY <1>1, FeedNewer DEF FeedInv
    <2>2. CASE w = c
      BY <1>1, <1>2, <2>1, <2>2 DEF FeedInv
    <2>3. CASE w # c
      BY <1>1, <2>1, <2>3 DEF FeedInv
    <2>. QED BY <2>2, <2>3
  <1>. QED BY <1>2, <1>3, <1>4 DEF FeedInv

LEMMA FeedLoses ==
  ASSUME FeedInv, NEW c \in Workers, Feed!Lose(c)
  PROVE  FeedInv'
  <1>1. PICK e \in OnTheirWay[c] : OnTheirWay' = [OnTheirWay EXCEPT ![c] = @ \ {e}]
    BY DEF Feed!Lose, OnTheirWay
  <1>2. heard' = heard /\ taken' = taken
    BY DEF Feed!Lose
  <1>3. /\ OnTheirWay' \in [Workers -> SUBSET Nat]
        /\ \A w \in Workers : OnTheirWay'[w] \subseteq OnTheirWay[w]
    BY <1>1 DEF FeedInv
  <1>4. \A w \in Workers : \A x \in OnTheirWay'[w] : taken'[w] < x /\ x <= heard'
    BY <1>2, <1>3, FeedNewer DEF FeedInv
  <1>5. Feed!PendingIsNewer'
    BY <1>4, FeedNewer
  <1>. QED BY <1>2, <1>3, <1>5 DEF FeedInv

\* No consumer of the feed takes an event twice or after a newer one, whatever is
\* lost on the way.
THEOREM FeedInOrder == Feed!Spec => []Feed!PendingIsNewer
  <1>1. FeedInv /\ [Feed!Next]_(Feed!vars) => FeedInv'
    <2>. SUFFICES ASSUME FeedInv, [Feed!Next]_(Feed!vars) PROVE FeedInv'
      OBVIOUS
    <2>1. CASE UNCHANGED Feed!vars
      <3>1. heard' = heard /\ taken' = taken /\ OnTheirWay' = OnTheirWay
        BY <2>1 DEF Feed!vars, OnTheirWay
      <3>2. Feed!PendingIsNewer' <=> Feed!PendingIsNewer
        BY <3>1, FeedNewer
      <3>. QED BY <3>1, <3>2 DEF FeedInv
    <2>2. CASE Feed!Next
      BY <2>2, FeedRead, FeedTake, FeedLoses DEF Feed!Next
    <2>. QED BY <2>1, <2>2
  <1>2. FeedInv => Feed!PendingIsNewer
    BY DEF FeedInv
  <1>. QED BY FeedInit, <1>1, <1>2, PTL DEF Feed!Spec

\* No worker takes an event twice, or after a newer one: what is in flight to it
\* is newer than what it took last.
THEOREM TakenInOrder == Spec => []Feed!PendingIsNewer
  BY FeedCorrect, FeedInOrder, PTL DEF FeedImplemented

-----------------------------------------------------------------------------
(* The counters.                                                           *)

Lengths(ss) == [w \in Workers |-> Len(ss[w].queue) + Len(ss[w].backlog)]

LEMMA LengthsAre ==
  ASSUME NEW ss, \A w \in Workers : ss[w] \in Shards
  PROVE  /\ \A w \in Workers : Lengths(ss)[w] = Len(Path(ss[w])) /\ Lengths(ss)[w] \in Nat
         /\ Total(Lengths(ss), Workers) \in Nat
  <1>1. ASSUME NEW w \in Workers
        PROVE  Lengths(ss)[w] = Len(Path(ss[w])) /\ Lengths(ss)[w] \in Nat
    <2>1. ss[w].queue \in Seq(Blocks) /\ ss[w].backlog \in Seq(Blocks)
      BY DEF Shards
    <2>2. Len(Path(ss[w])) = Len(ss[w].queue) + Len(ss[w].backlog)
      BY <2>1, ConcatProperties DEF Path
    <2>3. Len(ss[w].queue) \in Nat /\ Len(ss[w].backlog) \in Nat
      BY <2>1
    <2>4. Lengths(ss)[w] = Len(ss[w].queue) + Len(ss[w].backlog)
      BY DEF Lengths
    <2>5. \A a, b \in Nat : a + b \in Nat
      OBVIOUS
    <2>6. Len(ss[w].queue) + Len(ss[w].backlog) \in Nat
      BY <2>3, <2>5, Zenon
    <2>. QED BY <2>2, <2>4, <2>6
  <1>2. Total(Lengths(ss), Workers) \in Nat
    BY <1>1, PipelineAssumption, TotalType DEF PipelineAssumption
  <1>. QED BY <1>1, <1>2

\* What leaves the path of every shard as it is changes no total, and what changes
\* the path of one changes it as much as that path.
LEMMA LengthsKept ==
  ASSUME NEW ss, NEW tt, \A w \in Workers : ss[w] \in Shards /\ tt[w] \in Shards,
         \A w \in Workers : Path(tt[w]) = Path(ss[w])
  PROVE  Total(Lengths(tt), Workers) = Total(Lengths(ss), Workers)
  <1>1. \A w \in Workers : Lengths(ss)[w] \in Nat /\ Lengths(tt)[w] = Lengths(ss)[w]
    BY LengthsAre
  <1>. QED BY <1>1, PipelineAssumption, TotalSame DEF PipelineAssumption

LEMMA LengthsMoved ==
  ASSUME NEW ss, NEW tt, \A w \in Workers : ss[w] \in Shards /\ tt[w] \in Shards,
         NEW v \in Workers, \A w \in Workers \ {v} : Path(tt[w]) = Path(ss[w])
  PROVE  Total(Lengths(tt), Workers) + Len(Path(ss[v]))
           = Total(Lengths(ss), Workers) + Len(Path(tt[v]))
  <1>1. /\ \A w \in Workers : Lengths(ss)[w] \in Nat /\ Lengths(tt)[w] \in Nat
        /\ \A w \in Workers \ {v} : Lengths(tt)[w] = Lengths(ss)[w]
        /\ Lengths(ss)[v] = Len(Path(ss[v])) /\ Lengths(tt)[v] = Len(Path(tt[v]))
    BY LengthsAre
  <1>2. Total(Lengths(tt), Workers) + Lengths(ss)[v] = Total(Lengths(ss), Workers) + Lengths(tt)[v]
    <2>. DEFINE f == Lengths(ss)  k == Lengths(tt)
    <2>1. /\ \A w \in Workers : f[w] \in Nat /\ k[w] \in Nat
          /\ \A w \in Workers \ {v} : k[w] = f[w]
          /\ IsFiniteSet(Workers)
      BY <1>1, PipelineAssumption DEF PipelineAssumption
    <2>. HIDE DEF f, k
    <2>2. Total(k, Workers) + f[v] = Total(f, Workers) + k[v]
      BY <2>1, TotalChange
    <2>. QED BY <2>2 DEF f, k
  <1>. QED BY <1>1, <1>2

LEMMA SizeOfOne == ASSUME NEW e PROVE Cardinality({e} \ {NoEvent}) = (IF e = NoEvent THEN 0 ELSE 1)
  <1>1. CASE e = NoEvent
    <2>1. {e} \ {NoEvent} = {}
      BY <1>1
    <2>. QED BY <1>1, <2>1, FS_EmptySet
  <1>2. CASE e # NoEvent
    <2>1. {e} \ {NoEvent} = {e}
      BY <1>2
    <2>. QED BY <1>2, <2>1, FS_Singleton
  <1>. QED BY <1>1, <1>2

\* The numbers that the counters are compared with.
Queues(ing, car, ev, ss) ==
  Len(ing) + (IF car = NoEvent THEN 0 ELSE 1) + Len(ev) + Total(Lengths(ss), Workers)

Balanced(m, queued) ==
  /\ m.messages = m.published + m.dropped
  /\ m.published = queued + m.processed + m.queueDropped
Accounts(m, ing, car, ev, ss) == Balanced(m, Queues(ing, car, ev, ss))

\* What each step does to the counters and to the number of events in the queues.
LEMMA BalanceKept ==
  ASSUME NEW m \in Metrics, NEW q \in Nat, Balanced(m, q)
  PROVE  /\ Balanced([m EXCEPT !.messages = @ + 1, !.published = @ + 1], q + 1)
         /\ Balanced([m EXCEPT !.messages = @ + 1, !.dropped = @ + 1], q)
         /\ q > 0 => /\ Balanced([m EXCEPT !.processed = @ + 1], q - 1)
                      /\ Balanced(Counted(m), q - 1)
  <1>1. /\ m.messages \in Nat /\ m.published \in Nat /\ m.dropped \in Nat
        /\ m.processed \in Nat /\ m.queueDropped \in Nat
        /\ m.messages = m.published + m.dropped
        /\ m.published = q + m.processed + m.queueDropped
    BY DEF Metrics, Balanced
  <1>2. Balanced([m EXCEPT !.messages = @ + 1, !.published = @ + 1], q + 1)
    BY <1>1 DEF Metrics, Balanced
  <1>3. Balanced([m EXCEPT !.messages = @ + 1, !.dropped = @ + 1], q)
    BY <1>1 DEF Metrics, Balanced
  <1>4. q > 0 => Balanced([m EXCEPT !.processed = @ + 1], q - 1)
    BY <1>1 DEF Metrics, Balanced
  <1>5. q > 0 => Balanced(Counted(m), q - 1)
    BY <1>1 DEF Metrics, Balanced, Counted
  <1>. QED BY <1>2, <1>3, <1>4, <1>5

LEMMA AccountsIs ==
  /\ MetricsAccountForEvents <=> Accounts(metrics, ingress, carried, events, shard)
  /\ MetricsAccountForEvents' <=> Accounts(metrics', ingress', carried', events', shard')
  <1>1. Waiting = Lengths(shard) /\ Waiting' = Lengths(shard')
    BY DEF Waiting, Lengths
  <1>2. /\ Cardinality(Carried) = (IF carried = NoEvent THEN 0 ELSE 1)
        /\ Cardinality(Carried') = (IF carried' = NoEvent THEN 0 ELSE 1)
    BY SizeOfOne DEF Carried
  <1>. QED BY <1>1, <1>2 DEF MetricsAccountForEvents, Accounts, Balanced, Queues

LEMMA ShardsTyped ==
  ASSUME PipeInv PROVE \A w \in Workers : shard[w] \in Shards /\ Fits(shard[w])
  BY DEF PipeInv, Fits

\* The counters are numbers, and so is what they are compared with.
LEMMA CountersTyped ==
  ASSUME PipeInv
  PROVE  /\ metrics \in Metrics /\ metrics.published \in Nat /\ metrics.processed \in Nat
         /\ metrics.messages \in Nat /\ metrics.dropped \in Nat /\ metrics.queueDropped \in Nat
         /\ Len(ingress) \in Nat /\ Len(events) \in Nat /\ Total(Lengths(shard), Workers) \in Nat
  <1>1. \A w \in Workers : shard[w] \in Shards /\ Fits(shard[w])
    BY ShardsTyped
  <1>2. metrics \in Metrics
    BY DEF PipeInv, TypeOK
  <1>. QED BY <1>1, <1>2, InvTyped, LengthsAre DEF Metrics

LEMMA HearCounts ==
  ASSUME PipeInv, MetricsAccountForEvents, Hear PROVE MetricsAccountForEvents'
  <1>. DEFINE m == metrics
  <1>1. UNCHANGED <<carried, events, shard>>
    BY DEF Hear
  <1>2. Accounts(m, ingress, carried, events, shard) /\ m \in Metrics
    BY AccountsIs, CountersTyped
  <1>3. CASE /\ ingress' = Append(ingress, heard + 1)
             /\ metrics' = [m EXCEPT !.messages = @ + 1, !.published = @ + 1]
    <2>1. Len(ingress') = Len(ingress) + 1
      <3>1. heard + 1 \in Blocks /\ ingress \in Seq(Blocks)
        BY InvTyped DEF Blocks
      <3>. QED BY <1>3, <3>1
    <2>2. Queues(ingress', carried', events', shard') = Queues(ingress, carried, events, shard) + 1
      BY SMTT(30), <1>1, <2>1, CountersTyped DEF Queues
    <2>3. Queues(ingress, carried, events, shard) \in Nat
      BY CountersTyped DEF Queues
    <2>4. Accounts(metrics', ingress', carried', events', shard')
      BY <1>2, <1>3, <2>2, <2>3, BalanceKept DEF Accounts
    <2>. QED BY <2>4, AccountsIs
  <1>4. CASE UNCHANGED ingress /\ metrics' = [m EXCEPT !.messages = @ + 1, !.dropped = @ + 1]
    <2>1. Queues(ingress, carried, events, shard) \in Nat
      BY CountersTyped DEF Queues
    <2>2. Accounts(metrics', ingress', carried', events', shard')
      BY <1>1, <1>2, <1>4, <2>1, BalanceKept DEF Accounts
    <2>. QED BY <2>2, AccountsIs
  <1>. QED BY <1>3, <1>4 DEF Hear, PublishEvent

\* An event that moves on is counted at its new place.
LEMMA MoveCounts ==
  ASSUME PipeInv, MetricsAccountForEvents, Carry \/ Deliver \/ Drain PROVE MetricsAccountForEvents'
  <1>1. Accounts(metrics, ingress, carried, events, shard) /\ UNCHANGED metrics
    BY AccountsIs DEF Carry, Deliver, Drain
  <1>2. Queues(ingress', carried', events', shard') = Queues(ingress, carried, events, shard)
    <2>1. CASE Carry
      <3>1. /\ carried = NoEvent /\ ingress # <<>> /\ ingress' = Tail(ingress)
            /\ carried' = Head(ingress) /\ UNCHANGED <<events, shard>>
        BY <2>1 DEF Carry
      <3>2. Len(ingress') = Len(ingress) - 1 /\ carried' # NoEvent
        <4>1. Head(ingress) \in Blocks /\ ingress \in Seq(Blocks)
          BY <3>1, InvTyped
        <4>. QED BY <3>1, <4>1, HeadTailProperties DEF Blocks, NoEvent
      <3>. QED BY <3>1, <3>2, CountersTyped DEF Queues
    <2>2. CASE Deliver
      <3>1. /\ carried # NoEvent /\ events' = Append(events, carried) /\ carried' = NoEvent
            /\ UNCHANGED <<ingress, shard>>
        BY <2>2 DEF Deliver
      <3>2. Len(events') = Len(events) + 1
        <4>1. events \in Seq(Blocks) /\ carried \in Blocks
          BY <3>1, InvTyped DEF Carried
        <4>. QED BY <3>1, <4>1
      <3>. QED BY <3>1, <3>2, CountersTyped DEF Queues
    <2>3. CASE Drain
      <3>1. shard' = DrainedAll(shard) /\ UNCHANGED <<ingress, carried, events>>
        BY <2>3 DEF Drain
      <3>2. \A w \in Workers : shard'[w] \in Shards /\ Path(shard'[w]) = Path(shard[w])
        <4>1. \A w \in Workers : Fits(shard'[w]) /\ Path(shard'[w]) = Path(shard[w])
          BY <3>1, PathDrained DEF DrainedAll, PipeInv
        <4>. QED BY <4>1 DEF Fits
      <3>3. Total(Lengths(shard'), Workers) = Total(Lengths(shard), Workers)
        BY <3>2, ShardsTyped, LengthsKept
      <3>. QED BY <3>1, <3>3 DEF Queues
    <2>. QED BY <2>1, <2>2, <2>3
  <1>3. Accounts(metrics', ingress', carried', events', shard')
    BY <1>1, <1>2 DEF Accounts
  <1>. QED BY <1>3, AccountsIs

\* The first event of the channel waits in a shard, or is counted as dropped.
LEMMA ReceiveCounts ==
  ASSUME PipeInv, MetricsAccountForEvents, Receive PROVE MetricsAccountForEvents'
  <1>. DEFINE e == Head(events)  w == WorkerOf(e)  m == metrics
  <1>1. events # <<>> /\ events' = Tail(events) /\ UNCHANGED <<ingress, carried>>
    BY DEF Receive
  <1>2. /\ e \in Blocks /\ e \in Elements(events) /\ events \in Seq(Blocks)
        /\ Len(events') = Len(events) - 1
    <2>1. events \in Seq(Blocks) /\ Ascending(events)
      BY InvTyped DEF PipeInv, Upstream
    <2>. QED BY <1>1, <2>1, TailElements, HeadTailProperties
  <1>3. w \in Workers
    <2>1. e \in 1 .. Len(chain)
      BY <1>2, InvTyped DEF PipeInv, Upstream, Blocks, OnWay
    <2>. HIDE DEF e
    <2>. QED BY SMTT(30), <2>1, InvTyped, PipelineAssumption DEF WorkerOf, PipelineAssumption
  <1>4. Accounts(m, ingress, carried, events, shard) /\ m \in Metrics
    BY AccountsIs, CountersTyped
  <1>5. CASE shard' = DrainedAll([shard EXCEPT ![w] = Enqueued(@, e)]) /\ UNCHANGED metrics
    <2>. HIDE DEF e, w
    <2>1. ASSUME NEW v \in Workers
          PROVE  /\ shard'[v] \in Shards
                 /\ Path(shard'[v]) = IF v = w THEN Append(Path(shard[w]), e) ELSE Path(shard[v])
      <3>. DEFINE s == IF v = w THEN Enqueued(shard[w], e) ELSE shard[v]
      <3>1. shard'[v] = Drained(s)
        BY <1>3, <1>5 DEF DrainedAll, PipeInv, TypeOK
      <3>2. Fits(s) /\ Path(s) = IF v = w THEN Append(Path(shard[w]), e) ELSE Path(shard[v])
        BY <1>2, PathEnqueued DEF PipeInv
      <3>. HIDE DEF s
      <3>3. Fits(Drained(s)) /\ Path(Drained(s)) = Path(s)
        BY <3>2, PathDrained
      <3>. QED BY <3>1, <3>2, <3>3 DEF Fits
    <2>2. Len(Path(shard'[w])) = Len(Path(shard[w])) + 1 /\ Len(Path(shard[w])) \in Nat
      <3>. DEFINE p == Path(shard[w])
      <3>1. p \in Seq(Blocks) /\ Path(shard'[w]) = Append(p, e)
        BY <1>3, <2>1, InvTyped
      <3>. HIDE DEF p
      <3>2. Len(Append(p, e)) = Len(p) + 1 /\ Len(p) \in Nat
        BY <1>2, <3>1
      <3>. QED BY <3>1, <3>2 DEF p
    <2>3. Total(Lengths(shard'), Workers) + Len(Path(shard[w]))
            = Total(Lengths(shard), Workers) + Len(Path(shard'[w]))
      BY <1>3, <2>1, ShardsTyped, LengthsMoved
    <2>4. Total(Lengths(shard'), Workers) \in Nat
      BY <2>1, LengthsAre
    <2>5. Total(Lengths(shard'), Workers) = Total(Lengths(shard), Workers) + 1
      BY <2>2, <2>3, <2>4, CountersTyped
    <2>6. Queues(ingress', carried', events', shard') = Queues(ingress, carried, events, shard)
      <3>. DEFINE i == Len(ingress)  o == IF carried = NoEvent THEN 0 ELSE 1
                  l == Len(events)  n == Total(Lengths(shard), Workers)
      <3>1. i \in Nat /\ o \in Nat /\ l \in Nat /\ n \in Nat
        BY CountersTyped
      <3>2. /\ Queues(ingress, carried, events, shard) = i + o + l + n
            /\ Queues(ingress', carried', events', shard') = i + o + (l - 1) + (n + 1)
        BY <1>1, <1>2, <2>5 DEF Queues
      <3>. HIDE DEF i, o, l, n
      <3>. QED BY <3>1, <3>2
    <2>7. Accounts(metrics', ingress', carried', events', shard')
      BY <1>4, <1>5, <2>6 DEF Accounts
    <2>. QED BY <2>7, AccountsIs
  <1>6. CASE shard' = DrainedAll(shard) /\ metrics' = Counted(m)
    <2>1. \A v \in Workers : shard'[v] \in Shards /\ Path(shard'[v]) = Path(shard[v])
      <3>1. \A v \in Workers : Fits(shard'[v]) /\ Path(shard'[v]) = Path(shard[v])
        BY <1>6, PathDrained DEF DrainedAll, PipeInv
      <3>. QED BY <3>1 DEF Fits
    <2>2. Total(Lengths(shard'), Workers) = Total(Lengths(shard), Workers)
      BY <2>1, ShardsTyped, LengthsKept
    <2>3. /\ Queues(ingress', carried', events', shard') = Queues(ingress, carried, events, shard) - 1
          /\ Queues(ingress, carried, events, shard) \in Nat
          /\ Queues(ingress, carried, events, shard) > 0
      <3>1. Len(events) > 0
        BY <1>2, <1>1
      <3>. QED BY SMTT(30), <1>1, <1>2, <2>2, <3>1, CountersTyped DEF Queues
    <2>4. Accounts(metrics', ingress', carried', events', shard')
      BY <1>4, <1>6, <2>3, BalanceKept DEF Accounts
    <2>. QED BY <2>4, AccountsIs
  <1>. QED BY <1>5, <1>6 DEF Receive

LEMMA TakeCounts ==
  ASSUME PipeInv, MetricsAccountForEvents, NEW w \in Workers, Take(w) PROVE MetricsAccountForEvents'
  <1>. DEFINE m == metrics
  <1>1. /\ shard[w].queue # <<>> /\ shard' = [shard EXCEPT ![w].queue = Tail(@)]
        /\ metrics' = [m EXCEPT !.processed = @ + 1]
        /\ UNCHANGED <<ingress, carried, events>>
    BY DEF Take
  <1>2. Accounts(m, ingress, carried, events, shard) /\ m \in Metrics
    BY AccountsIs, CountersTyped
  <1>3. /\ shard'[w] = [shard[w] EXCEPT !.queue = Tail(@)]
        /\ \A v \in Workers \ {w} : shard'[v] = shard[v]
    BY <1>1 DEF PipeInv, TypeOK
  <1>4. Fits(shard'[w]) /\ Path(shard'[w]) = Tail(Path(shard[w])) /\ Path(shard[w]) # <<>>
    BY <1>1, <1>3, PathTaken DEF PipeInv
  <1>5. \A v \in Workers : shard'[v] \in Shards
    <2>1. shard'[w] \in Shards
      BY <1>4 DEF Fits
    <2>. QED BY <1>3, <2>1, ShardsTyped
  <1>6. Len(Path(shard'[w])) = Len(Path(shard[w])) - 1 /\ Len(Path(shard[w])) \in Nat
    <2>1. Path(shard[w]) \in Seq(Blocks)
      BY InvTyped
    <2>. QED BY <1>4, <2>1, HeadTailProperties
  <1>7. Total(Lengths(shard'), Workers) + Len(Path(shard[w]))
          = Total(Lengths(shard), Workers) + Len(Path(shard'[w]))
    BY <1>3, <1>5, ShardsTyped, LengthsMoved
  <1>8. Total(Lengths(shard'), Workers) \in Nat
    BY <1>5, LengthsAre
  <1>9. Total(Lengths(shard'), Workers) + 1 = Total(Lengths(shard), Workers)
    BY <1>6, <1>7, <1>8, CountersTyped
  <1>10. /\ Queues(ingress', carried', events', shard') = Queues(ingress, carried, events, shard) - 1
         /\ Queues(ingress, carried, events, shard) \in Nat
         /\ Queues(ingress, carried, events, shard) > 0
    <2>. DEFINE i == Len(ingress)  o == IF carried = NoEvent THEN 0 ELSE 1
                l == Len(events)  n == Total(Lengths(shard'), Workers)
    <2>1. i \in Nat /\ o \in Nat /\ l \in Nat /\ n \in Nat
      BY <1>8, CountersTyped
    <2>2. /\ Queues(ingress, carried, events, shard) = i + o + l + (n + 1)
          /\ Queues(ingress', carried', events', shard') = i + o + l + n
      BY <1>1, <1>9 DEF Queues
    <2>. HIDE DEF i, o, l, n
    <2>. QED BY <2>1, <2>2
  <1>11. Accounts(metrics', ingress', carried', events', shard')
    BY <1>1, <1>2, <1>10, BalanceKept DEF Accounts
  <1>. QED BY <1>11, AccountsIs

LEMMA EmptyCounts ==
  ASSUME NEW ss, ss = [w \in Workers |-> [queue |-> <<>>, backlog |-> <<>>]]
  PROVE  Accounts(NoMetrics, <<>>, NoEvent, <<>>, ss)
  <1>1. \A w \in Workers : Lengths(ss)[w] = 0
    BY DEF Lengths
  <1>2. Total(Lengths(ss), Workers) = 0
    BY <1>1, PipelineAssumption, TotalZero DEF PipelineAssumption
  <1>. QED BY <1>2 DEF Accounts, Balanced, Queues, NoMetrics

\* The counters of /health miss no event, for any pools, shards and buffers: what
\* was read is in a queue, was taken by a worker, or is counted as dropped.
THEOREM MetricsAlwaysAccount == Spec => []MetricsAccountForEvents
  <1>1. Init => PipeInv /\ MetricsAccountForEvents
    BY PipeInit, EmptyCounts, AccountsIs DEF Init
  <1>2. PipeInv /\ MetricsAccountForEvents /\ [Next]_vars => PipeInv' /\ MetricsAccountForEvents'
    <2>. SUFFICES ASSUME PipeInv, MetricsAccountForEvents, [Next]_vars
                  PROVE  PipeInv' /\ MetricsAccountForEvents'
      OBVIOUS
    <2>1. CASE UNCHANGED <<ingress, carried, events, shard, metrics>>
      BY <2>1, PipeStep, AccountsIs
    <2>2. CASE Restart
      BY <2>2, PipeStep, EmptyCounts, AccountsIs DEF Restart
    <2>3. CASE \/ Block \/ Disconnect \/ Bridge \/ PollerNext \/ UNCHANGED vars
               \/ \E w \in Workers : Finish(w)
      <3>1. UNCHANGED <<ingress, carried, events, shard, metrics>>
        BY <2>3 DEF Block, Disconnect, Bridge, PollerNext, PollStart, PollEvent, PollEnd, Finish,
                    vars, path
      <3>. QED BY <2>1, <3>1
    <2>. QED BY <2>2, <2>3, PipeStep, HearCounts, MoveCounts, ReceiveCounts, TakeCounts
         DEF Next, PathNext
  <1>. QED BY <1>1, <1>2, PTL DEF Spec
=============================================================================
