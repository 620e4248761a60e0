---------------------------- MODULE MessageQueue ----------------------------
(***************************************************************************)
(* MessageQueue<T> (src/src/MessageQueue.h): the bounded queue between any *)
(* two stages of the pipeline.  It wraps moodycamel::ConcurrentQueue and   *)
(* bounds it by a check of size_approx() BEFORE, and not atomically with,  *)
(* the insertion, so producers that passed the check together overshoot    *)
(* the limit.  enqueue() is enqueue_bulk() with a batch of one.            *)
(*                                                                         *)
(* A message is a pair <<p, i>>: the i-th message offered by producer p.   *)
(* The queue is a set of messages; the library keeps the order of each     *)
(* producer only, which try_dequeue_bulk below respects.                   *)
(***************************************************************************)
EXTENDS Integers, FiniteSets

CONSTANTS
    Producers,     \* threads that call enqueue / enqueue_bulk
    MaxQueueSize,  \* m_max_queue_size
    BulkMax,       \* largest batch of one call (max_queue_bulk_size)
    DequeueMax,    \* the `max` argument of try_dequeue_bulk
    Skew,          \* how far size_approx() may be off while others move messages
    OfferBound     \* bound: messages a producer offers in a behaviour

ASSUME ProducersAssumption == IsFiniteSet(Producers) /\ Producers # {}
ASSUME SizeAssumption ==
    /\ MaxQueueSize \in Nat \ {0}
    /\ BulkMax \in Nat \ {0}
    /\ DequeueMax \in Nat \ {0}
    /\ Skew \in Nat
    /\ OfferBound \in Nat

\* QueueOverflowStrategy::Type.
OverflowStrategy == {"UNDEFINED", "THROTTLE", "DROP"}

VARIABLES
    strategy,   \* m_overflow_strategy, set by the constructor
    queue,      \* m_messageQueuePtr: the messages inside
    pc,         \* where each producer is: outside, in the throttle loop, or
                \* between the size check and the insertion
    count,      \* size of the batch in the producer's current call
    offered,    \* messages of finished calls, per producer
    dropped,    \* m_dropped
    throttled,  \* m_throttled
    refused,    \* history: messages enqueue_bulk returned false for
    taken       \* history: messages some consumer dequeued

vars == <<strategy, queue, pc, count, offered, dropped, throttled, refused, taken>>

Items == Producers \X (1..OfferBound)

\* As Batch, one message short.
Batch_short(p, k) == {<<p, i>> : i \in (offered[p] + 1)..(offered[p] + k - 1)}

\* As Batch, one message too long.
Batch_long(p, k) == {<<p, i>> : i \in (offered[p] + 1)..(offered[p] + k + 1)}

\* The batch of k messages that p offers after its finished calls.
Batch(p, k) == {<<p, i>> : i \in (offered[p] + 1)..(offered[p] + k)}

TypeOK ==
    /\ strategy \in OverflowStrategy
    /\ queue \in SUBSET Items
    /\ pc \in [Producers -> {"idle", "throttle", "insert"}]
    /\ count \in [Producers -> 0..BulkMax]
    /\ offered \in [Producers -> 0..OfferBound]
    /\ dropped \in Nat
    /\ throttled \in Nat
    /\ refused \in SUBSET Items
    /\ taken \in SUBSET Items

Init ==
    /\ strategy \in OverflowStrategy
    /\ queue = {}
    /\ pc = [p \in Producers |-> "idle"]
    /\ count = [p \in Producers |-> 0]
    /\ offered = [p \in Producers |-> 0]
    /\ dropped = 0
    /\ throttled = 0
    /\ refused = {}
    /\ taken = {}

-----------------------------------------------------------------------------
\* size_approx(): an estimate of the length; exact when nobody else moves
\* messages, else off by what others moved while it summed up the producers.
size_approx ==
    LET n == Cardinality(queue)
    IN  (IF n < Skew THEN 0 ELSE n - Skew)..(n + Skew)

\* As SeesRoom, with > for >= in the size check.
SeesRoom_off_by_one == \E n \in size_approx : n <= MaxQueueSize

\* The two outcomes of the comparison with m_max_queue_size.
SeesRoom == \E n \in size_approx : n < MaxQueueSize
SeesFull == \E n \in size_approx : n >= MaxQueueSize

\* A producer outside the queue calls enqueue_bulk with k messages.
Calls(p, k) ==
    /\ pc[p] = "idle"
    /\ offered[p] + k <= OfferBound

\* The call of p with k messages returns false: they are gone.
ReturnsFalse(p, k) ==
    /\ refused' = refused \cup Batch(p, k)
    /\ offered' = [offered EXCEPT ![p] = @ + k]

\* The check finds room: go on to the insertion, which is a separate step.
enqueue_bulk_admit(p, k) ==
    /\ Calls(p, k)
    /\ SeesRoom
    /\ pc' = [pc EXCEPT ![p] = "insert"]
    /\ count' = [count EXCEPT ![p] = k]
    /\ UNCHANGED <<strategy, queue, offered, dropped, throttled, refused, taken>>

\* As enqueue_bulk_drop, counting calls instead of messages.
enqueue_bulk_drop_counts_calls(p, k) ==
    /\ strategy = "DROP"
    /\ Calls(p, k)
    /\ SeesFull
    /\ dropped' = dropped + 1
    /\ ReturnsFalse(p, k)
    /\ UNCHANGED <<strategy, queue, pc, count, throttled, taken>>

\* Full, DROP: count the batch as dropped and return false.
enqueue_bulk_drop(p, k) ==
    /\ strategy = "DROP"
    /\ Calls(p, k)
    /\ SeesFull
    /\ dropped' = dropped + k
    /\ ReturnsFalse(p, k)
    /\ UNCHANGED <<strategy, queue, pc, count, throttled, taken>>

\* Full, THROTTLE: count the batch as throttled and enter the wait loop.
enqueue_bulk_throttle(p, k) ==
    /\ strategy = "THROTTLE"
    /\ Calls(p, k)
    /\ SeesFull
    /\ throttled' = throttled + k
    /\ pc' = [pc EXCEPT ![p] = "throttle"]
    /\ count' = [count EXCEPT ![p] = k]
    /\ UNCHANGED <<strategy, queue, offered, dropped, refused, taken>>

\* Full, any other strategy: return false without counting.
enqueue_bulk_undefined(p, k) ==
    /\ strategy = "UNDEFINED"
    /\ Calls(p, k)
    /\ SeesFull
    /\ ReturnsFalse(p, k)
    /\ UNCHANGED <<strategy, queue, pc, count, dropped, throttled, taken>>

\* As throttle_poll, waiting once instead of until there is room.
throttle_poll_once(p) ==
    /\ pc[p] = "throttle"
    /\ pc' = [pc EXCEPT ![p] = "insert"]
    /\ UNCHANGED <<strategy, queue, count, offered, dropped, throttled, refused, taken>>

\* The wait loop looks again after throttle_interval and leaves when it sees
\* room (when it does not, nothing changes).
throttle_poll(p) ==
    /\ pc[p] = "throttle"
    /\ SeesRoom
    /\ pc' = [pc EXCEPT ![p] = "insert"]
    /\ UNCHANGED <<strategy, queue, count, offered, dropped, throttled, refused, taken>>

\* The batch goes into the library's queue, whatever its length is by now.
insert(p) ==
    /\ pc[p] = "insert"
    /\ queue' = queue \cup Batch(p, count[p])
    /\ offered' = [offered EXCEPT ![p] = @ + count[p]]
    /\ pc' = [pc EXCEPT ![p] = "idle"]
    /\ count' = [count EXCEPT ![p] = 0]
    /\ UNCHANGED <<strategy, dropped, throttled, refused, taken>>

\* What one try_dequeue_bulk may return: at most DequeueMax messages, for each
\* producer the oldest ones inside.
Dequeuable ==
    {S \in SUBSET queue :
        /\ S # {}
        /\ Cardinality(S) <= DequeueMax
        /\ \A m \in S, o \in queue : (o[1] = m[1] /\ o[2] < m[2]) => o \in S}

\* try_dequeue and try_dequeue_bulk (a bulk of one): some consumer takes S.
try_dequeue_bulk ==
    \E S \in Dequeuable :
        /\ queue' = queue \ S
        /\ taken' = taken \cup S
        /\ UNCHANGED <<strategy, pc, count, offered, dropped, throttled, refused>>

-----------------------------------------------------------------------------
Producer(p) ==
    \/ \E k \in 1..BulkMax :
        \/ enqueue_bulk_admit(p, k)
        \/ enqueue_bulk_drop(p, k)
        \/ enqueue_bulk_throttle(p, k)
        \/ enqueue_bulk_undefined(p, k)
    \/ throttle_poll(p)
    \/ insert(p)

Next ==
    \/ \E p \in Producers : Producer(p)
    \/ try_dequeue_bulk

Spec == Init /\ [][Next]_vars

-----------------------------------------------------------------------------
\* m_max_queue_size is a soft limit: each producer may add one whole batch to
\* a queue that looked one short of full.
SoftCap == MaxQueueSize - 1 + Skew + Cardinality(Producers) * BulkMax

\* The queue never grows beyond the soft limit, however many producers pass
\* the check of MessageQueue.h:58 before any of them reaches line 75.
OvershootBound == Cardinality(queue) <= SoftCap

\* Every message that a call gave up is accounted for: by m_dropped under
\* DROP; under THROTTLE none is given up and m_dropped stays 0.
LossAccounting ==
    CASE strategy = "DROP" -> dropped = Cardinality(refused)
      [] strategy = "THROTTLE" -> dropped = 0 /\ refused = {}
      [] OTHER -> dropped = 0

\* The messages of all finished calls.
Finished == {m \in Items : m[2] <= offered[m[1]]}

BB == INSTANCE BoundedBuffer WITH
          Capacity <- SoftCap, lossy <- (strategy # "THROTTLE"),
          seen <- Finished, buffer <- queue

\* The queue implements the bounded buffer: whatever the interleaving of
\* checks, waits, insertions and dequeues, every message offered is accepted
\* or refused as part of its batch, and handed out at most once.
ImplementsBoundedBuffer == BB!Spec

\* The messages of p inside.
Load(p) == Cardinality({m \in queue : m[1] = p})

QL == INSTANCE QueueLoad WITH load <- [p \in Producers |-> Load(p)]

\* Seen by a waiting producer, the queue is QueueLoad: an admission, a wait or
\* the end of one takes place only when QueueLoad allows it, and refusing a batch
\* is no step there.  What QueueLoad says of the throttle loop with calls that
\* never run out is about this queue.
ImplementsQueueLoad == QL!Spec
=============================================================================
