------------------------------ MODULE QueueLoad ------------------------------
(***************************************************************************)
(* MessageQueue with THROTTLE (src/src/MessageQueue.h), seen by a producer *)
(* that waits: only how many messages of each producer are inside counts.  *)
(* Nothing runs out here: producers may call enqueue_bulk for ever, which  *)
(* is what a thread in the throttle loop has to live with, since it polls  *)
(* and has no place in a line.                                             *)
(***************************************************************************)
EXTENDS Integers, FiniteSets, FiniteSetsExt

CONSTANTS Producers, MaxQueueSize, BulkMax, DequeueMax, Skew  \* as in MessageQueue

VARIABLES
    load,   \* messages of each producer in m_messageQueuePtr
    pc,     \* where each producer is, as in MessageQueue
    count   \* size of the batch in its current call

vars == <<load, pc, count>>

Init ==
    /\ load = [p \in Producers |-> 0]
    /\ pc = [p \in Producers |-> "idle"]
    /\ count = [p \in Producers |-> 0]

-----------------------------------------------------------------------------
\* The messages inside.
Length == MapThenSumSet(LAMBDA p : load[p], Producers)

\* The outcomes of comparing size_approx(), off by Skew at most, with the limit.
SeesRoom == Length < MaxQueueSize + Skew
SeesFull == Length + Skew >= MaxQueueSize

\* The check of enqueue_bulk lets a batch of k through or makes it wait.
enqueue_bulk(p, k) ==
    /\ pc[p] = "idle"
    /\ \/ SeesRoom /\ pc' = [pc EXCEPT ![p] = "insert"]
       \/ SeesFull /\ pc' = [pc EXCEPT ![p] = "throttle"]
    /\ count' = [count EXCEPT ![p] = k]
    /\ UNCHANGED load

\* As throttle_poll, comparing the size read before the loop, again and again.
throttle_poll_stale(p) ==
    /\ pc[p] = "throttle"
    /\ UNCHANGED vars

\* The wait loop looks again and leaves when it sees room.
throttle_poll(p) ==
    /\ pc[p] = "throttle"
    /\ SeesRoom
    /\ pc' = [pc EXCEPT ![p] = "insert"]
    /\ UNCHANGED <<load, count>>

insert(p) ==
    /\ pc[p] = "insert"
    /\ load' = [load EXCEPT ![p] = @ + count[p]]
    /\ pc' = [pc EXCEPT ![p] = "idle"]
    /\ count' = [count EXCEPT ![p] = 0]

\* Some consumer takes up to DequeueMax messages, of whichever producers.
try_dequeue_bulk ==
    /\ \E rest \in [Producers -> 0..Length] :
        /\ \A p \in Producers : rest[p] <= load[p]
        /\ MapThenSumSet(LAMBDA p : load[p] - rest[p], Producers) \in 1..DequeueMax
        /\ load' = rest
    /\ UNCHANGED <<pc, count>>

-----------------------------------------------------------------------------
Next ==
    \/ \E p \in Producers :
        \/ \E k \in 1..BulkMax : enqueue_bulk(p, k)
        \/ throttle_poll(p)
        \/ insert(p)
    \/ try_dequeue_bulk

Spec == Init /\ [][Next]_vars

\* As in MessageQueue: a thread inside a call keeps running, the consumers keep
\* dequeuing, nobody has to call enqueue_bulk.
Fairness ==
    /\ \A p \in Producers : WF_vars(throttle_poll(p)) /\ WF_vars(insert(p))
    /\ WF_vars(try_dequeue_bulk)

FairSpec == Spec /\ Fairness

-----------------------------------------------------------------------------
\* While consumers keep dequeuing, a producer caught in the throttle loop of
\* MessageQueue.h:66 gets its batch in, or is overtaken for ever: others insert
\* again and again, each time in the room the consumers made since its last look.
\* It is never left there with nobody getting in.
GetsInOrIsOvertaken ==
    \A p \in Producers :
        \/ (pc[p] = "throttle") ~> (pc[p] = "idle")
        \/ []<><<\E q \in Producers \ {p} : insert(q)>>_vars
=============================================================================
