--------------------------- MODULE MCMessageQueue ---------------------------
(***************************************************************************)
(* A small instance of MessageQueue, and one of QueueLoad: a behaviour is  *)
(* one of the former, whose producers have a bounded number of messages to *)
(* offer, or one of the latter, whose producers never run out.             *)
(***************************************************************************)
EXTENDS MessageQueue

CONSTANTS p1, p2, p3

\* Two producers are enough to race between the check and the insertion.
TwoProducers == {p1, p2}
\* Two that keep coming and one that waits.
ThreeProducers == {p1, p2, p3}

VARIABLES
    endless,         \* do the calls never run out?
    load, at, batch  \* the load, pc and count of QueueLoad

loadVars == <<load, at, batch>>

L == INSTANCE QueueLoad WITH
    Producers <- ThreeProducers, DequeueMax <- BulkMax, pc <- at, count <- batch

MCInit ==
    /\ Init /\ L!Init
    /\ endless \in BOOLEAN
    /\ endless => strategy = "THROTTLE"

MCNext ==
    \/ ~endless /\ Next /\ UNCHANGED <<endless, load, at, batch>>
    \/ endless /\ L!Next /\ UNCHANGED <<endless, vars>>

MCSpec == MCInit /\ [][MCNext]_<<endless, vars, loadVars>> /\ L!Fairness

\* QueueLoad's promise to a producer in the throttle loop (MessageQueue.h:66).
GetsInOrIsOvertaken == L!GetsInOrIsOvertaken
=============================================================================
