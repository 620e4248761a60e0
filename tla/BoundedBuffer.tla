---------------------------- MODULE BoundedBuffer ----------------------------
(***************************************************************************)
(* What the rest of the program relies on when it hands messages to a      *)
(* MessageQueue: every message is accepted once or refused once, what was  *)
(* accepted is handed out exactly once, the buffer never holds more than   *)
(* Capacity messages, and a buffer that is not lossy refuses nothing.      *)
(* No order, no threads, no counters.                                      *)
(***************************************************************************)
EXTENDS Integers, FiniteSets

CONSTANTS Items,     \* the messages that may ever be offered
          Capacity   \* the number of messages the buffer may hold

VARIABLES lossy,     \* may this buffer refuse a message?  Fixed from the start
          seen,      \* offered so far
          buffer,    \* accepted and not handed out yet
          taken,     \* handed out to a consumer
          refused    \* given up at the entrance

vars == <<lossy, seen, buffer, taken, refused>>

Init ==
    /\ lossy \in BOOLEAN
    /\ seen = {}
    /\ buffer = {}
    /\ taken = {}
    /\ refused = {}

\* A batch enters as a whole.
Put ==
    \E S \in SUBSET (Items \ seen) :
        /\ S # {}
        /\ seen' = seen \cup S
        /\ Cardinality(buffer \cup S) <= Capacity
        /\ buffer' = buffer \cup S
        /\ UNCHANGED <<lossy, taken, refused>>

\* A batch is given up as a whole.
Refuse ==
    /\ lossy
    /\ \E S \in SUBSET (Items \ seen) :
        /\ S # {}
        /\ seen' = seen \cup S
        /\ refused' = refused \cup S
        /\ UNCHANGED <<lossy, buffer, taken>>

\* A batch leaves.
Take ==
    \E S \in SUBSET buffer :
        /\ S # {}
        /\ buffer' = buffer \ S
        /\ taken' = taken \cup S
        /\ UNCHANGED <<lossy, seen, refused>>

Next == Put \/ Refuse \/ Take

Spec == Init /\ [][Next]_vars
=============================================================================
