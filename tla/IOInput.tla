------------------------------ MODULE IOInput -------------------------------
(***************************************************************************)
(* What the TCP, UDP and journal inputs share (inputs/IOInput.h): an       *)
(* io_service whose handlers run on the threads of the input.              *)
(***************************************************************************)
EXTENDS Integers, Sequences, SequencesExt, FiniteSets

CONSTANT Threads    \* io threads of the input

ASSUME ThreadsAssumption == IsFiniteSet(Threads)

VARIABLES
    alive,      \* the threads that are in run()
    stopped     \* m_io_service.stop() was called

ioVars == <<alive, stopped>>

IoTypeOK == alive \subseteq Threads /\ stopped \in BOOLEAN

startImpl == alive = Threads /\ stopped = FALSE

(* A handler can be started. *)
Runs(t) == t \in alive /\ ~stopped
Running == \E t \in Threads : Runs(t)

(* An exception no handler catches leaves run() and ends its thread; it is *)
(* caught there, logged, and the thread is not replaced.                   *)
ThreadEnds(t) == alive' = alive \ {t} /\ stopped' = stopped

(* A handler under way is finished, no other begins. *)
stopImpl == ~stopped /\ stopped' = TRUE /\ alive' = alive
=============================================================================
