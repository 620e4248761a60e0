------------------------------ MODULE Pipeline ------------------------------
(***************************************************************************)
(* The running logger: every thread between a source and a destination,    *)
(* the queues between them, and the main thread that takes them down.      *)
(*                                                                         *)
(*   input threads -> queue of the input -> import threads (InputServer)   *)
(*     -> [processor queue -> processor threads] -> MainMessageQueue       *)
(*     -> export threads (OutputServer) -> queue of each output            *)
(*     -> output threads -> destination                                    *)
(*                                                                         *)
(* A task is a TaskInterface object with threads of its own; thread n of   *)
(* task x is <<x, n>>.  A queue has the name of the task that owns it.     *)
(* Entering a queue is enqueue_bulk of module MessageQueue (with an exact  *)
(* size): check, perhaps throttle or drop, insert; only the queue of an    *)
(* input can be configured to drop.  The model starts when every task is   *)
(* started (IQLogger::startImpl) and nothing has arrived.                  *)
(***************************************************************************)
EXTENDS Integers, Sequences, FiniteSets

CONSTANTS
    InputSeq,       \* m_inputs of InputServer, in order
    OutputSeq,      \* m_outputs of OutputServer, in order
    LogOutputs,     \* outputs of type log; the others are gelf tcp
    WithProcessor,  \* inputs that have a processor script
    ThreadNum,      \* threads of each task
    Msgs,           \* bound: the messages that may arrive
    SourceOf,       \* the input each message arrives at
    Malformed,      \* messages whose record cannot be exported (Exception)
    Filtered,       \* messages the script returns false for
    Unwritable,     \* per output: messages its Record<T> cannot be made from
    MaxQueueSize,   \* m_max_queue_size of every queue
    BulkMax,        \* max_queue_bulk_size
    InputStrategy,  \* overflow strategy of each input's queue
    MayStop         \* does a signal arrive in this behaviour?

Inputs == {InputSeq[k] : k \in DOMAIN InputSeq}
Outputs == {OutputSeq[k] : k \in DOMAIN OutputSeq}
Tasks == Inputs \cup Outputs \cup {"InputServer", "OutputServer", "ProcessorMachine"}
Queues == Inputs \cup Outputs \cup {"ProcessorMachine", "MainMessageQueue"}
ThreadsOf(x) == {x} \X (1..ThreadNum[x])
Threads == UNION {ThreadsOf(x) : x \in Tasks}

\* Every element of m_inputs and of m_outputs is an object of its own.
ASSUME NamesAssumption ==
    /\ InputSeq \in Seq(STRING) /\ InputSeq # << >>
    /\ OutputSeq \in Seq(STRING) /\ OutputSeq # << >>
    /\ \A j, k \in DOMAIN InputSeq : InputSeq[j] = InputSeq[k] => j = k
    /\ \A j, k \in DOMAIN OutputSeq : OutputSeq[j] = OutputSeq[k] => j = k
    /\ Inputs \cap Outputs = {}
    /\ (Inputs \cup Outputs) \cap {"InputServer", "OutputServer", "ProcessorMachine",
                                   "MainMessageQueue"} = {}
    /\ LogOutputs \subseteq Outputs
    /\ WithProcessor \subseteq Inputs
ASSUME MsgsAssumption ==
    /\ SourceOf \in [Msgs -> Inputs]
    /\ Malformed \subseteq Msgs
    /\ Filtered \subseteq Msgs
    /\ Unwritable \in [Outputs -> SUBSET Msgs]
ASSUME SizesAssumption ==
    /\ ThreadNum \in [Tasks -> Nat]
    /\ MaxQueueSize \in Nat \ {0}
    /\ BulkMax \in Nat \ {0}
    /\ InputStrategy \in [Inputs -> {"THROTTLE", "DROP"}]
    /\ MayStop \in BOOLEAN

VARIABLES
    queue,      \* the content of each queue
    pc,         \* each thread's place in its loop
    hand,       \* the batch a thread works on
    at,         \* position in m_inputs / m_outputs of an import / export thread
    started,    \* m_started of each task
    phase,      \* where the main thread is in IQLogger::stop
    step,       \* index of the input or output being stopped
    arrived,    \* history: messages an input thread has received
    delivered,  \* per output: messages written to the destination
    lost,       \* history, per output: messages given up on the way to it
    abandoned   \* history, per output: messages given up by a stopped flush

threadVars == <<pc, hand, at>>
mainVars == <<started, phase, step>>
fateVars == <<arrived, delivered, lost, abandoned>>
vars == <<queue, threadVars, mainVars, fateVars>>

Phases == {"run", "stop_inputs", "stop_input", "join_input", "join_import",
           "stop_outputs", "stop_output", "join_output", "join_export",
           "stop_processor", "join_processor", "done", "threw"}

\* As Rounds, the loop over the outputs ending one too early.
Rounds_short(t) ==
    CASE t[1] = "InputServer" -> Len(InputSeq)
      [] t[1] = "OutputServer" -> Len(OutputSeq) - 1
      [] OTHER -> 1

\* How many inputs / outputs one pass of t's loop visits.
Rounds(t) ==
    CASE t[1] = "InputServer" -> Len(InputSeq)
      [] t[1] = "OutputServer" -> Len(OutputSeq)
      [] OTHER -> 1

TypeOK ==
    /\ queue \in [Queues -> SUBSET Msgs]
    /\ pc \in [Threads -> {"loop", "push", "throttle", "insert", "send", "exited"}]
    /\ hand \in [Threads -> SUBSET Msgs]
    /\ at \in [Threads -> Nat] /\ \A t \in Threads : at[t] \in 1..Rounds(t)
    /\ started \in [Tasks -> BOOLEAN]
    /\ phase \in Phases
    /\ step \in 1..(Len(InputSeq) + Len(OutputSeq))
    /\ arrived \in SUBSET Msgs
    /\ delivered \in [Outputs -> SUBSET Msgs]
    /\ lost \in [Outputs -> SUBSET Msgs]
    /\ abandoned \in [Outputs -> SUBSET Msgs]

Init ==
    /\ queue = [q \in Queues |-> {}]
    /\ pc = [t \in Threads |-> "loop"]
    /\ hand = [t \in Threads |-> {}]
    /\ at = [t \in Threads |-> 1]
    /\ started = [x \in Tasks |-> TRUE]
    /\ phase = "run"
    /\ step = 1
    /\ arrived = {}
    /\ delivered = [o \in Outputs |-> {}]
    /\ lost = [o \in Outputs |-> {}]
    /\ abandoned = [o \in Outputs |-> {}]

-----------------------------------------------------------------------------
(* Queues *)

Full(q) == Cardinality(queue[q]) >= MaxQueueSize

\* Only the queue of an input can be configured; the others throttle.
DropsWhenFull(q) == q \in Inputs /\ InputStrategy[q] = "DROP"

\* What one try_dequeue_bulk of queue q may return.
Bulks(q) == {S \in SUBSET queue[q] : S # {} /\ Cardinality(S) <= BulkMax}

\* The queue thread t puts its batch into.
Target(t) ==
    CASE t[1] \in Inputs -> t[1]
      [] t[1] = "InputServer" ->
            IF InputSeq[at[t]] \in WithProcessor THEN "ProcessorMachine"
                                                 ELSE "MainMessageQueue"
      [] t[1] = "ProcessorMachine" -> "MainMessageQueue"
      [] OTHER -> OutputSeq[at[t]]

\* The threads that empty queue q.
Consumers(q) ==
    CASE q \in Inputs -> ThreadsOf("InputServer")
      [] q = "MainMessageQueue" -> ThreadsOf("OutputServer")
      [] OTHER -> ThreadsOf(q)

\* The part of t's batch that Target(t) takes: Output::importMessages leaves
\* out what it cannot make a record of.
Portion(t) ==
    IF t[1] = "OutputServer" THEN hand[t] \ Unwritable[OutputSeq[at[t]]] ELSE hand[t]

\* The input or output the loop turns to next.
NextAt(t) == IF at[t] < Rounds(t) THEN at[t] + 1 ELSE 1

\* As PushReturns, keeping the batch.
PushReturnsKept(t) ==
    LET more == t[1] = "OutputServer" /\ at[t] < Rounds(t)
    IN  /\ pc' = [pc EXCEPT ![t] = IF more THEN "push" ELSE "loop"]
        /\ hand' = hand
        /\ at' = [at EXCEPT ![t] = NextAt(t)]

\* The call that put t's batch away returns: an export thread goes on to the
\* next output with the same batch, the others are done with it.
PushReturns(t) ==
    LET more == t[1] = "OutputServer" /\ at[t] < Rounds(t)
    IN  /\ pc' = [pc EXCEPT ![t] = IF more THEN "push" ELSE "loop"]
        /\ hand' = [hand EXCEPT ![t] = IF more THEN @ ELSE {}]
        /\ at' = [at EXCEPT ![t] = NextAt(t)]

\* What the target gives up of t's batch when the call returns.
Leftover(t) ==
    IF t[1] = "OutputServer"
    THEN [lost EXCEPT ![OutputSeq[at[t]]] = @ \cup (hand[t] \ Portion(t))]
    ELSE lost

\* The messages S are given up before they are copied for the outputs.
GiveUp(S) == lost' = [o \in Outputs |-> lost[o] \cup S]

\* enqueue_bulk, size check: room.
Admit(t) ==
    /\ pc[t] = "push"
    /\ Portion(t) # {}
    /\ ~Full(Target(t))
    /\ pc' = [pc EXCEPT ![t] = "insert"]
    /\ UNCHANGED <<queue, hand, at, mainVars, fateVars>>

\* enqueue_bulk, size check: full, wait.  The loop looks at the size only, not
\* at isRunning().
Throttle(t) ==
    /\ pc[t] = "push"
    /\ Portion(t) # {}
    /\ Full(Target(t))
    /\ ~DropsWhenFull(Target(t))
    /\ pc' = [pc EXCEPT ![t] = "throttle"]
    /\ UNCHANGED <<queue, hand, at, mainVars, fateVars>>

\* enqueue_bulk, size check: full, the batch is dropped.
Drop(t) ==
    /\ pc[t] = "push"
    /\ Portion(t) # {}
    /\ Full(Target(t))
    /\ DropsWhenFull(Target(t))
    /\ GiveUp(hand[t])
    /\ PushReturns(t)
    /\ UNCHANGED <<queue, mainVars, arrived, delivered, abandoned>>

\* As Poll, giving up the wait when the thread's own task has been stopped.
PollUntilStopped(t) ==
    /\ pc[t] = "throttle"
    /\ ~Full(Target(t)) \/ ~started[t[1]]
    /\ pc' = [pc EXCEPT ![t] = "insert"]
    /\ UNCHANGED <<queue, hand, at, mainVars, fateVars>>

\* The throttle loop sees room.
Poll(t) ==
    /\ pc[t] = "throttle"
    /\ ~Full(Target(t))
    /\ pc' = [pc EXCEPT ![t] = "insert"]
    /\ UNCHANGED <<queue, hand, at, mainVars, fateVars>>

\* The batch goes in.
Insert(t) ==
    /\ pc[t] = "insert"
    /\ queue' = [queue EXCEPT ![Target(t)] = @ \cup Portion(t)]
    /\ lost' = Leftover(t)
    /\ PushReturns(t)
    /\ UNCHANGED <<mainVars, arrived, delivered, abandoned>>

\* Output::importMessages with nothing imported returns at once.
Skip(t) ==
    /\ pc[t] = "push"
    /\ Portion(t) = {}
    /\ lost' = Leftover(t)
    /\ PushReturns(t)
    /\ UNCHANGED <<queue, mainVars, arrived, delivered, abandoned>>

-----------------------------------------------------------------------------
(* Threads *)

\* An input thread receives a message and calls enqueue.
Receive(t, m) ==
    /\ pc[t] = "loop"
    /\ started[t[1]]
    /\ m \notin arrived
    /\ SourceOf[m] = t[1]
    /\ arrived' = arrived \cup {m}
    /\ hand' = [hand EXCEPT ![t] = {m}]
    /\ pc' = [pc EXCEPT ![t] = "push"]
    /\ UNCHANGED <<queue, at, mainVars, delivered, lost, abandoned>>

\* isRunning() is looked at once per pass over the inputs.
PassGoesOn(t) == at[t] > 1 \/ started["InputServer"]

\* As importMessages, one malformed record taking the whole batch with it.
importMessages_all_or_none(t) ==
    /\ t[1] = "InputServer"
    /\ pc[t] = "loop"
    /\ PassGoesOn(t)
    /\ \E S \in Bulks(InputSeq[at[t]]) :
        /\ queue' = [queue EXCEPT ![InputSeq[at[t]]] = @ \ S]
        /\ IF S \cap Malformed # {}
           THEN /\ GiveUp(S)
                /\ PushReturns(t)
           ELSE /\ GiveUp({})
                /\ hand' = [hand EXCEPT ![t] = S]
                /\ pc' = [pc EXCEPT ![t] = "push"]
                /\ UNCHANGED at
    /\ UNCHANGED <<mainVars, arrived, delivered, abandoned>>

\* Input::importMessages for the input the thread has come to: dequeue, export
\* each record, go and enqueue what could be exported.
importMessages(t) ==
    /\ t[1] = "InputServer"
    /\ pc[t] = "loop"
    /\ PassGoesOn(t)
    /\ \E S \in Bulks(InputSeq[at[t]]) :
        /\ queue' = [queue EXCEPT ![InputSeq[at[t]]] = @ \ S]
        /\ GiveUp(S \cap Malformed)
        /\ IF S \subseteq Malformed
           THEN PushReturns(t)
           ELSE /\ hand' = [hand EXCEPT ![t] = S \ Malformed]
                /\ pc' = [pc EXCEPT ![t] = "push"]
                /\ UNCHANGED at
    /\ UNCHANGED <<mainVars, arrived, delivered, abandoned>>

\* Nothing to import from this input: on to the next one.
importNothing(t) ==
    /\ t[1] = "InputServer"
    /\ pc[t] = "loop"
    /\ PassGoesOn(t)
    /\ queue[InputSeq[at[t]]] = {}
    /\ PushReturns(t)
    /\ UNCHANGED <<queue, mainVars, fateVars>>

\* A processor thread runs the script on a batch; an ignored message and one
\* the script fails on are gone.
Process(t) ==
    /\ t[1] = "ProcessorMachine"
    /\ pc[t] = "loop"
    /\ started["ProcessorMachine"]
    /\ \E S \in Bulks("ProcessorMachine") :
        /\ queue' = [queue EXCEPT !["ProcessorMachine"] = @ \ S]
        /\ GiveUp(S \cap Filtered)
        /\ hand' = [hand EXCEPT ![t] = S \ Filtered]
        /\ pc' = [pc EXCEPT ![t] = IF S \subseteq Filtered THEN "loop" ELSE "push"]
    /\ UNCHANGED <<at, mainVars, arrived, delivered, abandoned>>

\* An export thread takes a batch of the main queue to every output in turn.
Export(t) ==
    /\ t[1] = "OutputServer"
    /\ pc[t] = "loop"
    /\ started["OutputServer"]
    /\ \E S \in Bulks("MainMessageQueue") :
        /\ queue' = [queue EXCEPT !["MainMessageQueue"] = @ \ S]
        /\ hand' = [hand EXCEPT ![t] = S]
        /\ pc' = [pc EXCEPT ![t] = "push"]
    /\ UNCHANGED <<at, mainVars, fateVars>>

\* An output thread takes a batch of its output's queue.
Fetch(t) ==
    /\ t[1] \in Outputs
    /\ pc[t] = "loop"
    /\ started[t[1]]
    /\ \E S \in Bulks(t[1]) :
        /\ queue' = [queue EXCEPT ![t[1]] = @ \ S]
        /\ hand' = [hand EXCEPT ![t] = S]
        /\ pc' = [pc EXCEPT ![t] = "send"]
    /\ UNCHANGED <<at, mainVars, fateVars>>

\* The batch is written to the log or over the connection.
Deliver(t) ==
    /\ pc[t] = "send"
    /\ delivered' = [delivered EXCEPT ![t[1]] = @ \cup hand[t]]
    /\ hand' = [hand EXCEPT ![t] = {}]
    /\ pc' = [pc EXCEPT ![t] = "loop"]
    /\ UNCHANGED <<queue, at, mainVars, arrived, lost, abandoned>>

\* A gelf output that was stopped writes each buffer of the batch once more at
\* most: the buffers S whose write fails are given up, the others are written.
Abandon(t) ==
    /\ pc[t] = "send"
    /\ t[1] \notin LogOutputs
    /\ ~started[t[1]]
    /\ \E S \in SUBSET hand[t] :
        /\ S # {}
        /\ abandoned' = [abandoned EXCEPT ![t[1]] = @ \cup S]
        /\ delivered' = [delivered EXCEPT ![t[1]] = @ \cup (hand[t] \ S)]
    /\ hand' = [hand EXCEPT ![t] = {}]
    /\ pc' = [pc EXCEPT ![t] = "loop"]
    /\ UNCHANGED <<queue, at, mainVars, arrived, lost>>

\* As Exit, only the threads of the inputs looking at isRunning().
ExitInputsOnly(t) ==
    /\ pc[t] = "loop"
    /\ at[t] = 1
    /\ ~started[t[1]]
    /\ t[1] \in Inputs
    /\ pc' = [pc EXCEPT ![t] = "exited"]
    /\ UNCHANGED <<queue, hand, at, mainVars, fateVars>>

\* A thread leaves its loop when it finds its task stopped.
Exit(t) ==
    /\ pc[t] = "loop"
    /\ at[t] = 1
    /\ ~started[t[1]]
    /\ pc' = [pc EXCEPT ![t] = "exited"]
    /\ UNCHANGED <<queue, hand, at, mainVars, fateVars>>

-----------------------------------------------------------------------------
(* The main thread: IQLogger::stop *)

Exited(x) == \A t \in ThreadsOf(x) : pc[t] = "exited"

\* TaskInterface::stop clears m_started before stopImpl runs.
ClearStarted(x) == started' = [started EXCEPT ![x] = FALSE]

MainGoesTo(p, k) ==
    /\ phase' = p
    /\ step' = k
    /\ UNCHANGED <<queue, threadVars, fateVars>>

\* A signal ends io_context.run's wait and calls IQLogger::stop.
Signal ==
    /\ MayStop
    /\ phase = "run"
    /\ MainGoesTo("stop_inputs", 1)
    /\ UNCHANGED started

\* InputServer::stop: the import threads are told to stop first ...
StopInputServer ==
    /\ phase = "stop_inputs"
    /\ ClearStarted("InputServer")
    /\ MainGoesTo("stop_input", 1)

\* ... then each input is stopped ...
StopInput ==
    /\ phase = "stop_input"
    /\ ClearStarted(InputSeq[step])
    /\ MainGoesTo("join_input", step)

\* ... and its threads are joined ...
JoinInput ==
    /\ phase = "join_input"
    /\ Exited(InputSeq[step])
    /\ IF step < Len(InputSeq) THEN MainGoesTo("stop_input", step + 1)
                               ELSE MainGoesTo("join_import", 1)
    /\ UNCHANGED started

\* As JoinImport, detaching the import threads instead of joining them.
DetachImport ==
    /\ phase = "join_import"
    /\ MainGoesTo("stop_outputs", 1)
    /\ UNCHANGED started

\* ... before the import threads are joined.
JoinImport ==
    /\ phase = "join_import"
    /\ Exited("InputServer")
    /\ MainGoesTo("stop_outputs", 1)
    /\ UNCHANGED started

\* OutputServer::stop: the export threads are told to stop first ...
StopOutputServer ==
    /\ phase = "stop_outputs"
    /\ ClearStarted("OutputServer")
    /\ MainGoesTo("stop_output", 1)

\* ... then each output is stopped.  LogOutput::stopImpl calls stop() again,
\* which finds m_started cleared and throws out of IQLogger::stop.
StopOutput ==
    /\ phase = "stop_output"
    /\ ClearStarted(OutputSeq[step])
    /\ IF OutputSeq[step] \in LogOutputs THEN MainGoesTo("threw", step)
                                         ELSE MainGoesTo("join_output", step)

JoinOutput ==
    /\ phase = "join_output"
    /\ Exited(OutputSeq[step])
    /\ IF step < Len(OutputSeq) THEN MainGoesTo("stop_output", step + 1)
                                ELSE MainGoesTo("join_export", 1)
    /\ UNCHANGED started

JoinExport ==
    /\ phase = "join_export"
    /\ Exited("OutputServer")
    /\ MainGoesTo("stop_processor", 1)
    /\ UNCHANGED started

\* ProcessorMachine::stop comes last.
StopProcessor ==
    /\ phase = "stop_processor"
    /\ ClearStarted("ProcessorMachine")
    /\ MainGoesTo("join_processor", 1)

JoinProcessor ==
    /\ phase = "join_processor"
    /\ Exited("ProcessorMachine")
    /\ MainGoesTo("done", 1)
    /\ UNCHANGED started

-----------------------------------------------------------------------------
\* What thread t does without being given a new message.
Work(t) ==
    \/ Admit(t) \/ Throttle(t) \/ Drop(t) \/ Poll(t) \/ Insert(t) \/ Skip(t)
    \/ importMessages(t) \/ importNothing(t) \/ Process(t) \/ Export(t)
    \/ Fetch(t) \/ Deliver(t) \/ Abandon(t) \/ Exit(t)

Main ==
    \/ StopInputServer \/ StopInput \/ JoinInput \/ JoinImport
    \/ StopOutputServer \/ StopOutput \/ JoinOutput \/ JoinExport
    \/ StopProcessor \/ JoinProcessor

Next ==
    \/ \E t \in Threads : Work(t)
    \/ \E t \in Threads, m \in Msgs : Receive(t, m)
    \/ Signal
    \/ Main

Spec == Init /\ [][Next]_vars

\* Threads are scheduled and destinations accept what is written to them; a
\* message or a signal need not come.
FairSpec ==
    /\ Spec
    /\ \A t \in Threads : WF_vars(Work(t))
    /\ WF_vars(Main)

-----------------------------------------------------------------------------
(* Properties *)

Index(o) == CHOOSE k \in DOMAIN OutputSeq : OutputSeq[k] = o

\* Does thread t hold message m on the way to output o?  An export thread
\* holds it until it has been to o.
Holds(t, m, o) ==
    /\ m \in hand[t]
    /\ t[1] \in Outputs => t[1] = o
    /\ t[1] = "OutputServer" => at[t] <= Index(o)

\* In how many places message m is on the way to output o.
Copies(m, o) ==
      Cardinality({q \in Queues \ (Outputs \ {o}) : m \in queue[q]})
    + Cardinality({t \in Threads : Holds(t, m, o)})
    + Cardinality({F \in {<<"d", delivered>>, <<"l", lost>>, <<"a", abandoned>>} : m \in F[2][o]})

\* Through all hand-overs between threads a received message is in exactly one
\* place on the way to each output: it is never duplicated, and it disappears
\* only where the code gives it up (malformed, ignored by the script, dropped
\* by a DROP queue, not representable for that output, abandoned by a stopped
\* output).
OnePlace ==
    \A m \in Msgs, o \in Outputs : Copies(m, o) = IF m \in arrived THEN 1 ELSE 0

\* The reasons for which the code may give up message m on the way to o.
Excused(m, o) ==
    \/ m \in Malformed \cup Unwritable[o]
    \/ m \in Filtered /\ SourceOf[m] \in WithProcessor

\* The queue of its input has m: an input that drops may refuse it when its queue
\* is full, one that throttles may not.
TakenIn(m) ==
    IF DropsWhenFull(SourceOf[m]) THEN m \in queue[SourceOf[m]] ELSE m \in arrived

\* While no signal comes, every message an input has taken in is written to every
\* output unless the code has a reason to give it up, whether a script stands on
\* its way or not, and even when every queue fills up.
EveryMessageArrives ==
    \A o \in Outputs : \A m \in {x \in Msgs : ~Excused(x, o)} :
        TakenIn(m) ~> (m \in delivered[o])

\* A thread waits in enqueue_bulk for room in a queue all of whose consumers
\* have left: nobody will ever make room.
Wedged ==
    \E t \in Threads :
        /\ pc[t] = "throttle"
        /\ Full(Target(t))
        /\ \A c \in Consumers(Target(t)) : pc[c] = "exited"

\* After a signal IQLogger::stop comes to an end (returns, or throws), or some
\* thread is wedged: the throttle loop of MessageQueue.h:66 does not look at
\* isRunning() and the consumers are stopped before the producers are joined.
\* There is no other way for the shutdown to hang.
StopSettles == (phase # "run") ~> (phase \in {"done", "threw"} \/ Wedged)

\* A wedged thread stays wedged: the shutdown never recovers from it.
WedgeIsFinal == [][Wedged => Wedged']_vars

\* Once the import threads are joined no message gets into the processor's
\* queue, and once the export threads are joined none gets into an output's.
Grows(q) == ~(queue'[q] \subseteq queue[q])

JoinedIsQuiet ==
    [][/\ (phase \in {"stop_outputs", "stop_output", "join_output", "join_export",
                      "stop_processor", "join_processor", "done"})
             => ~Grows("ProcessorMachine")
       /\ (phase \in {"stop_processor", "join_processor", "done"})
             => \A o \in Outputs : ~Grows(o)]_vars

\* IQLogger::stop never stops a task that is not started (TaskInterface.h:51).
StopNeverThrows == phase # "threw"
=============================================================================
