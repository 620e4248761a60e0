--------------------------- MODULE Pipeline_proofs ---------------------------
(***************************************************************************)
(* Theorems about Pipeline for any inputs, outputs, threads, messages and  *)
(* queue sizes.  The inductive invariant says where in its loop a thread   *)
(* may hold a batch (LoopsInv), that a received message is in exactly one  *)
(* spot on the way to each output (OneSpot), that queues and batches are   *)
(* finite (FiniteInv), and which threads the main thread has joined        *)
(* (JoinedInv).                                                            *)
(***************************************************************************)
EXTENDS Pipeline, FiniteSetTheorems, TLAPS

\* A thread has a batch only between dequeuing it and putting it away; an
\* export thread begins each batch with the first output.
LoopsInv ==
    \A t \in Threads :
        /\ pc[t] \in {"loop", "exited"} => hand[t] = {}
        /\ pc[t] = "send" => t[1] \in Outputs
        /\ pc[t] \in {"push", "throttle", "insert"} => t[1] \notin Outputs
        /\ t[1] = "OutputServer" /\ pc[t] \in {"loop", "exited"} => at[t] = 1

\* Where a message on the way to some output can be.
Spots ==
    ({"queue"} \X Queues) \cup ({"thread"} \X Threads)
        \cup ({"fate"} \X {"delivered", "lost", "abandoned"})

\* Message m is at spot x on the way to output o.
In(m, o, x) ==
    \/ x[1] = "queue" /\ x[2] \notin Outputs \ {o} /\ m \in queue[x[2]]
    \/ x[1] = "thread" /\ Holds(x[2], m, o)
    \/ x = <<"fate", "delivered">> /\ m \in delivered[o]
    \/ x = <<"fate", "lost">> /\ m \in lost[o]
    \/ x = <<"fate", "abandoned">> /\ m \in abandoned[o]

\* m is in one spot if it was received, and in none otherwise.
One(m, o) ==
    /\ m \in arrived <=> \E x \in Spots : In(m, o, x)
    /\ \A x, y \in Spots : In(m, o, x) /\ In(m, o, y) => x = y

OneSpot == \A m \in Msgs, o \in Outputs : One(m, o)

FiniteInv ==
    /\ \A q \in Queues : IsFiniteSet(queue[q])
    /\ \A t \in Threads : IsFiniteSet(hand[t])

\* After its join the main thread knows the threads of a task gone.
JoinedInv ==
    /\ phase \in {"stop_outputs", "stop_output", "join_output", "join_export",
                  "stop_processor", "join_processor", "done", "threw"} => Exited("InputServer")
    /\ phase \in {"stop_processor", "join_processor", "done"} => Exited("OutputServer")

IInv == TypeOK /\ LoopsInv /\ OneSpot /\ FiniteInv /\ JoinedInv

-----------------------------------------------------------------------------
(* Threads and their queues *)

\* A thread is a number of one of the tasks.
LEMMA ThreadOfTask ==
    ASSUME NEW t \in Threads
    PROVE  t[1] \in Tasks /\ t \in ThreadsOf(t[1])
  BY DEF Threads, ThreadsOf

\* The names of the servers are no inputs or outputs, and an input is no output.
LEMMA Names ==
    /\ \A i \in Inputs : i \notin Outputs /\ i \in Tasks /\ i \in Queues
    /\ \A o \in Outputs : o \notin Inputs /\ o \in Tasks /\ o \in Queues
    /\ \A x \in {"InputServer", "OutputServer", "ProcessorMachine", "MainMessageQueue"} :
          x \notin Inputs /\ x \notin Outputs
    /\ "ProcessorMachine" \in Queues /\ "MainMessageQueue" \in Queues
  BY NamesAssumption DEF Tasks, Queues

\* m_inputs and m_outputs are not empty; their elements are inputs and outputs.
LEMMA Lists ==
    /\ Len(InputSeq) \in Nat \ {0} /\ \A k \in 1..Len(InputSeq) : InputSeq[k] \in Inputs
    /\ Len(OutputSeq) \in Nat \ {0} /\ \A k \in 1..Len(OutputSeq) : OutputSeq[k] \in Outputs
    /\ \A k \in 1..Len(OutputSeq) : Index(OutputSeq[k]) = k
    /\ \A o \in Outputs : Index(o) \in 1..Len(OutputSeq) /\ OutputSeq[Index(o)] = o
  <1>1. /\ InputSeq \in Seq(STRING) /\ InputSeq # << >>
        /\ OutputSeq \in Seq(STRING) /\ OutputSeq # << >>
        /\ \A j, k \in DOMAIN OutputSeq : OutputSeq[j] = OutputSeq[k] => j = k
    BY NamesAssumption
  <1>2. /\ DOMAIN InputSeq = 1..Len(InputSeq) /\ Len(InputSeq) \in Nat \ {0}
        /\ DOMAIN OutputSeq = 1..Len(OutputSeq) /\ Len(OutputSeq) \in Nat \ {0}
    BY <1>1
  <1>3. \A k \in 1..Len(InputSeq) : InputSeq[k] \in Inputs
    BY <1>2 DEF Inputs
  <1>4. \A k \in 1..Len(OutputSeq) : OutputSeq[k] \in Outputs
    BY <1>2 DEF Outputs
  <1>5. \A o \in Outputs : Index(o) \in DOMAIN OutputSeq /\ OutputSeq[Index(o)] = o
    BY DEF Outputs, Index
  <1>6. \A k \in 1..Len(OutputSeq) : Index(OutputSeq[k]) = k
    BY <1>1, <1>2, <1>4, <1>5
  <1>7. QED
    BY <1>2, <1>3, <1>4, <1>5, <1>6

\* How many queues one pass of a loop visits.
LEMMA RoundsOf ==
    ASSUME NEW t \in Threads
    PROVE  /\ Rounds(t) \in Nat \ {0}
           /\ t[1] = "InputServer" => Rounds(t) = Len(InputSeq)
           /\ t[1] = "OutputServer" => Rounds(t) = Len(OutputSeq)
           /\ t[1] \notin {"InputServer", "OutputServer"} => Rounds(t) = 1
  BY Lists DEF Rounds

\* Which queue a thread puts its batch into.
LEMMA TargetOf ==
    ASSUME TypeOK, NEW t \in Threads
    PROVE  /\ Target(t) \in Queues
           /\ t[1] \in Inputs => Target(t) = t[1]
           /\ t[1] = "InputServer" => Target(t) \in {"ProcessorMachine", "MainMessageQueue"}
           /\ t[1] = "ProcessorMachine" => Target(t) = "MainMessageQueue"
           /\ t[1] = "OutputServer" =>
                 /\ at[t] \in 1..Len(OutputSeq)
                 /\ Target(t) = OutputSeq[at[t]]
                 /\ Target(t) \in Outputs
  <1>1. t[1] \in Tasks
    BY ThreadOfTask
  <1>2. at[t] \in 1..Rounds(t)
    BY DEF TypeOK
  <1>3. CASE t[1] \in Inputs
    BY <1>3, Names DEF Target
  <1>4. CASE t[1] = "InputServer"
    BY <1>4, Names DEF Target
  <1>5. CASE t[1] = "ProcessorMachine"
    BY <1>5, Names DEF Target
  <1>6. CASE t[1] = "OutputServer"
    BY <1>2, <1>6, Names, Lists, RoundsOf DEF Target
  <1>7. CASE t[1] \in Outputs
    <2>1. at[t] = 1
      BY <1>2, <1>7, RoundsOf, Names
    <2>2. Target(t) = OutputSeq[1]
      BY <1>7, <2>1, Names DEF Target
    <2>3. QED
      BY <1>7, <2>2, Names, Lists
  <1>8. QED
    BY <1>1, <1>3, <1>4, <1>5, <1>6, <1>7 DEF Tasks

\* What is put into the queue is part of the batch.
LEMMA PortionOf ==
    ASSUME TypeOK, NEW t \in Threads
    PROVE  /\ Portion(t) \subseteq hand[t]
           /\ t[1] # "OutputServer" => Portion(t) = hand[t]
  BY DEF Portion

\* After the push: the next output with the same batch, or the loop without it.
LEMMA PushReturnsEffect ==
    ASSUME TypeOK, NEW t \in Threads, PushReturns(t)
    PROVE  /\ pc' \in [Threads -> {"loop", "push", "throttle", "insert", "send", "exited"}]
           /\ hand' \in [Threads -> SUBSET Msgs]
           /\ at' \in [Threads -> Nat] /\ \A u \in Threads : at'[u] \in 1..Rounds(u)
           /\ \A u \in Threads : u # t => pc'[u] = pc[u] /\ hand'[u] = hand[u] /\ at'[u] = at[u]
           /\ IF t[1] = "OutputServer" /\ at[t] < Len(OutputSeq)
              THEN pc'[t] = "push" /\ hand'[t] = hand[t] /\ at'[t] = at[t] + 1
              ELSE /\ pc'[t] = "loop" /\ hand'[t] = {}
                   /\ t[1] = "OutputServer" => at[t] = Len(OutputSeq) /\ at'[t] = 1
                   /\ t[1] \in Inputs \cup Outputs \cup {"ProcessorMachine"} => at'[t] = at[t]
  <1>1. /\ Rounds(t) \in Nat \ {0}
        /\ t[1] = "OutputServer" => Rounds(t) = Len(OutputSeq)
        /\ t[1] \in Inputs \cup Outputs \cup {"ProcessorMachine"} => Rounds(t) = 1
    BY RoundsOf, Names
  <1>2. /\ at[t] \in 1..Rounds(t)
        /\ at \in [Threads -> Nat]
        /\ \A u \in Threads : at[u] \in 1..Rounds(u)
    BY DEF TypeOK
  <1>3. NextAt(t) \in 1..Rounds(t) /\ NextAt(t) \in Nat
    BY <1>1, <1>2 DEF NextAt
  <1>4. at' \in [Threads -> Nat] /\ \A u \in Threads : at'[u] \in 1..Rounds(u)
    BY <1>2, <1>3 DEF PushReturns
  <1>5. /\ pc' \in [Threads -> {"loop", "push", "throttle", "insert", "send", "exited"}]
        /\ hand' \in [Threads -> SUBSET Msgs]
    BY DEF TypeOK, PushReturns
  <1>6. \A u \in Threads : u # t => pc'[u] = pc[u] /\ hand'[u] = hand[u] /\ at'[u] = at[u]
    BY DEF TypeOK, PushReturns
  <1>7. CASE t[1] = "OutputServer" /\ at[t] < Len(OutputSeq)
    BY <1>1, <1>2, <1>4, <1>5, <1>6, <1>7 DEF PushReturns, NextAt, TypeOK
  <1>8. CASE ~(t[1] = "OutputServer" /\ at[t] < Len(OutputSeq))
    <2>1. ~(t[1] = "OutputServer" /\ at[t] < Rounds(t))
      BY <1>1, <1>8
    <2>2. pc'[t] = "loop" /\ hand'[t] = {} /\ at'[t] = NextAt(t)
      BY <2>1 DEF PushReturns, TypeOK
    <2>3. t[1] = "OutputServer" => at[t] = Len(OutputSeq) /\ at'[t] = 1
      BY <1>1, <1>2, <2>1, <2>2, Lists DEF NextAt
    <2>4. t[1] \in Inputs \cup Outputs \cup {"ProcessorMachine"} => at'[t] = at[t]
      BY <1>1, <1>2, <2>2 DEF NextAt
    <2>5. QED
      BY <1>4, <1>5, <1>6, <1>8, <2>2, <2>3, <2>4
  <1>9. QED
    BY <1>7, <1>8

\* GiveUp adds the same messages everywhere.
LEMMA GiveUpEffect ==
    ASSUME TypeOK, NEW S \in SUBSET Msgs, GiveUp(S)
    PROVE  /\ lost' \in [Outputs -> SUBSET Msgs]
           /\ \A o \in Outputs : lost'[o] = lost[o] \cup S
  BY DEF TypeOK, GiveUp

\* What an output cannot represent of a batch is lost to that output only.
LEMMA LeftoverEffect ==
    ASSUME TypeOK, NEW t \in Threads, lost' = Leftover(t)
    PROVE  /\ lost' \in [Outputs -> SUBSET Msgs]
           /\ t[1] # "OutputServer" => lost' = lost
           /\ t[1] = "OutputServer" =>
                 \A o \in Outputs : lost'[o] =
                     IF o = OutputSeq[at[t]] THEN lost[o] \cup (hand[t] \ Portion(t)) ELSE lost[o]
  BY TargetOf DEF TypeOK, Leftover

-----------------------------------------------------------------------------
(* Types *)

\* The steps of the threads.
LEMMA TypeWork ==
    ASSUME TypeOK, NEW t \in Threads, Work(t)
    PROVE  TypeOK'
  <1> USE DEF mainVars, fateVars
  <1>0. SUFFICES ASSUME UNCHANGED <<started, phase, step>> PROVE TypeOK'
    BY DEF Work, Admit, Throttle, Drop, Poll, Insert, Skip, importMessages, importNothing,
           Process, Export, Fetch, Deliver, Abandon, Exit
  <1>1. CASE Admit(t) \/ Throttle(t) \/ Poll(t) \/ Exit(t)
    BY <1>0, <1>1 DEF TypeOK, Admit, Throttle, Poll, Exit
  <1>2. CASE Drop(t)
    BY <1>0, <1>2, GiveUpEffect, PushReturnsEffect DEF TypeOK, Drop
  <1>3. CASE Insert(t)
    BY <1>0, <1>3, LeftoverEffect, PushReturnsEffect, PortionOf, ZenonT(40) DEF TypeOK, Insert
  <1>4. CASE Skip(t)
    BY <1>0, <1>4, LeftoverEffect, PushReturnsEffect DEF TypeOK, Skip
  <1>5. CASE importMessages(t)
    <2>1. PICK S \in Bulks(InputSeq[at[t]]) :
            /\ queue' = [queue EXCEPT ![InputSeq[at[t]]] = @ \ S]
            /\ GiveUp(S \cap Malformed)
            /\ \/ PushReturns(t)
               \/ /\ hand' = [hand EXCEPT ![t] = S \ Malformed]
                  /\ pc' = [pc EXCEPT ![t] = "push"]
                  /\ UNCHANGED at
      BY <1>5 DEF importMessages
    <2>2. InputSeq[at[t]] \in Queues
      BY <1>5, Lists, RoundsOf, Names DEF importMessages, TypeOK
    <2>3. S \in SUBSET Msgs
      BY <2>2 DEF TypeOK, Bulks
    <2>4. lost' \in [Outputs -> SUBSET Msgs] /\ queue' \in [Queues -> SUBSET Msgs]
      BY <2>1, <2>3, GiveUpEffect DEF TypeOK
    <2>5. /\ pc' \in [Threads -> {"loop", "push", "throttle", "insert", "send", "exited"}]
          /\ hand' \in [Threads -> SUBSET Msgs]
          /\ at' \in [Threads -> Nat] /\ \A u \in Threads : at'[u] \in 1..Rounds(u)
      BY <2>1, <2>3, PushReturnsEffect DEF TypeOK
    <2>6. QED
      BY <1>0, <1>5, <2>4, <2>5 DEF TypeOK, importMessages
  <1>6. CASE importNothing(t)
    BY <1>0, <1>6, PushReturnsEffect DEF TypeOK, importNothing
  <1>7. CASE Process(t)
    <2>1. PICK S \in Bulks("ProcessorMachine") :
            /\ queue' = [queue EXCEPT !["ProcessorMachine"] = @ \ S]
            /\ GiveUp(S \cap Filtered)
            /\ hand' = [hand EXCEPT ![t] = S \ Filtered]
            /\ pc' = [pc EXCEPT ![t] = IF S \subseteq Filtered THEN "loop" ELSE "push"]
      BY <1>7 DEF Process
    <2>2. S \in SUBSET Msgs
      BY <2>1, Names DEF TypeOK, Bulks
    <2>3. lost' \in [Outputs -> SUBSET Msgs]
      BY <2>1, <2>2, GiveUpEffect
    <2>4. QED
      BY <1>0, <1>7, <2>1, <2>2, <2>3 DEF TypeOK, Process
  <1>8. CASE Export(t)
    BY <1>0, <1>8, Names DEF TypeOK, Export, Bulks
  <1>9. CASE Fetch(t)
    BY <1>0, <1>9, Names DEF TypeOK, Fetch, Bulks
  <1>10. CASE Deliver(t)
    BY <1>0, <1>10 DEF TypeOK, Deliver
  <1>11. CASE Abandon(t)
    <2>1. PICK S \in SUBSET hand[t] :
            /\ abandoned' = [abandoned EXCEPT ![t[1]] = @ \cup S]
            /\ delivered' = [delivered EXCEPT ![t[1]] = @ \cup (hand[t] \ S)]
      BY <1>11 DEF Abandon
    <2>2. hand[t] \in SUBSET Msgs
      BY DEF TypeOK
    <2>3. abandoned' \in [Outputs -> SUBSET Msgs] /\ delivered' \in [Outputs -> SUBSET Msgs]
      BY <2>1, <2>2 DEF TypeOK
    <2>4. QED
      BY <1>0, <1>11, <2>3 DEF TypeOK, Abandon
  <1>12. QED
    BY <1>1, <1>2, <1>3, <1>4, <1>5, <1>6, <1>7, <1>8, <1>9, <1>10, <1>11 DEF Work

\* The steps of the main thread.
LEMMA TypeMain ==
    ASSUME TypeOK, Signal \/ Main
    PROVE  TypeOK'
  <1>1. Len(InputSeq) \in Nat \ {0} /\ Len(OutputSeq) \in Nat \ {0}
    BY Lists
  <1>2. UNCHANGED <<queue, pc, hand, at, arrived, delivered, lost, abandoned>>
    BY DEF Main, Signal, StopInputServer, StopInput, JoinInput, JoinImport, StopOutputServer,
           StopOutput, JoinOutput, JoinExport, StopProcessor, JoinProcessor, MainGoesTo,
           threadVars, fateVars
  <1>3. started' = started \/ \E x : started' = [started EXCEPT ![x] = FALSE]
    BY DEF Main, Signal, StopInputServer, StopInput, JoinInput, JoinImport, StopOutputServer,
           StopOutput, JoinOutput, JoinExport, StopProcessor, JoinProcessor, ClearStarted
  <1>4. started' \in [Tasks -> BOOLEAN]
    BY <1>3 DEF TypeOK
  <1>5. phase' \in Phases /\ step' \in 1..(Len(InputSeq) + Len(OutputSeq))
    BY <1>1 DEF TypeOK, Phases, Main, Signal, StopInputServer, StopInput, JoinInput, JoinImport,
           StopOutputServer, StopOutput, JoinOutput, JoinExport, StopProcessor, JoinProcessor,
           MainGoesTo
  <1>6. QED
    BY <1>2, <1>4, <1>5 DEF TypeOK

\* Every step keeps the types.
LEMMA TypeStep == TypeOK /\ [Next]_vars => TypeOK'
  <1> SUFFICES ASSUME TypeOK, [Next]_vars PROVE TypeOK'
    OBVIOUS
  <1>1. ASSUME NEW t \in Threads, Work(t) PROVE TypeOK'
    BY <1>1, TypeWork
  <1>2. ASSUME NEW t \in Threads, NEW m \in Msgs, Receive(t, m) PROVE TypeOK'
    BY <1>2 DEF TypeOK, Receive, mainVars
  <1>3. CASE Signal \/ Main
    BY <1>3, TypeMain
  <1>4. CASE UNCHANGED vars
    BY <1>4 DEF TypeOK, vars, threadVars, mainVars, fateVars
  <1>5. QED
    BY <1>1, <1>2, <1>3, <1>4 DEF Next

-----------------------------------------------------------------------------
(* Loops, finiteness, joins *)

\* Every step keeps the threads' loops in order.
LEMMA LoopsStep == TypeOK /\ LoopsInv /\ [Next]_vars => LoopsInv'
  <1> SUFFICES ASSUME TypeOK, LoopsInv, [Next]_vars PROVE LoopsInv'
    OBVIOUS
  <1> DEFINE L(u) ==
        /\ pc[u] \in {"loop", "exited"} => hand[u] = {}
        /\ pc[u] = "send" => u[1] \in Outputs
        /\ pc[u] \in {"push", "throttle", "insert"} => u[1] \notin Outputs
        /\ u[1] = "OutputServer" /\ pc[u] \in {"loop", "exited"} => at[u] = 1
  <1>0. \A u \in Threads : L(u)
    BY DEF LoopsInv
  <1>1. ASSUME NEW t \in Threads, Work(t), NEW u \in Threads PROVE L(u)'
    <2>1. CASE Admit(t) \/ Throttle(t) \/ Poll(t) \/ Exit(t)
      BY <1>0, <2>1 DEF TypeOK, Admit, Throttle, Poll, Exit
    <2>2. CASE PushReturns(t) /\ pc[t] \in {"push", "insert"}
      BY <1>0, <2>2, PushReturnsEffect
    <2>3. CASE PushReturns(t) /\ t[1] = "InputServer"
      BY <1>0, <2>3, PushReturnsEffect, Names
    <2>4. CASE importMessages(t) /\ ~PushReturns(t)
      BY <1>0, <2>4, Names DEF TypeOK, importMessages
    <2>5. CASE Process(t)
      BY <1>0, <2>5, Names DEF TypeOK, Process
    <2>6. CASE Export(t) \/ Fetch(t)
      BY <1>0, <2>6, Names DEF TypeOK, Export, Fetch
    <2>7. CASE Deliver(t) \/ Abandon(t)
      BY <1>0, <2>7, Names DEF TypeOK, Deliver, Abandon
    <2>8. QED
      BY <1>1, <2>1, <2>2, <2>3, <2>4, <2>5, <2>6, <2>7
         DEF Work, Drop, Insert, Skip, importMessages, importNothing
  <1>2. ASSUME NEW t \in Threads, NEW m \in Msgs, Receive(t, m), NEW u \in Threads PROVE L(u)'
    <2>1. t[1] \notin Outputs /\ t[1] # "OutputServer"
      BY <1>2, MsgsAssumption, Names DEF Receive
    <2>2. QED
      BY <1>0, <1>2, <2>1 DEF TypeOK, Receive
  <1>3. CASE UNCHANGED threadVars
    BY <1>0, <1>3 DEF threadVars, LoopsInv
  <1>4. QED
    BY <1>1, <1>2, <1>3
       DEF Next, Main, Signal, StopInputServer, StopInput, JoinInput, JoinImport,
           StopOutputServer, StopOutput, JoinOutput, JoinExport, StopProcessor, JoinProcessor,
           MainGoesTo, vars, LoopsInv

\* What a thread takes is finite, if the queue is.
LEMMA BulkFinite ==
    ASSUME FiniteInv, NEW q \in Queues, NEW S \in Bulks(q)
    PROVE  /\ IsFiniteSet(S) /\ IsFiniteSet(queue[q] \ S)
           /\ \A T : IsFiniteSet(S \ T)
  <1>1. IsFiniteSet(queue[q]) /\ S \in SUBSET queue[q]
    BY DEF FiniteInv, Bulks
  <1>2. IsFiniteSet(S)
    BY <1>1, FS_Subset
  <1>3. QED
    BY <1>1, <1>2, FS_Subset

\* Every step keeps queues and batches finite.
LEMMA FiniteStep == TypeOK /\ FiniteInv /\ [Next]_vars => FiniteInv'
  <1> SUFFICES ASSUME TypeOK, FiniteInv, [Next]_vars PROVE FiniteInv'
    OBVIOUS
  <1>0. IsFiniteSet({})
    BY FS_EmptySet
  <1>1. ASSUME NEW t \in Threads, PushReturns(t) PROVE \A u \in Threads : IsFiniteSet(hand'[u])
    BY <1>0, <1>1, PushReturnsEffect DEF FiniteInv
  <1>2. ASSUME NEW t \in Threads, Insert(t) PROVE FiniteInv'
    <2>1. IsFiniteSet(hand[t]) /\ Portion(t) \in SUBSET hand[t]
      BY PortionOf DEF FiniteInv
    <2>2. IsFiniteSet(Portion(t))
      BY <2>1, FS_Subset
    <2>3. Target(t) \in Queues /\ IsFiniteSet(queue[Target(t)])
      BY TargetOf DEF FiniteInv
    <2>4. IsFiniteSet(queue[Target(t)] \cup Portion(t))
      BY <2>2, <2>3, FS_Union
    <2>5. \A q \in Queues : IsFiniteSet(queue'[q])
      BY <1>2, <2>4 DEF TypeOK, FiniteInv, Insert
    <2>6. QED
      BY <1>1, <1>2, <2>5 DEF FiniteInv, Insert
  <1>3. ASSUME NEW t \in Threads, Drop(t) \/ Skip(t) \/ importNothing(t) PROVE FiniteInv'
    BY <1>1, <1>3 DEF FiniteInv, Drop, Skip, importNothing
  <1>4. ASSUME NEW t \in Threads, NEW q \in Queues, NEW S \in Bulks(q),
               queue' = [queue EXCEPT ![q] = @ \ S],
               PushReturns(t) \/ (\E T : hand' = [hand EXCEPT ![t] = S \ T])
        PROVE  FiniteInv'
    <2>1. \A p \in Queues : IsFiniteSet(queue'[p])
      BY <1>4, BulkFinite DEF TypeOK, FiniteInv
    <2>2. CASE PushReturns(t)
      BY <1>1, <2>1, <2>2 DEF FiniteInv
    <2>3. CASE \E T : hand' = [hand EXCEPT ![t] = S \ T]
      <3>1. PICK T : hand' = [hand EXCEPT ![t] = S \ T]
        BY <2>3
      <3>2. IsFiniteSet(S \ T)
        BY BulkFinite
      <3>3. \A u \in Threads : IsFiniteSet(hand'[u])
        BY <3>1, <3>2 DEF TypeOK, FiniteInv
      <3>4. QED
        BY <2>1, <3>3 DEF FiniteInv
    <2>4. QED
      BY <1>4, <2>2, <2>3
  <1>5. ASSUME NEW t \in Threads, importMessages(t) PROVE FiniteInv'
    <2>1. InputSeq[at[t]] \in Queues
      BY <1>5, Lists, RoundsOf, Names DEF importMessages, TypeOK
    <2>2. QED
      BY <1>4, <1>5, <2>1 DEF importMessages
  <1>6. ASSUME NEW t \in Threads, Process(t) PROVE FiniteInv'
    BY <1>4, <1>6, Names DEF Process
  <1>7. ASSUME NEW t \in Threads, Export(t) \/ Fetch(t) PROVE FiniteInv'
    <2>1. PICK q \in Queues : \E S \in Bulks(q) :
             /\ queue' = [queue EXCEPT ![q] = @ \ S]
             /\ hand' = [hand EXCEPT ![t] = S]
      BY <1>7, Names DEF Export, Fetch
    <2>2. PICK S \in Bulks(q) :
             /\ queue' = [queue EXCEPT ![q] = @ \ S]
             /\ hand' = [hand EXCEPT ![t] = S]
      BY <2>1
    <2>3. S = S \ {}
      OBVIOUS
    <2>4. QED
      BY <1>4, <2>2, <2>3
  <1>8. ASSUME NEW t \in Threads, Deliver(t) \/ Abandon(t) PROVE FiniteInv'
    BY <1>0, <1>8 DEF TypeOK, FiniteInv, Deliver, Abandon
  <1>9. ASSUME NEW t \in Threads, NEW m \in Msgs, Receive(t, m) PROVE FiniteInv'
    BY <1>9, FS_Singleton DEF TypeOK, FiniteInv, Receive
  <1>10. CASE UNCHANGED <<queue, hand>>
    BY <1>10 DEF FiniteInv
  <1>11. QED
    BY <1>2, <1>3, <1>5, <1>6, <1>7, <1>8, <1>9, <1>10
       DEF Next, Work, Admit, Throttle, Poll, Exit, Main, Signal, StopInputServer, StopInput,
           JoinInput, JoinImport, StopOutputServer, StopOutput, JoinOutput, JoinExport,
           StopProcessor, JoinProcessor, MainGoesTo, threadVars, vars

\* A thread that has left its loop does nothing any more.
LEMMA ExitedStays ==
    ASSUME TypeOK, [Next]_vars, NEW u \in Threads, pc[u] = "exited"
    PROVE  pc'[u] = "exited"
  <1>1. ASSUME NEW t \in Threads, Work(t) PROVE t # u /\ pc'[u] = pc[u]
    BY <1>1 DEF TypeOK, Work, Admit, Throttle, Drop, Poll, Insert, Skip, importMessages,
           importNothing, Process, Export, Fetch, Deliver, Abandon, Exit, PushReturns
  <1>2. ASSUME NEW t \in Threads, NEW m \in Msgs, Receive(t, m) PROVE pc'[u] = pc[u]
    BY <1>2 DEF TypeOK, Receive
  <1>3. QED
    BY <1>1, <1>2
       DEF Next, Main, Signal, StopInputServer, StopInput, JoinInput, JoinImport,
           StopOutputServer, StopOutput, JoinOutput, JoinExport, StopProcessor, JoinProcessor,
           MainGoesTo, threadVars, vars

\* What was joined stays joined, and the main thread goes on only after a join.
LEMMA JoinedStep == TypeOK /\ JoinedInv /\ [Next]_vars => JoinedInv'
  <1> SUFFICES ASSUME TypeOK, JoinedInv, [Next]_vars PROVE JoinedInv'
    OBVIOUS
  <1>1. ASSUME NEW x \in Tasks, Exited(x) PROVE Exited(x)'
    <2>1. ThreadsOf(x) \subseteq Threads
      BY DEF Threads
    <2>2. QED
      BY <1>1, <2>1, ExitedStays DEF Exited
  <1>2. "InputServer" \in Tasks /\ "OutputServer" \in Tasks
    BY DEF Tasks
  <1>3. CASE UNCHANGED phase
    BY <1>1, <1>2, <1>3 DEF JoinedInv
  <1>4. CASE Signal \/ Main
    BY <1>1, <1>2, <1>4
       DEF JoinedInv, Main, Signal, StopInputServer, StopInput, JoinInput, JoinImport,
           StopOutputServer, StopOutput, JoinOutput, JoinExport, StopProcessor, JoinProcessor,
           MainGoesTo
  <1>5. QED
    BY <1>3, <1>4
       DEF Next, Work, Admit, Throttle, Drop, Poll, Insert, Skip, importMessages, importNothing,
           Process, Export, Fetch, Deliver, Abandon, Exit, Receive, mainVars, vars

-----------------------------------------------------------------------------
(* One spot *)

\* A message that the step does not touch stays where it is.
LEMMA Stays ==
    ASSUME NEW m, NEW o, One(m, o), m \in arrived' <=> m \in arrived,
           \A x \in Spots : In(m, o, x)' <=> In(m, o, x)
    PROVE  One(m, o)'
  BY DEF One

\* A message that leaves spot x for spot y is in no other spot afterwards.
LEMMA Moves ==
    ASSUME NEW m, NEW o, One(m, o), m \in arrived' <=> m \in arrived,
           NEW x \in Spots, NEW y \in Spots, In(m, o, x), In(m, o, y)',
           \A z \in Spots : In(m, o, z)' => z = y \/ (z # x /\ In(m, o, z))
    PROVE  One(m, o)'
  BY DEF One

\* The three kinds of spot.
LEMMA SpotKinds ==
    /\ \A q \in Queues : <<"queue", q>> \in Spots
    /\ \A t \in Threads : <<"thread", t>> \in Spots
    /\ \A f \in {"delivered", "lost", "abandoned"} : <<"fate", f>> \in Spots
    /\ \A x \in Spots :
          \/ \E q \in Queues : x = <<"queue", q>>
          \/ \E t \in Threads : x = <<"thread", t>>
          \/ \E f \in {"delivered", "lost", "abandoned"} : x = <<"fate", f>>
  BY DEF Spots

\* On the way to o, the step leaves m alone in the queues outside Q, the threads
\* outside T and the fates outside F.
LeavesAlone(m, o, Q, T, F) ==
    /\ m \in arrived' <=> m \in arrived
    /\ \A q \in Queues \ Q : q \notin Outputs \ {o} => (m \in queue'[q] <=> m \in queue[q])
    /\ \A t \in Threads \ T : Holds(t, m, o)' <=> Holds(t, m, o)
    /\ "delivered" \notin F => (m \in delivered'[o] <=> m \in delivered[o])
    /\ "lost" \notin F => (m \in lost'[o] <=> m \in lost[o])
    /\ "abandoned" \notin F => (m \in abandoned'[o] <=> m \in abandoned[o])

\* The spots the step leaves alone.
LEMMA AloneSpots ==
    ASSUME NEW m, NEW o, NEW Q, NEW T, NEW F, LeavesAlone(m, o, Q, T, F)
    PROVE  \A x \in Spots :
              \/ In(m, o, x)' <=> In(m, o, x)
              \/ \E q \in Queues \cap Q : x = <<"queue", q>>
              \/ \E t \in Threads \cap T : x = <<"thread", t>>
              \/ \E f \in F : x = <<"fate", f>>
  <1> SUFFICES ASSUME NEW x \in Spots
               PROVE  \/ In(m, o, x)' <=> In(m, o, x)
                      \/ \E q \in Queues \cap Q : x = <<"queue", q>>
                      \/ \E t \in Threads \cap T : x = <<"thread", t>>
                      \/ \E f \in F : x = <<"fate", f>>
    OBVIOUS
  <1>1. CASE \E q \in Queues : x = <<"queue", q>>
    BY <1>1 DEF In, LeavesAlone
  <1>2. CASE \E t \in Threads : x = <<"thread", t>>
    BY <1>2 DEF In, LeavesAlone
  <1>3. CASE \E f \in {"delivered", "lost", "abandoned"} : x = <<"fate", f>>
    BY <1>3 DEF In, LeavesAlone
  <1>4. QED
    BY <1>1, <1>2, <1>3, SpotKinds

\* A message the step leaves alone everywhere.
LEMMA Untouched ==
    ASSUME NEW m, NEW o, One(m, o), LeavesAlone(m, o, {}, {}, {})
    PROVE  One(m, o)'
  <1>1. \A x \in Spots : In(m, o, x)' <=> In(m, o, x)
    BY AloneSpots
  <1>2. QED
    BY <1>1, Stays DEF LeavesAlone

\* A thread has taken the message out of a queue.
LEMMA QueueToThread ==
    ASSUME NEW m, NEW o, One(m, o), NEW q \in Queues, NEW t \in Threads,
           LeavesAlone(m, o, {q}, {t}, {}),
           q \notin Outputs \ {o}, m \in queue[q], m \notin queue'[q], Holds(t, m, o)'
    PROVE  One(m, o)'
  <1> DEFINE x == <<"queue", q>>
             y == <<"thread", t>>
  <1>1. x \in Spots /\ y \in Spots
    BY SpotKinds
  <1>2. In(m, o, x) /\ ~In(m, o, x)' /\ In(m, o, y)'
    BY DEF In
  <1>3. \A z \in Spots : (In(m, o, z)' <=> In(m, o, z)) \/ z = x \/ z = y
    BY AloneSpots
  <1>4. QED
    BY <1>1, <1>2, <1>3, Moves DEF LeavesAlone

\* What is taken out of a queue and given up at once.
LEMMA QueueToFate ==
    ASSUME NEW m, NEW o, One(m, o), NEW q \in Queues,
           LeavesAlone(m, o, {q}, {}, {"lost"}),
           q \notin Outputs \ {o}, m \in queue[q], m \notin queue'[q], m \in lost'[o]
    PROVE  One(m, o)'
  <1> DEFINE x == <<"queue", q>>
             y == <<"fate", "lost">>
  <1>1. x \in Spots /\ y \in Spots
    BY SpotKinds
  <1>2. In(m, o, x) /\ ~In(m, o, x)' /\ In(m, o, y)'
    BY DEF In
  <1>3. \A z \in Spots : (In(m, o, z)' <=> In(m, o, z)) \/ z = x \/ z = y
    BY AloneSpots
  <1>4. QED
    BY <1>1, <1>2, <1>3, Moves DEF LeavesAlone

\* A thread has put the message it held into a queue.
LEMMA ThreadToQueue ==
    ASSUME NEW m, NEW o, One(m, o), NEW q \in Queues, NEW t \in Threads,
           LeavesAlone(m, o, {q}, {t}, {}),
           q \notin Outputs \ {o}, m \in queue'[q], Holds(t, m, o), ~Holds(t, m, o)'
    PROVE  One(m, o)'
  <1> DEFINE x == <<"thread", t>>
             y == <<"queue", q>>
  <1>1. x \in Spots /\ y \in Spots
    BY SpotKinds
  <1>2. In(m, o, x) /\ ~In(m, o, x)' /\ In(m, o, y)'
    BY DEF In
  <1>3. \A z \in Spots : (In(m, o, z)' <=> In(m, o, z)) \/ z = x \/ z = y
    BY AloneSpots
  <1>4. QED
    BY <1>1, <1>2, <1>3, Moves DEF LeavesAlone

\* A thread has written the message it held, or given it up.
LEMMA ThreadToFate ==
    ASSUME NEW m, NEW o, One(m, o), NEW t \in Threads,
           NEW f \in {"delivered", "lost", "abandoned"}, LeavesAlone(m, o, {}, {t}, {f}),
           Holds(t, m, o), ~Holds(t, m, o)',
           f = "delivered" => m \in delivered'[o],
           f = "lost" => m \in lost'[o],
           f = "abandoned" => m \in abandoned'[o]
    PROVE  One(m, o)'
  <1> DEFINE x == <<"thread", t>>
             y == <<"fate", f>>
  <1>1. x \in Spots /\ y \in Spots
    BY SpotKinds
  <1>2. In(m, o, x) /\ ~In(m, o, x)' /\ In(m, o, y)'
    BY DEF In
  <1>3. \A z \in Spots : (In(m, o, z)' <=> In(m, o, z)) \/ z = x \/ z = y
    BY AloneSpots
  <1>4. QED
    BY <1>1, <1>2, <1>3, Moves DEF LeavesAlone

\* Whether a thread holds a message depends on its own batch and place only.
LEMMA HoldsSame ==
    ASSUME NEW m, NEW o, NEW t, hand'[t] = hand[t], at'[t] = at[t]
    PROVE  Holds(t, m, o)' <=> Holds(t, m, o)
  BY DEF Holds

\* An export thread that has been to an output no longer holds the batch for it,
\* and holds it for the later ones as before.
LEMMA ExportGoesOn ==
    ASSUME TypeOK, NEW t \in Threads, t[1] = "OutputServer", PushReturns(t),
           NEW m, NEW o \in Outputs
    PROVE  /\ o = OutputSeq[at[t]] => ~Holds(t, m, o)' /\ (Holds(t, m, o) <=> m \in hand[t])
           /\ o # OutputSeq[at[t]] => (Holds(t, m, o)' <=> Holds(t, m, o))
  <1>1. /\ at[t] \in 1..Len(OutputSeq)
        /\ Index(OutputSeq[at[t]]) = at[t]
        /\ Index(o) \in 1..Len(OutputSeq)
        /\ OutputSeq[Index(o)] = o
        /\ Len(OutputSeq) \in Nat
    BY TargetOf, Lists
  <1>2. IF at[t] < Len(OutputSeq)
        THEN hand'[t] = hand[t] /\ at'[t] = at[t] + 1
        ELSE hand'[t] = {} /\ at[t] = Len(OutputSeq)
    BY PushReturnsEffect
  <1>3. t[1] \notin Outputs
    BY Names
  <1>4. QED
    BY <1>1, <1>2, <1>3 DEF Holds

\* A receiving input thread takes the message into one spot.
LEMMA OneReceive ==
    ASSUME TypeOK, LoopsInv, OneSpot, NEW t \in Threads, NEW r \in Msgs, Receive(t, r),
           NEW m \in Msgs, NEW o \in Outputs
    PROVE  One(m, o)'
  <1>1. /\ t[1] \notin Outputs /\ t[1] # "OutputServer" /\ hand[t] = {} /\ r \notin arrived
        /\ arrived' = arrived \cup {r}
        /\ hand'[t] = {r}
        /\ \A u \in Threads : u # t => hand'[u] = hand[u] /\ at'[u] = at[u]
        /\ UNCHANGED <<queue, delivered, lost, abandoned>>
    BY MsgsAssumption, Names DEF Receive, TypeOK, LoopsInv
  <1>2. One(m, o)
    BY DEF OneSpot
  <1>3. \A u \in Threads : u # t => (Holds(u, m, o)' <=> Holds(u, m, o))
    BY <1>1, HoldsSame
  <1>4. CASE m # r
    <2>1. ~Holds(t, m, o) /\ ~Holds(t, m, o)'
      BY <1>1, <1>4 DEF Holds
    <2>2. LeavesAlone(m, o, {}, {}, {})
      BY <1>1, <1>3, <1>4, <2>1 DEF LeavesAlone
    <2>3. QED
      BY <1>2, <2>2, Untouched
  <1>5. CASE m = r
    <2>1. \A x \in Spots : ~In(m, o, x)
      BY <1>1, <1>2, <1>5 DEF One
    <2>2. Holds(t, m, o)'
      BY <1>1, <1>5 DEF Holds
    <2>3. In(m, o, <<"thread", t>>)' /\ <<"thread", t>> \in Spots
      BY <2>2, SpotKinds DEF In
    <2>4. \A x \in Spots : x # <<"thread", t>> => ~In(m, o, x)'
      <3> SUFFICES ASSUME NEW x \in Spots, x # <<"thread", t>> PROVE In(m, o, x)' <=> In(m, o, x)
        BY <2>1
      <3>1. CASE \E u \in Threads : x = <<"thread", u>>
        BY <1>3, <3>1 DEF In
      <3>2. CASE \A u \in Threads : x # <<"thread", u>>
        BY <1>1, <3>2, SpotKinds DEF In
      <3>3. QED
        BY <3>1, <3>2
    <2>5. QED
      BY <1>1, <1>5, <2>3, <2>4 DEF One
  <1>6. QED
    BY <1>4, <1>5

\* Thread t, which is no output's, takes bulk S out of queue q; G of it is given
\* up, the rest it holds.
Takes(t, q, S, G) ==
    /\ hand[t] = {} /\ t[1] \notin Outputs /\ (t[1] = "OutputServer" => at'[t] = 1)
    /\ q \in Queues /\ q \notin Outputs /\ S \subseteq queue[q]
    /\ queue' = [queue EXCEPT ![q] = @ \ S]
    /\ \A o \in Outputs : lost'[o] = lost[o] \cup (S \cap G)
    /\ hand'[t] = S \ G
    /\ \A u \in Threads : u # t => hand'[u] = hand[u] /\ at'[u] = at[u]
    /\ UNCHANGED <<arrived, delivered, abandoned>>

\* Taking a bulk keeps every message of it, and every other one, in one spot.
LEMMA OneTake ==
    ASSUME TypeOK, OneSpot, NEW t \in Threads, NEW q, NEW S, NEW G, Takes(t, q, S, G),
           NEW m \in Msgs, NEW o \in Outputs
    PROVE  One(m, o)'
  <1> USE DEF Takes
  <1>1. One(m, o)
    BY DEF OneSpot
  <1>2. \A u \in Threads : u # t => (Holds(u, m, o)' <=> Holds(u, m, o))
    BY HoldsSame
  <1>3. ~Holds(t, m, o) /\ (Holds(t, m, o)' <=> m \in S \ G)
    <2>1. Index(o) >= 1
      BY Lists
    <2>2. QED
      BY <2>1 DEF Holds
  <1>4. \A p \in Queues : queue'[p] = IF p = q THEN queue[q] \ S ELSE queue[p]
    BY DEF TypeOK
  <1>5. CASE m \notin S
    <2>1. LeavesAlone(m, o, {}, {}, {})
      BY <1>2, <1>3, <1>4, <1>5 DEF LeavesAlone
    <2>2. QED
      BY <1>1, <2>1, Untouched
  <1>6. CASE m \in S \cap G
    <2>1. LeavesAlone(m, o, {q}, {}, {"lost"})
      BY <1>2, <1>3, <1>4, <1>6 DEF LeavesAlone
    <2>2. m \in queue[q] /\ m \notin queue'[q] /\ m \in lost'[o] /\ q \notin Outputs \ {o}
      BY <1>4, <1>6
    <2>3. QED
      BY <1>1, <2>1, <2>2, QueueToFate
  <1>7. CASE m \in S \ G
    <2>1. LeavesAlone(m, o, {q}, {t}, {})
      BY <1>2, <1>4, <1>7 DEF LeavesAlone
    <2>2. m \in queue[q] /\ m \notin queue'[q] /\ Holds(t, m, o)' /\ q \notin Outputs \ {o}
      BY <1>3, <1>4, <1>7
    <2>3. QED
      BY <1>1, <2>1, <2>2, QueueToThread
  <1>8. QED
    BY <1>5, <1>6, <1>7

\* Import, processor and export threads take bulks.
LEMMA OneDequeue ==
    ASSUME TypeOK, LoopsInv, OneSpot, NEW t \in Threads,
           importMessages(t) \/ Process(t) \/ Export(t),
           NEW m \in Msgs, NEW o \in Outputs
    PROVE  One(m, o)'
  <1>0. hand[t] = {} /\ UNCHANGED <<arrived, delivered, abandoned>>
    BY DEF importMessages, Process, Export, LoopsInv, fateVars
  <1>1. CASE importMessages(t)
    <2> DEFINE q == InputSeq[at[t]]
    <2>1. q \in Queues /\ q \notin Outputs /\ t[1] = "InputServer" /\ t[1] \notin Outputs
      BY <1>1, Lists, RoundsOf, Names DEF importMessages, TypeOK
    <2>2. PICK S \in Bulks(q) :
            /\ queue' = [queue EXCEPT ![q] = @ \ S]
            /\ GiveUp(S \cap Malformed)
            /\ IF S \subseteq Malformed
               THEN PushReturns(t)
               ELSE /\ hand' = [hand EXCEPT ![t] = S \ Malformed]
                    /\ UNCHANGED at
      BY <1>1 DEF importMessages
    <2>3. S \in SUBSET queue[q] /\ S \in SUBSET Msgs
      BY <2>1 DEF Bulks, TypeOK
    <2>4. \A p \in Outputs : lost'[p] = lost[p] \cup (S \cap Malformed)
      BY <2>2, <2>3, GiveUpEffect
    <2>5. /\ hand'[t] = S \ Malformed
          /\ \A u \in Threads : u # t => hand'[u] = hand[u] /\ at'[u] = at[u]
      BY <2>1, <2>2, PushReturnsEffect DEF TypeOK
    <2>6. Takes(t, q, S, Malformed)
      BY <1>0, <2>1, <2>2, <2>3, <2>4, <2>5 DEF Takes
    <2>7. QED
      BY <2>6, OneTake
  <1>2. CASE Process(t)
    <2>1. t[1] # "OutputServer" /\ t[1] \notin Outputs
      BY <1>2, Names DEF Process
    <2>2. PICK S \in Bulks("ProcessorMachine") :
            /\ queue' = [queue EXCEPT !["ProcessorMachine"] = @ \ S]
            /\ GiveUp(S \cap Filtered)
            /\ hand' = [hand EXCEPT ![t] = S \ Filtered]
      BY <1>2 DEF Process
    <2>3. S \in SUBSET queue["ProcessorMachine"] /\ S \in SUBSET Msgs
      BY Names DEF Bulks, TypeOK
    <2>4. \A p \in Outputs : lost'[p] = lost[p] \cup (S \cap Filtered)
      BY <2>2, <2>3, GiveUpEffect
    <2>5. /\ hand'[t] = S \ Filtered
          /\ \A u \in Threads : u # t => hand'[u] = hand[u] /\ at'[u] = at[u]
      BY <1>2, <2>2 DEF TypeOK, Process
    <2>6. "ProcessorMachine" \in Queues /\ "ProcessorMachine" \notin Outputs
      BY Names
    <2>7. Takes(t, "ProcessorMachine", S, Filtered)
      BY <1>0, <2>1, <2>2, <2>3, <2>4, <2>5, <2>6 DEF Takes
    <2>8. QED
      BY <2>7, OneTake
  <1>3. CASE Export(t)
    <2>1. t[1] = "OutputServer" /\ t[1] \notin Outputs /\ at'[t] = 1
      BY <1>3, Names DEF Export, LoopsInv
    <2>2. PICK S \in Bulks("MainMessageQueue") :
            /\ queue' = [queue EXCEPT !["MainMessageQueue"] = @ \ S]
            /\ hand' = [hand EXCEPT ![t] = S]
      BY <1>3 DEF Export
    <2>3. S \in SUBSET queue["MainMessageQueue"]
      BY Names DEF Bulks
    <2>4. \A p \in Outputs : lost'[p] = lost[p] \cup (S \cap {})
      BY <1>3 DEF Export, fateVars
    <2>5. /\ hand'[t] = S \ {}
          /\ \A u \in Threads : u # t => hand'[u] = hand[u] /\ at'[u] = at[u]
      BY <1>3, <2>2 DEF TypeOK, Export
    <2>6. "MainMessageQueue" \in Queues /\ "MainMessageQueue" \notin Outputs
      BY Names
    <2>7. Takes(t, "MainMessageQueue", S, {})
      BY <1>0, <2>1, <2>2, <2>3, <2>4, <2>5, <2>6 DEF Takes
    <2>8. QED
      BY <2>7, OneTake
  <1>4. QED
    BY <1>1, <1>2, <1>3

\* An output thread takes a bulk; this is nothing to the other outputs.
LEMMA OneFetch ==
    ASSUME TypeOK, LoopsInv, OneSpot, NEW t \in Threads, Fetch(t),
           NEW m \in Msgs, NEW o \in Outputs
    PROVE  One(m, o)'
  <1>1. PICK S \in Bulks(t[1]) :
            /\ queue' = [queue EXCEPT ![t[1]] = @ \ S]
            /\ hand' = [hand EXCEPT ![t] = S]
    BY DEF Fetch
  <1>2. /\ t[1] \in Outputs /\ t[1] \in Queues /\ t[1] # "OutputServer"
        /\ hand[t] = {}
        /\ UNCHANGED <<at, arrived, delivered, lost, abandoned>>
    BY Names DEF Fetch, LoopsInv, fateVars
  <1>3. One(m, o)
    BY DEF OneSpot
  <1>4. \A u \in Threads : u # t => (Holds(u, m, o)' <=> Holds(u, m, o))
    BY <1>1, <1>2, HoldsSame DEF TypeOK
  <1>5. ~Holds(t, m, o) /\ (Holds(t, m, o)' <=> o = t[1] /\ m \in S)
    BY <1>1, <1>2 DEF Holds, TypeOK
  <1>6. \A p \in Queues : queue'[p] = IF p = t[1] THEN queue[p] \ S ELSE queue[p]
    BY <1>1 DEF TypeOK
  <1>7. CASE o = t[1] /\ m \in S
    <2>1. LeavesAlone(m, o, {t[1]}, {t}, {})
      BY <1>2, <1>4, <1>6 DEF LeavesAlone
    <2>2. m \in queue[t[1]] /\ m \notin queue'[t[1]] /\ t[1] \notin Outputs \ {o}
      BY <1>2, <1>6, <1>7 DEF Bulks
    <2>3. QED
      BY <1>2, <1>3, <1>5, <1>7, <2>1, <2>2, QueueToThread
  <1>8. CASE ~(o = t[1] /\ m \in S)
    <2>1. LeavesAlone(m, o, {}, {}, {})
      BY <1>2, <1>4, <1>5, <1>6, <1>8 DEF LeavesAlone
    <2>2. QED
      BY <1>3, <2>1, Untouched
  <1>9. QED
    BY <1>7, <1>8

\* The batch of an output thread is written, apart from a part S given up.
LEMMA OneSend ==
    ASSUME TypeOK, LoopsInv, OneSpot, NEW t \in Threads, Deliver(t) \/ Abandon(t),
           NEW m \in Msgs, NEW o \in Outputs
    PROVE  One(m, o)'
  <1>1. PICK S \in SUBSET hand[t] :
            /\ \A p \in Outputs : abandoned'[p] = IF p = t[1] THEN abandoned[p] \cup S
                                                              ELSE abandoned[p]
            /\ \A p \in Outputs : delivered'[p] = IF p = t[1] THEN delivered[p] \cup (hand[t] \ S)
                                                              ELSE delivered[p]
    <2>1. CASE Deliver(t)
      <3>1. /\ \A p \in Outputs : abandoned'[p] = IF p = t[1] THEN abandoned[p] \cup {}
                                                              ELSE abandoned[p]
            /\ \A p \in Outputs : delivered'[p] = IF p = t[1] THEN delivered[p] \cup (hand[t] \ {})
                                                              ELSE delivered[p]
        BY <2>1 DEF Deliver, TypeOK
      <3>2. QED
        BY <3>1
    <2>2. CASE Abandon(t)
      BY <2>2 DEF Abandon, TypeOK
    <2>3. QED
      BY <2>1, <2>2
  <1>2. /\ t[1] \in Outputs /\ t[1] # "OutputServer"
        /\ hand'[t] = {}
        /\ \A u \in Threads : u # t => hand'[u] = hand[u] /\ at'[u] = at[u]
        /\ UNCHANGED <<queue, arrived, lost>>
    BY Names DEF Deliver, Abandon, LoopsInv, TypeOK
  <1>3. One(m, o)
    BY DEF OneSpot
  <1>4. \A u \in Threads : u # t => (Holds(u, m, o)' <=> Holds(u, m, o))
    BY <1>2, HoldsSame
  <1>5. ~Holds(t, m, o)' /\ (Holds(t, m, o) <=> o = t[1] /\ m \in hand[t])
    BY <1>2 DEF Holds
  <1>6. CASE o = t[1] /\ m \in S
    <2>1. LeavesAlone(m, o, {}, {t}, {"abandoned"})
      BY <1>1, <1>2, <1>4, <1>6 DEF LeavesAlone
    <2>2. m \in abandoned'[o] /\ Holds(t, m, o)
      BY <1>1, <1>5, <1>6
    <2>3. QED
      BY <1>3, <1>5, <2>1, <2>2, ThreadToFate
  <1>7. CASE o = t[1] /\ m \in hand[t] \ S
    <2>1. LeavesAlone(m, o, {}, {t}, {"delivered"})
      BY <1>1, <1>2, <1>4, <1>7 DEF LeavesAlone
    <2>2. m \in delivered'[o] /\ Holds(t, m, o)
      BY <1>1, <1>5, <1>7
    <2>3. QED
      BY <1>3, <1>5, <2>1, <2>2, ThreadToFate
  <1>8. CASE ~(o = t[1] /\ m \in hand[t])
    <2>1. LeavesAlone(m, o, {}, {}, {})
      BY <1>1, <1>2, <1>4, <1>5, <1>8 DEF LeavesAlone
    <2>2. QED
      BY <1>3, <2>1, Untouched
  <1>9. QED
    BY <1>6, <1>7, <1>8

\* A batch of an input, import or processor thread is dropped, inserted or empty.
LEMMA OnePush ==
    ASSUME TypeOK, LoopsInv, OneSpot, NEW t \in Threads, Drop(t) \/ Insert(t) \/ Skip(t),
           t[1] # "OutputServer", NEW m \in Msgs, NEW o \in Outputs
    PROVE  One(m, o)'
  <1>1. /\ t[1] \notin Outputs /\ PushReturns(t) /\ UNCHANGED <<arrived, delivered, abandoned>>
        /\ Portion(t) = hand[t]
    BY PortionOf DEF Drop, Insert, Skip, LoopsInv
  <1>2. /\ hand'[t] = {}
        /\ \A u \in Threads : u # t => hand'[u] = hand[u] /\ at'[u] = at[u]
    BY <1>1, PushReturnsEffect
  <1>3. One(m, o)
    BY DEF OneSpot
  <1>4. \A u \in Threads : u # t => (Holds(u, m, o)' <=> Holds(u, m, o))
    BY <1>2, HoldsSame
  <1>5. ~Holds(t, m, o)' /\ (Holds(t, m, o) <=> m \in hand[t])
    BY <1>1, <1>2 DEF Holds
  <1>6. CASE Drop(t)
    <2>1. queue' = queue /\ lost'[o] = lost[o] \cup hand[t]
      BY <1>6, GiveUpEffect DEF Drop, TypeOK
    <2>2. CASE m \in hand[t]
      <3>1. LeavesAlone(m, o, {}, {t}, {"lost"})
        BY <1>1, <1>4, <2>1 DEF LeavesAlone
      <3>2. m \in lost'[o] /\ Holds(t, m, o)
        BY <1>5, <2>1, <2>2
      <3>3. QED
        BY <1>3, <1>5, <3>1, <3>2, ThreadToFate
    <2>3. CASE m \notin hand[t]
      <3>1. LeavesAlone(m, o, {}, {}, {})
        BY <1>1, <1>4, <1>5, <2>1, <2>3 DEF LeavesAlone
      <3>2. QED
        BY <1>3, <3>1, Untouched
    <2>4. QED
      BY <2>2, <2>3
  <1>7. CASE Insert(t)
    <2>1. Target(t) \in Queues /\ Target(t) \notin Outputs
      BY <1>1, TargetOf, ThreadOfTask, Names DEF Tasks
    <2>2. /\ \A p \in Queues : queue'[p] = IF p = Target(t) THEN queue[p] \cup hand[t] ELSE queue[p]
          /\ lost' = lost
      BY <1>1, <1>7, LeftoverEffect DEF Insert, TypeOK
    <2>3. CASE m \in hand[t]
      <3>1. LeavesAlone(m, o, {Target(t)}, {t}, {})
        BY <1>1, <1>4, <2>2 DEF LeavesAlone
      <3>2. m \in queue'[Target(t)] /\ Holds(t, m, o) /\ Target(t) \notin Outputs \ {o}
        BY <1>5, <2>1, <2>2, <2>3
      <3>3. QED
        BY <1>3, <1>5, <2>1, <3>1, <3>2, ThreadToQueue
    <2>4. CASE m \notin hand[t]
      <3>1. LeavesAlone(m, o, {}, {}, {})
        BY <1>1, <1>4, <1>5, <2>2, <2>4 DEF LeavesAlone
      <3>2. QED
        BY <1>3, <3>1, Untouched
    <2>5. QED
      BY <2>3, <2>4
  <1>8. CASE Skip(t)
    <2>1. hand[t] = {} /\ queue' = queue /\ lost' = lost
      BY <1>1, <1>8, LeftoverEffect DEF Skip
    <2>2. LeavesAlone(m, o, {}, {}, {})
      BY <1>1, <1>4, <1>5, <2>1 DEF LeavesAlone
    <2>3. QED
      BY <1>3, <2>2, Untouched
  <1>9. QED
    BY <1>6, <1>7, <1>8

\* An export thread has been to the output it came to.
LEMMA OneExport ==
    ASSUME TypeOK, LoopsInv, OneSpot, NEW t \in Threads, Drop(t) \/ Insert(t) \/ Skip(t),
           t[1] = "OutputServer", NEW m \in Msgs, NEW o \in Outputs
    PROVE  One(m, o)'
  <1>0. ~Drop(t)
    BY TargetOf, Names DEF Drop, DropsWhenFull
  <1>1. PushReturns(t) /\ UNCHANGED <<arrived, delivered, abandoned>> /\ lost' = Leftover(t)
    BY <1>0 DEF Insert, Skip
  <1>2. \A u \in Threads : u # t => hand'[u] = hand[u] /\ at'[u] = at[u]
    BY <1>1, PushReturnsEffect
  <1>3. One(m, o)
    BY DEF OneSpot
  <1>4. \A u \in Threads : u # t => (Holds(u, m, o)' <=> Holds(u, m, o))
    BY <1>2, HoldsSame
  <1> DEFINE out == OutputSeq[at[t]]
  <1>5. /\ out \in Outputs /\ out \in Queues /\ out = Target(t)
        /\ o = out => ~Holds(t, m, o)' /\ (Holds(t, m, o) <=> m \in hand[t])
        /\ o # out => (Holds(t, m, o)' <=> Holds(t, m, o))
    BY <1>1, TargetOf, ExportGoesOn
  <1>6. /\ \A p \in Queues : queue'[p] = IF p = out THEN queue[p] \cup Portion(t) ELSE queue[p]
        /\ Portion(t) \subseteq hand[t]
    BY <1>0, <1>5, PortionOf DEF Insert, Skip, TypeOK
  <1>7. lost'[o] = IF o = out THEN lost[o] \cup (hand[t] \ Portion(t)) ELSE lost[o]
    BY <1>1, LeftoverEffect
  <1> HIDE DEF out
  <1>8. CASE o # out \/ m \notin hand[t]
    <2>1. Holds(t, m, o)' <=> Holds(t, m, o)
      BY <1>5, <1>8
    <2>2. LeavesAlone(m, o, {}, {}, {})
      BY <1>1, <1>4, <1>5, <1>6, <1>7, <1>8, <2>1 DEF LeavesAlone
    <2>3. QED
      BY <1>3, <2>2, Untouched
  <1>9. CASE o = out /\ m \in Portion(t)
    <2>1. LeavesAlone(m, o, {out}, {t}, {})
      BY <1>1, <1>4, <1>6, <1>7, <1>9 DEF LeavesAlone
    <2>2. m \in queue'[out] /\ Holds(t, m, o) /\ ~Holds(t, m, o)' /\ out \notin Outputs \ {o}
      BY <1>5, <1>6, <1>9
    <2>3. QED
      BY <1>3, <1>5, <2>1, <2>2, ThreadToQueue
  <1>10. CASE o = out /\ m \in hand[t] \ Portion(t)
    <2>1. LeavesAlone(m, o, {}, {t}, {"lost"})
      BY <1>1, <1>4, <1>6, <1>7, <1>10 DEF LeavesAlone
    <2>2. m \in lost'[o] /\ Holds(t, m, o) /\ ~Holds(t, m, o)'
      BY <1>5, <1>7, <1>10
    <2>3. QED
      BY <1>3, <2>1, <2>2, ThreadToFate
  <1>11. QED
    BY <1>8, <1>9, <1>10

\* Every step keeps every message in one spot.
LEMMA OneStep == TypeOK /\ LoopsInv /\ OneSpot /\ [Next]_vars => OneSpot'
  <1> SUFFICES ASSUME TypeOK, LoopsInv, OneSpot, [Next]_vars, NEW m \in Msgs, NEW o \in Outputs
               PROVE  One(m, o)'
    BY DEF OneSpot
  <1>1. ASSUME NEW t \in Threads, Drop(t) \/ Insert(t) \/ Skip(t) PROVE One(m, o)'
    BY <1>1, OnePush, OneExport
  <1>2. ASSUME NEW t \in Threads, importMessages(t) \/ Process(t) \/ Export(t) PROVE One(m, o)'
    BY <1>2, OneDequeue
  <1>3. ASSUME NEW t \in Threads, Fetch(t) PROVE One(m, o)'
    BY <1>3, OneFetch
  <1>4. ASSUME NEW t \in Threads, Deliver(t) \/ Abandon(t) PROVE One(m, o)'
    BY <1>4, OneSend
  <1>5. ASSUME NEW t \in Threads, NEW r \in Msgs, Receive(t, r) PROVE One(m, o)'
    BY <1>5, OneReceive
  <1>6. ASSUME UNCHANGED <<queue, arrived, delivered, lost, abandoned>>,
               \A u \in Threads : Holds(u, m, o)' <=> Holds(u, m, o)
        PROVE  One(m, o)'
    BY <1>6, Untouched DEF OneSpot, LeavesAlone
  <1>7. ASSUME NEW t \in Threads, importNothing(t) PROVE One(m, o)'
    <2>1. hand[t] = {} /\ hand'[t] = {}
      BY <1>7, PushReturnsEffect DEF importNothing, LoopsInv
    <2>2. \A u \in Threads : Holds(u, m, o)' <=> Holds(u, m, o)
      BY <1>7, <2>1, PushReturnsEffect DEF importNothing, Holds
    <2>3. QED
      BY <1>6, <1>7, <2>2 DEF importNothing, fateVars
  <1>8. CASE UNCHANGED <<queue, hand, at, arrived, delivered, lost, abandoned>>
    <2>1. \A u \in Threads : Holds(u, m, o)' <=> Holds(u, m, o)
      BY <1>8 DEF Holds
    <2>2. QED
      BY <1>6, <1>8, <2>1
  <1>9. QED
    BY <1>1, <1>2, <1>3, <1>4, <1>5, <1>7, <1>8
       DEF Next, Work, Admit, Throttle, Poll, Exit, Main, Signal, StopInputServer, StopInput,
           JoinInput, JoinImport, StopOutputServer, StopOutput, JoinOutput, JoinExport,
           StopProcessor, JoinProcessor, MainGoesTo, threadVars, fateVars, vars

\* One spot is one place: of the three sets that Copies counts one has one element
\* and the others have none.
LEMMA SpotIsPlace == OneSpot => OnePlace
  <1> SUFFICES ASSUME OneSpot, NEW m \in Msgs, NEW o \in Outputs
               PROVE  Copies(m, o) = IF m \in arrived THEN 1 ELSE 0
    BY DEF OnePlace
  <1> DEFINE Q == {q \in Queues \ (Outputs \ {o}) : m \in queue[q]}
             T == {t \in Threads : Holds(t, m, o)}
             H == {<<"d", delivered>>, <<"l", lost>>, <<"a", abandoned>>}
             F == {f \in H : m \in f[2][o]}
  <1>0. Cardinality({}) = 0 /\ \A x : Cardinality({x}) = 1
    BY FS_EmptySet, FS_Singleton
  <1>1. Copies(m, o) = Cardinality(Q) + Cardinality(T) + Cardinality(F)
    BY DEF Copies
  <1>2. One(m, o)
    BY DEF OneSpot
  <1>3. /\ \A q \in Q : <<"queue", q>> \in Spots /\ In(m, o, <<"queue", q>>)
        /\ \A t \in T : <<"thread", t>> \in Spots /\ In(m, o, <<"thread", t>>)
    BY SpotKinds DEF In
  <1>4. /\ <<"d", delivered>> \in F => In(m, o, <<"fate", "delivered">>)
        /\ <<"l", lost>> \in F => In(m, o, <<"fate", "lost">>)
        /\ <<"a", abandoned>> \in F => In(m, o, <<"fate", "abandoned">>)
    BY DEF In
  <1>5. \A f \in F : f = <<"d", delivered>> \/ f = <<"l", lost>> \/ f = <<"a", abandoned>>
    OBVIOUS
  <1>6. \A f \in {"delivered", "lost", "abandoned"} : <<"fate", f>> \in Spots
    BY SpotKinds
  <1> HIDE DEF Q, T, F
  <1>7. CASE m \notin arrived
    <2>1. \A x \in Spots : ~In(m, o, x)
      BY <1>2, <1>7 DEF One
    <2>2. Q = {} /\ T = {}
      BY <1>3, <2>1
    <2>3. F = {}
      BY <1>4, <1>5, <1>6, <2>1
    <2>4. QED
      BY <1>0, <1>1, <1>7, <2>2, <2>3
  <1>8. CASE m \in arrived
    <2>1. PICK x \in Spots : In(m, o, x)
      BY <1>2, <1>8 DEF One
    <2>2. \A y \in Spots : In(m, o, y) => y = x
      BY <1>2, <2>1 DEF One
    <2>3. CASE \E q \in Queues : x = <<"queue", q>>
      <3>1. PICK q \in Queues : x = <<"queue", q>>
        BY <2>3
      <3>2. q \in Q
        BY <2>1, <3>1 DEF In, Q
      <3>3. Q = {q}
        BY <1>3, <2>2, <3>1, <3>2
      <3>4. T = {}
        BY <1>3, <2>2, <3>1
      <3>5. F = {}
        BY <1>4, <1>5, <1>6, <2>2, <3>1
      <3>6. Cardinality(Q) = 1 /\ Cardinality(T) = 0 /\ Cardinality(F) = 0
        BY <1>0, <3>3, <3>4, <3>5, Zenon
      <3>7. QED
        BY <1>1, <1>8, <3>6
    <2>4. CASE \E t \in Threads : x = <<"thread", t>>
      <3>1. PICK t \in Threads : x = <<"thread", t>>
        BY <2>4
      <3>2. t \in T
        BY <2>1, <3>1 DEF In, T
      <3>3. T = {t}
        BY <1>3, <2>2, <3>1, <3>2
      <3>4. Q = {}
        BY <1>3, <2>2, <3>1
      <3>5. F = {}
        BY <1>4, <1>5, <1>6, <2>2, <3>1
      <3>6. Cardinality(Q) = 0 /\ Cardinality(T) = 1 /\ Cardinality(F) = 0
        BY <1>0, <3>3, <3>4, <3>5, Zenon
      <3>7. QED
        BY <1>1, <1>8, <3>6
    <2>5. CASE \E f \in {"delivered", "lost", "abandoned"} : x = <<"fate", f>>
      <3>1. Q = {} /\ T = {}
        <4>1. PICK f \in {"delivered", "lost", "abandoned"} : x = <<"fate", f>>
          BY <2>5
        <4>2. \A v : <<"queue", v>> # x /\ <<"thread", v>> # x
          BY <4>1
        <4>3. QED
          BY <1>3, <2>2, <4>2, Zenon
      <3>2. \E f : F = {f}
        <4>1. CASE x = <<"fate", "delivered">>
          <5>1. <<"d", delivered>> \in F
            BY <2>1, <4>1 DEF In, F
          <5>2. <<"l", lost>> \notin F /\ <<"a", abandoned>> \notin F
            BY <1>4, <1>6, <2>2, <4>1
          <5>3. F = {<<"d", delivered>>}
            BY <1>5, <5>1, <5>2
          <5>4. QED
            BY <5>3
        <4>2. CASE x = <<"fate", "lost">>
          <5>1. <<"l", lost>> \in F
            BY <2>1, <4>2 DEF In, F
          <5>2. <<"d", delivered>> \notin F /\ <<"a", abandoned>> \notin F
            BY <1>4, <1>6, <2>2, <4>2
          <5>3. F = {<<"l", lost>>}
            BY <1>5, <5>1, <5>2
          <5>4. QED
            BY <5>3
        <4>3. CASE x = <<"fate", "abandoned">>
          <5>1. <<"a", abandoned>> \in F
            BY <2>1, <4>3 DEF In, F
          <5>2. <<"d", delivered>> \notin F /\ <<"l", lost>> \notin F
            BY <1>4, <1>6, <2>2, <4>3
          <5>3. F = {<<"a", abandoned>>}
            BY <1>5, <5>1, <5>2
          <5>4. QED
            BY <5>3
        <4>4. QED
          BY <2>5, <4>1, <4>2, <4>3
      <3>3. QED
        <4>1. Cardinality(Q) = 0 /\ Cardinality(T) = 0 /\ Cardinality(F) = 1
          BY <1>0, <3>1, <3>2, Zenon
        <4>2. QED
          BY <1>1, <1>8, <4>1
    <2>6. QED
      BY <2>3, <2>4, <2>5, SpotKinds
  <1>9. QED
    BY <1>7, <1>8

-----------------------------------------------------------------------------
(* Steps of the shutdown *)

\* A queue grows only by a thread that inserts into it.
LEMMA OnlyInsertGrows ==
    ASSUME TypeOK, LoopsInv, [Next]_vars, NEW q \in Queues, Grows(q)
    PROVE  \E t \in Threads : pc[t] = "insert" /\ Target(t) = q
  <1>1. ASSUME NEW t \in Threads, Insert(t) PROVE pc[t] = "insert" /\ Target(t) = q
    BY <1>1 DEF Insert, Grows, TypeOK
  <1>2. ASSUME NEW t \in Threads, importMessages(t) \/ Process(t) \/ Export(t) \/ Fetch(t)
        PROVE  FALSE
    <2>1. \E p, S : queue' = [queue EXCEPT ![p] = queue[p] \ S]
      BY <1>2 DEF importMessages, Process, Export, Fetch
    <2>2. QED
      BY <2>1 DEF Grows, TypeOK
  <1>3. queue' # queue
    BY DEF Grows
  <1>4. QED
    BY <1>1, <1>2, <1>3
       DEF Next, Work, Admit, Throttle, Drop, Poll, Skip, importNothing, Deliver, Abandon, Exit,
           Receive, Main, Signal, StopInputServer, StopInput, JoinInput, JoinImport,
           StopOutputServer, StopOutput, JoinOutput, JoinExport, StopProcessor, JoinProcessor,
           MainGoesTo, vars

\* The threads that fill the processor's queue and the outputs' queues.
LEMMA Fillers ==
    ASSUME TypeOK, LoopsInv, NEW t \in Threads, pc[t] = "insert"
    PROVE  /\ Target(t) = "ProcessorMachine" => t[1] = "InputServer"
           /\ Target(t) \in Outputs => t[1] = "OutputServer"
  <1>1. t[1] \in Tasks /\ t[1] \notin Outputs
    BY ThreadOfTask DEF LoopsInv
  <1>2. QED
    BY <1>1, TargetOf, Names DEF Tasks

\* A joined task puts nothing into a queue.
LEMMA QuietStep ==
    ASSUME IInv, [Next]_vars
    PROVE  /\ phase \in {"stop_outputs", "stop_output", "join_output", "join_export",
                         "stop_processor", "join_processor", "done"}
                 => ~Grows("ProcessorMachine")
           /\ phase \in {"stop_processor", "join_processor", "done"}
                 => \A o \in Outputs : ~Grows(o)
  <1>1. ASSUME NEW t \in Threads, NEW x, t[1] = x, Exited(x) PROVE pc[t] = "exited"
    BY <1>1, ThreadOfTask DEF Exited
  <1>2. ASSUME Exited("InputServer"), Grows("ProcessorMachine") PROVE FALSE
    BY <1>1, <1>2, OnlyInsertGrows, Fillers, Names DEF IInv
  <1>3. ASSUME Exited("OutputServer"), NEW o \in Outputs, Grows(o) PROVE FALSE
    BY <1>1, <1>3, OnlyInsertGrows, Fillers, Names DEF IInv
  <1>4. QED
    BY <1>2, <1>3 DEF IInv, JoinedInv

\* Only its consumers take anything out of a queue.
LEMMA OnlyConsumersTake ==
    ASSUME TypeOK, [Next]_vars, NEW q \in Queues, \A c \in Consumers(q) : pc[c] = "exited"
    PROVE  queue[q] \subseteq queue'[q]
  <1>1. ASSUME NEW t \in Threads, Insert(t) PROVE queue[q] \subseteq queue'[q]
    BY <1>1 DEF Insert, TypeOK
  <1>2. ASSUME NEW t \in Threads, importMessages(t) PROVE queue[q] \subseteq queue'[q]
    <2>1. InputSeq[at[t]] \in Inputs /\ t \in ThreadsOf("InputServer") /\ pc[t] = "loop"
      BY <1>2, Lists, RoundsOf, ThreadOfTask DEF importMessages, TypeOK
    <2>2. q # InputSeq[at[t]]
      BY <2>1, Names DEF Consumers
    <2>3. QED
      BY <1>2, <2>2 DEF importMessages, TypeOK
  <1>3. ASSUME NEW t \in Threads, Process(t) PROVE queue[q] \subseteq queue'[q]
    <2>1. t \in ThreadsOf("ProcessorMachine") /\ pc[t] = "loop"
      BY <1>3, ThreadOfTask DEF Process
    <2>2. q # "ProcessorMachine"
      BY <2>1, Names DEF Consumers
    <2>3. QED
      BY <1>3, <2>2 DEF Process, TypeOK
  <1>4. ASSUME NEW t \in Threads, Export(t) PROVE queue[q] \subseteq queue'[q]
    <2>1. t \in ThreadsOf("OutputServer") /\ pc[t] = "loop"
      BY <1>4, ThreadOfTask DEF Export
    <2>2. q # "MainMessageQueue"
      BY <2>1, Names DEF Consumers
    <2>3. QED
      BY <1>4, <2>2 DEF Export, TypeOK
  <1>5. ASSUME NEW t \in Threads, Fetch(t) PROVE queue[q] \subseteq queue'[q]
    <2>1. t \in ThreadsOf(t[1]) /\ t[1] \in Outputs /\ pc[t] = "loop"
      BY <1>5, ThreadOfTask DEF Fetch
    <2>2. q # t[1]
      BY <2>1, Names DEF Consumers
    <2>3. QED
      BY <1>5, <2>2 DEF Fetch, TypeOK
  <1>6. CASE UNCHANGED queue
    BY <1>6
  <1>7. QED
    BY <1>1, <1>2, <1>3, <1>4, <1>5, <1>6
       DEF Next, Work, Admit, Throttle, Drop, Poll, Skip, importNothing, Deliver, Abandon, Exit,
           Receive, Main, Signal, StopInputServer, StopInput, JoinInput, JoinImport,
           StopOutputServer, StopOutput, JoinOutput, JoinExport, StopProcessor, JoinProcessor,
           MainGoesTo, vars

\* A throttled thread whose queue is full waits where it is.
LEMMA ThrottledWaits ==
    ASSUME TypeOK, [Next]_vars, NEW t \in Threads, pc[t] = "throttle", Full(Target(t))
    PROVE  pc'[t] = "throttle" /\ at'[t] = at[t]
  <1>1. ~Work(t)
    BY DEF Work, Admit, Throttle, Drop, Poll, Insert, Skip, importMessages, importNothing,
           Process, Export, Fetch, Deliver, Abandon, Exit
  <1>2. ASSUME NEW u \in Threads, u # t, Work(u) PROVE pc'[t] = pc[t] /\ at'[t] = at[t]
    BY <1>2 DEF TypeOK, Work, Admit, Throttle, Drop, Poll, Insert, Skip, importMessages,
           importNothing, Process, Export, Fetch, Deliver, Abandon, Exit, PushReturns
  <1>3. ASSUME NEW u \in Threads, NEW m \in Msgs, Receive(u, m)
        PROVE  pc'[t] = pc[t] /\ at'[t] = at[t]
    BY <1>3 DEF TypeOK, Receive
  <1>4. CASE UNCHANGED threadVars
    BY <1>4 DEF threadVars
  <1>5. QED
    BY <1>1, <1>2, <1>3, <1>4
       DEF Next, Main, Signal, StopInputServer, StopInput, JoinInput, JoinImport,
           StopOutputServer, StopOutput, JoinOutput, JoinExport, StopProcessor, JoinProcessor,
           MainGoesTo, vars

\* A wedged thread stays wedged.
LEMMA WedgedStep ==
    ASSUME IInv, IInv', [Next]_vars, Wedged
    PROVE  Wedged'
  <1>0. TypeOK
    BY DEF IInv
  <1>1. PICK t \in Threads :
            /\ pc[t] = "throttle"
            /\ Full(Target(t))
            /\ \A c \in Consumers(Target(t)) : pc[c] = "exited"
    BY DEF Wedged
  <1> DEFINE q == Target(t)
  <1>2. q \in Queues
    BY <1>0, TargetOf
  <1>3. pc'[t] = "throttle" /\ at'[t] = at[t]
    BY <1>0, <1>1, ThrottledWaits
  <1>4. Target(t)' = q
    BY <1>3 DEF Target
  <1>5. queue[q] \in SUBSET queue'[q]
    BY <1>0, <1>1, <1>2, OnlyConsumersTake
  <1>6. IsFiniteSet(queue'[q]) /\ IsFiniteSet(queue[q])
    BY <1>2 DEF IInv, FiniteInv
  <1>7. /\ Cardinality(queue[q]) \in Nat
        /\ Cardinality(queue'[q]) \in Nat
        /\ Cardinality(queue[q]) <= Cardinality(queue'[q])
    BY <1>5, <1>6, FS_Subset, FS_CardinalityType
  <1>8. Cardinality(queue'[q]) >= MaxQueueSize
    BY <1>1, <1>7, SizesAssumption DEF Full
  <1>9. \A c \in Consumers(q) : pc'[c] = "exited"
    <2>1. Consumers(q) \subseteq Threads
      <3>1. \E x \in Tasks : Consumers(q) = ThreadsOf(x)
        <4>1. CASE q \in Inputs
          BY <4>1 DEF Consumers, Tasks
        <4>2. CASE q = "MainMessageQueue"
          BY <4>2, Names DEF Consumers, Tasks
        <4>3. CASE q \in Outputs \cup {"ProcessorMachine"}
          BY <4>3, Names DEF Consumers, Tasks
        <4>4. QED
          BY <1>2, <4>1, <4>2, <4>3 DEF Queues
      <3>2. QED
        BY <3>1 DEF Threads
    <2>2. QED
      BY <1>0, <1>1, <2>1, ExitedStays
  <1>10. (Full(Target(t)))' /\ (\A c \in Consumers(Target(t)) : pc[c] = "exited")'
    BY <1>4, <1>8, <1>9 DEF Full, Consumers
  <1>11. QED
    BY <1>3, <1>10 DEF Wedged

-----------------------------------------------------------------------------
(* The theorems *)

\* IQLogger::startImpl begins with empty queues and every thread in its loop.
LEMMA InitIInv == Init => IInv
  <1> SUFFICES ASSUME Init PROVE IInv
    OBVIOUS
  <1>1. TypeOK
    <2>1. \A t \in Threads : 1 \in 1..Rounds(t)
      BY RoundsOf
    <2>2. 1 \in 1..(Len(InputSeq) + Len(OutputSeq))
      BY Lists
    <2>3. QED
      BY <2>1, <2>2 DEF Init, TypeOK, Phases
  <1>2. LoopsInv
    BY DEF Init, LoopsInv
  <1>3. OneSpot
    <2> SUFFICES ASSUME NEW m \in Msgs, NEW o \in Outputs PROVE One(m, o)
      BY DEF OneSpot
    <2>1. \A x \in Spots : ~In(m, o, x)
      BY SpotKinds DEF Init, In, Holds
    <2>2. QED
      BY <2>1 DEF Init, One
  <1>4. FiniteInv
    BY FS_EmptySet DEF Init, FiniteInv
  <1>5. JoinedInv
    BY DEF Init, JoinedInv
  <1>6. QED
    BY <1>1, <1>2, <1>3, <1>4, <1>5 DEF IInv

\* The inductive invariant is inductive.
LEMMA StepIInv == IInv /\ [Next]_vars => IInv'
  BY TypeStep, LoopsStep, OneStep, FiniteStep, JoinedStep DEF IInv

\* The inductive invariant holds in every reachable state.
LEMMA Inductive == Spec => []IInv
  BY InitIInv, StepIInv, PTL DEF Spec

\* The variables of the pipeline keep their types: in particular an import or
\* export thread never leaves the range of m_inputs or m_outputs
\* (InputServer.cpp:59, OutputServer.cpp:61) and the main thread never indexes past
\* them while it stops the tasks.
THEOREM TypeCorrect == Spec => []TypeOK
  <1>1. IInv => TypeOK
    BY DEF IInv
  <1>2. QED
    BY <1>1, Inductive, PTL

\* For any number of inputs, outputs and threads of each task, any batch sizes and
\* any moment of the shutdown, a received message is in exactly one place on the
\* way to each output.
THEOREM NeverDuplicatedNorLost == Spec => []OnePlace
  <1>1. IInv => OnePlace
    BY SpotIsPlace DEF IInv
  <1>2. QED
    BY <1>1, Inductive, PTL

\* Once InputServer::stop has joined the import threads nothing gets into the
\* processor's queue any more, and once OutputServer::stop has joined the export
\* threads nothing gets into the queue of an output.
THEOREM QuietAfterJoin == Spec => JoinedIsQuiet
  <1>1. IInv /\ [Next]_vars =>
          [/\ (phase \in {"stop_outputs", "stop_output", "join_output", "join_export",
                          "stop_processor", "join_processor", "done"})
                 => ~Grows("ProcessorMachine")
           /\ (phase \in {"stop_processor", "join_processor", "done"})
                 => \A o \in Outputs : ~Grows(o)]_vars
    BY QuietStep
  <1>2. QED
    BY <1>1, Inductive, PTL DEF Spec, JoinedIsQuiet

\* A producer that waits in the throttle loop of MessageQueue.h:66 for a queue all
\* of whose consumers have exited waits for ever, whatever the other threads and
\* the main thread still do.
THEOREM WedgedForEver == Spec => WedgeIsFinal
  <1>1. IInv /\ IInv' /\ [Next]_vars => [Wedged => Wedged']_vars
    BY WedgedStep
  <1>2. QED
    BY <1>1, Inductive, PTL DEF Spec, WedgeIsFinal
=============================================================================
