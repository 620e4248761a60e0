--------------------------- MODULE Lifecycle_proofs ---------------------------
(***************************************************************************)
(* Theorems about the life of the process for any number of processor      *)
(* threads, any of the export servers, any inputs and outputs and whatever *)
(* goes wrong.  Both rest on the order in which main does things, which is *)
(* a fact about the list todo: while the process starts it is an end of    *)
(* Plan, so that how much is left says what has been registered and which  *)
(* threads there can be; once the stop has begun it holds steps of the     *)
(* stop only, and only the first of them finds the metrics task running.   *)
(***************************************************************************)
EXTENDS Lifecycle, Integers, TLAPS

Plan == << <<"load", "self">>, <<"construct", "self">> >> \o StartOrder

StartSteps ==
    {"load", "construct", "start", "signals", "run"}
        \X {"processor", "inputs", "outputs", "metrics", "self"}

StopSteps ==
    {"stop", "join", "return"}
        \X ({"metrics", "inputs", "outputs", "processor", "self"} \cup Range(Workers) \cup Range(Servers))

\* main is at the k-th step of the start.
At(k) ==
    /\ todo \in Seq(StartSteps) /\ Len(todo) = 9 - k
    /\ \A i \in 1..Len(todo) : todo[i] = Plan[(k - 1) + i]

\* main is still starting the tasks, or waits in run().
Starting == \E k \in 1..8 : At(k)

Stopping == todo \in Seq(StopSteps)

\* main has taken the first n steps of the start.
Past(n) == \A k \in 1..8 : At(k) => n < k

\* The metrics task has been stopped, for good.
MetricsOver == Stopping /\ "metrics" \notin started

OrderInv ==
    /\ Starting \/ Stopping
    /\ Stopping => MetricsOver \/ todo = StopOrder

ThreadsInv ==
    /\ DOMAIN thread = Threads
    /\ \A s \in Range(Servers) : thread[s] # "none" => Past(7)
    /\ \A w \in Range(Workers) : thread[w] # "none" => Past(3)
    /\ "metrics" \in started => Past(7)

\* What the start registers, step by step.
RegisteredInv ==
    /\ DOMAIN callbacks \subseteq Reported \cup Totals \cup HeapMetrics
    /\ Past(2) => {QueueMetric("main_queue", "self")} \cup InputQueues \cup OutputQueues
                     \subseteq DOMAIN callbacks
    /\ Past(3) => Registers("processor") \subseteq DOMAIN callbacks
    /\ Past(4) => Registers("inputs") \subseteq DOMAIN callbacks
    /\ Past(5) => Registers("outputs") \subseteq DOMAIN callbacks
    /\ Past(7) => Registers("metrics") \subseteq DOMAIN callbacks

\* A round of Telegraf begins with all there is to report.
RoundInv == first # {} => first \ HeapMetrics = Reported \cup Totals

\* No isolate dies before the metrics task is stopped.
LiveInv ==
    fault # "worker" =>
        /\ touched \subseteq {"checked isolate"}
        /\ dead \subseteq {"checked isolate"} \/ MetricsOver
        /\ "processor" \notin started /\ Past(3) => MetricsOver

IInv == OrderInv /\ ThreadsInv /\ RegisteredInv /\ RoundInv /\ LiveInv /\ ExportsAreWhole

-----------------------------------------------------------------------------
(* The list of main's steps *)

\* The steps of the start.
LEMMA PlanIs ==
    /\ Plan[1] = <<"load", "self">> /\ Plan[2] = <<"construct", "self">>
    /\ Plan[3] = <<"start", "processor">> /\ Plan[4] = <<"start", "inputs">>
    /\ Plan[5] = <<"start", "outputs">> /\ Plan[6] = <<"signals", "self">>
    /\ Plan[7] = <<"start", "metrics">> /\ Plan[8] = <<"run", "self">>
    /\ Plan \in Seq(StartSteps) /\ Len(Plan) = 8
  BY DEF Plan, StartOrder, StartSteps

\* Every step of the start is there once.
LEMMA PlanOnce ==
    /\ \A i \in 1..8 : Plan[i] \in StartSteps
    /\ \A i, j \in 1..8 : Plan[i] = Plan[j] => i = j
  <1>1. \A i \in 1..8 : Plan[i] \in StartSteps
    <2>1. Plan \in Seq(StartSteps)
      BY PlanIs
    <2>2. \A i \in 1..Len(Plan) : Plan[i] \in StartSteps
      BY <2>1
    <2> QED
      BY <2>2, PlanIs, Zenon
  <1>2. \A i, j \in 1..8 : Plan[i] = Plan[j] => i = j
    BY PlanIs
  <1>3. QED
    BY <1>1, <1>2

\* The steps of the stop, and the first of them.
LEMMA StopIs ==
    /\ StopOrder \in Seq(StopSteps) /\ StopOrder # << >>
    /\ Head(StopOrder) = <<"stop", "metrics">>
  <1> DEFINE A == << <<"stop", "metrics">> >>
             B == [i \in 1..Len(Servers) |-> <<"stop", Servers[i]>>]
             C == [i \in 1..Len(Servers) |-> <<"join", Servers[i]>>]
             D == << <<"join", "metrics">>, <<"stop", "inputs">>, <<"join", "inputs">>,
                     <<"stop", "outputs">>, <<"join", "outputs">>, <<"stop", "processor">> >>
             E == [i \in 1..Len(Workers) |-> <<"join", Workers[i]>>]
             F == << <<"return", "self">> >>
  <1>1. A \in Seq(StopSteps) /\ D \in Seq(StopSteps) /\ F \in Seq(StopSteps)
    BY DEF StopSteps
  <1>2. B \in Seq(StopSteps) /\ C \in Seq(StopSteps)
    BY ServersAssumption DEF StopSteps, Range
  <1>3. E \in Seq(StopSteps)
    <2>1. Len(Workers) \in Nat /\ DOMAIN Workers = 1..Len(Workers)
      <3>1. Workers \in Seq(Range(Workers))
        BY WorkersAssumption
      <3> QED
        BY <3>1
    <2> QED
      BY <2>1 DEF StopSteps, Range
  <1>4. StopOrder = A \o B \o C \o D \o E \o F
    BY DEF StopOrder
  <1>5. A # << >> /\ A[1] = <<"stop", "metrics">> /\ Len(A) = 1
    OBVIOUS
  <1> HIDE DEF A, B, C, D, E, F
  <1>6. \A s, t \in Seq(StopSteps) :
           /\ s \o t \in Seq(StopSteps)
           /\ s # << >> => s \o t # << >> /\ Head(s \o t) = Head(s)
    OBVIOUS
  <1>7. Head(A) = <<"stop", "metrics">>
    BY <1>5, <1>1
  <1>8. /\ A \o B \in Seq(StopSteps) /\ A \o B \o C \in Seq(StopSteps)
        /\ A \o B \o C \o D \in Seq(StopSteps) /\ A \o B \o C \o D \o E \in Seq(StopSteps)
        /\ A \o B \o C \o D \o E \o F \in Seq(StopSteps)
    BY <1>1, <1>2, <1>3, <1>6
  <1>9. QED
    BY <1>1, <1>2, <1>3, <1>4, <1>5, <1>6, <1>7, <1>8

\* main is at one step of the start only, and that is none of the stop.
LEMMA OneAt ==
    /\ \A j, k \in 1..8 : At(j) /\ At(k) => j = k
    /\ \A k \in 1..8 : At(k) => todo # << >> /\ Head(todo) = Plan[k] /\ ~Stopping
  <1>1. ASSUME NEW j \in 1..8, NEW k \in 1..8, At(j), At(k) PROVE j = k
    BY <1>1 DEF At
  <1>2. ASSUME NEW k \in 1..8, At(k) PROVE todo # << >> /\ Head(todo) = Plan[k] /\ ~Stopping
    <2>1. todo # << >> /\ Head(todo) = Plan[k] /\ Head(todo) \in StartSteps
      BY <1>2 DEF At
    <2>2. Stopping => Head(todo) \in StopSteps
      BY <2>1 DEF Stopping
    <2>3. QED
      BY <2>1, <2>2 DEF StartSteps, StopSteps
  <1>3. QED
    BY <1>1, <1>2

\* While it starts, main does not stop.
NotBoth == Starting => ~Stopping

\* NotBoth holds in every state.
LEMMA NeverBoth == NotBoth
  BY OneAt DEF NotBoth, Starting

\* Where main is when it takes the n-th step of the start, and where it is then.
LEMMA StartAdvance ==
    ASSUME OrderInv, NEW n \in 1..8, NEW op, NEW what, Does(op, what), <<op, what>> = Plan[n]
    PROVE  /\ At(n) /\ ~Stopping
           /\ StepDone /\ n < 8 => At(n + 1)' /\ ~Stopping'
  <1>1. <<op, what>> \in StartSteps
    BY PlanOnce
  <1>2. Stopping => <<op, what>> \in StopSteps
    BY DEF Stopping, Does
  <1>3. ~Stopping
    BY <1>1, <1>2 DEF StartSteps, StopSteps
  <1>4. PICK k \in 1..8 : At(k)
    BY <1>3 DEF OrderInv, Starting
  <1>6. At(n)
    <2>1. Plan[k] = Plan[n]
      BY <1>4, OneAt DEF Does
    <2> QED
      BY <2>1, <1>4, PlanOnce
  <1>7. ASSUME StepDone, n < 8 PROVE At(n + 1)'
    <2>1. todo' = Tail(todo) /\ todo \in Seq(StartSteps) /\ Len(todo) = 9 - n /\ todo # << >>
      BY <1>6, <1>7, OneAt DEF StepDone, At
    <2>2. todo' \in Seq(StartSteps) /\ Len(todo') = 9 - (n + 1)
      BY <2>1
    <2>3. ASSUME NEW i \in 1..Len(todo') PROVE todo'[i] = Plan[((n + 1) - 1) + i]
      <3>1. todo'[i] = todo[i + 1] /\ i + 1 \in 1..Len(todo)
        BY <2>1, <2>2
      <3>2. todo[i + 1] = Plan[(n - 1) + (i + 1)]
        BY <3>1, <1>6 DEF At
      <3>3. (n - 1) + (i + 1) = ((n + 1) - 1) + i
        BY <2>2
      <3> QED
        BY <3>1, <3>2, <3>3
    <2>4. QED
      BY <2>2, <2>3 DEF At
  <1>8. NotBoth'
    BY NeverBoth, PTL
  <1>9. QED
    BY <1>3, <1>6, <1>7, <1>8 DEF NotBoth, Starting

\* A step of the stop is taken during the stop, and leaves steps of the stop.
LEMMA StopAdvance ==
    ASSUME OrderInv, NEW op \in {"stop", "join", "return"}, NEW what, Does(op, what)
    PROVE  /\ Stopping /\ ~Starting
           /\ MetricsOver \/ (op = "stop" /\ what = "metrics")
           /\ StepDone => Stopping' /\ ~Starting'
  <1>1. ASSUME Starting PROVE FALSE
    <2>1. <<op, what>> \in StartSteps
      BY <1>1, OneAt, PlanOnce DEF Starting, Does
    <2> QED
      BY <2>1 DEF StartSteps
  <1>2. Stopping
    BY <1>1 DEF OrderInv
  <1>3. MetricsOver \/ (op = "stop" /\ what = "metrics")
    BY <1>2, StopIs DEF OrderInv, Does
  <1>4. StepDone => Stopping'
    BY <1>2 DEF StepDone, Stopping, Does
  <1>5. NotBoth'
    BY NeverBoth, PTL
  <1>6. QED
    BY <1>1, <1>2, <1>3, <1>4, <1>5 DEF NotBoth

\* A step that leaves the list alone.
LEMMA SamePlace ==
    ASSUME todo' = todo
    PROVE  /\ Starting' <=> Starting
           /\ Stopping' <=> Stopping
           /\ \A k : At(k)' <=> At(k)
           /\ \A n : Past(n)' <=> Past(n)
  BY DEF Starting, Stopping, Past, At

\* How far main is.
PastIs ==
    /\ \A k \in 1..8, n \in 0..8 : At(k) => (Past(n) <=> n < k)
    /\ Stopping => \A n \in 0..8 : Past(n)

\* PastIs says what Past means.
LEMMA PastFacts == PastIs
  BY OneAt DEF PastIs, Past

-----------------------------------------------------------------------------
(* The names of the metrics *)

\* registerMetric adds names and takes none away.
LEMMA RegisterDomain ==
    ASSUME NEW table, NEW names, NEW owner
    PROVE  DOMAIN registerMetric(table, names, owner) = DOMAIN table \cup names
  BY DEF registerMetric

\* The steps of the start register what is reported and the totals, and nothing else.
LEMMA AllRegistered ==
    {QueueMetric("main_queue", "self")} \cup InputQueues \cup OutputQueues \cup Registers("processor")
        \cup Registers("inputs") \cup Registers("outputs") \cup Registers("metrics")
        = Reported \cup Totals
  <1>1. /\ Registers("processor") = {QueueMetric("processor", "self")}
        /\ Registers("metrics") = ProcessMetrics
        /\ Registers("inputs") = {<<"inputs", "receive_total", "self">>}
                                    \cup {<<"inputs", s, "receive_total">> : s \in Sources}
        /\ Registers("outputs") = {<<"outputs", "sent_total", "self">>}
                                    \cup {<<"outputs", d, "send_total">> : d \in Destinations}
    BY DEF Registers
  <1>2. {<<"inputs", s, m>> : s \in Sources, m \in {"queue", "receive_total"}}
            = InputQueues \cup {<<"inputs", s, "receive_total">> : s \in Sources}
    BY DEF InputQueues, QueueMetric
  <1>3. {<<"outputs", d, m>> : d \in Destinations, m \in {"queue", "send_total"}}
            = OutputQueues \cup {<<"outputs", d, "send_total">> : d \in Destinations}
    BY DEF OutputQueues, QueueMetric
  <1> DEFINE P == ProcessMetrics
             q == QueueMetric("processor", "self")
             m == QueueMetric("main_queue", "self")
             I == {<<"inputs", s, "receive_total">> : s \in Sources}
             O == {<<"outputs", d, "send_total">> : d \in Destinations}
             i == <<"inputs", "receive_total", "self">>
             o == <<"outputs", "sent_total", "self">>
  <1>4. Reported = P \cup {q, m} \cup (InputQueues \cup I) \cup (OutputQueues \cup O)
    BY <1>2, <1>3 DEF Reported
  <1>5. Totals = {i, o}
    BY DEF Totals
  <1>6. /\ Registers("processor") = {q} /\ Registers("metrics") = P
        /\ Registers("inputs") = {i} \cup I /\ Registers("outputs") = {o} \cup O
    BY <1>1
  <1> HIDE DEF P, q, m, I, O, i, o
  <1>7. {m} \cup InputQueues \cup OutputQueues \cup Registers("processor")
            \cup Registers("inputs") \cup Registers("outputs") \cup Registers("metrics")
            = Reported \cup Totals
    BY <1>4, <1>5, <1>6
  <1>8. QED
    BY <1>7 DEF m

\* The names by their first and last parts.
LEMMA Parts ==
    /\ \A n \in HeapMetrics : n[1] = "processor" /\ n[3] = "heap_size"
    /\ \A n \in ProcessMetrics : n[1] = "process" /\ n[3] = "self"
    /\ \A n \in Totals : n[1] \in {"inputs", "outputs"} /\ n[3] = "self"
    /\ \A n \in Reported :
          \/ n \in ProcessMetrics \cup {QueueMetric("processor", "self"), QueueMetric("main_queue", "self")}
          \/ n[1] \in {"inputs", "outputs"} /\ n[3] \in {"queue", "receive_total", "send_total"}
    /\ QueueMetric("processor", "self")[1] = "processor" /\ QueueMetric("processor", "self")[3] = "queue"
    /\ QueueMetric("main_queue", "self")[1] = "main_queue" /\ QueueMetric("main_queue", "self")[3] = "queue"
  <1>1. \A n \in HeapMetrics : n[1] = "processor" /\ n[3] = "heap_size"
    BY DEF HeapMetrics, HeapMetric
  <1>2. \A n \in ProcessMetrics : n[1] = "process" /\ n[3] = "self"
    BY DEF ProcessMetrics
  <1>3. \A n \in Totals : n[1] \in {"inputs", "outputs"} /\ n[3] = "self"
    BY DEF Totals
  <1> DEFINE I == {<<"inputs", s, m>> : s \in Sources, m \in {"queue", "receive_total"}}
             O == {<<"outputs", d, m>> : d \in Destinations, m \in {"queue", "send_total"}}
             single == ProcessMetrics \cup {QueueMetric("processor", "self"), QueueMetric("main_queue", "self")}
  <1>4. \A n \in I : n[1] = "inputs" /\ n[3] \in {"queue", "receive_total"}
    OBVIOUS
  <1>5. \A n \in O : n[1] = "outputs" /\ n[3] \in {"queue", "send_total"}
    OBVIOUS
  <1>6. Reported = single \cup I \cup O
    BY DEF Reported
  <1>7. /\ QueueMetric("processor", "self")[1] = "processor" /\ QueueMetric("processor", "self")[3] = "queue"
        /\ QueueMetric("main_queue", "self")[1] = "main_queue" /\ QueueMetric("main_queue", "self")[3] = "queue"
    BY DEF QueueMetric
  <1> HIDE DEF I, O, single
  <1>8. \A n \in Reported :
          \/ n \in single
          \/ n[1] \in {"inputs", "outputs"} /\ n[3] \in {"queue", "receive_total", "send_total"}
    BY <1>4, <1>5, <1>6
  <1>9. QED
    BY <1>1, <1>2, <1>3, <1>7, <1>8 DEF single

\* An export made of two snapshots of a complete table is whole.
LEMMA LinesWhole ==
    ASSUME NEW one, NEW two, one \ HeapMetrics = Reported \cup Totals,
           two \ HeapMetrics = Reported \cup Totals
    PROVE  Lines(one, two) \ HeapMetrics = Reported
  <1> DEFINE single == ProcessMetrics \cup {QueueMetric("processor", "self"), QueueMetric("main_queue", "self")}
             rest == {n \in two \ Totals : n[1] \in {"inputs", "outputs"}}
  <1>0. single \subseteq Reported
    BY DEF Reported
  <1>1. single \subseteq Reported /\ ProcessMetrics \subseteq one
    BY <1>0
  <1>2. one \cap single = single
    BY <1>1
  <1>3. Lines(one, two) \ HeapMetrics = (single \cup rest) \ HeapMetrics
    BY <1>1, <1>2 DEF Lines
  <1>4. Reported \cap Totals = {} /\ Reported \cap HeapMetrics = {}
    BY Parts
  <1>5. rest \ HeapMetrics = {n \in Reported : n[1] \in {"inputs", "outputs"}}
    BY <1>4, Parts
  <1>6. Reported = single \cup {n \in Reported : n[1] \in {"inputs", "outputs"}}
    BY <1>1, Parts
  <1> HIDE DEF single, rest
  <1>7. QED
    BY <1>1, <1>3, <1>4, <1>5, <1>6

-----------------------------------------------------------------------------
(* The inductive invariant *)

\* The state before main() has done anything.
LEMMA InitIInv == Init => IInv
  <1> SUFFICES ASSUME Init PROVE IInv
    OBVIOUS
  <1>1. At(1)
    <2>1. todo = Plan
      BY DEF Init, Plan
    <2>2. \A i \in 1..Len(todo) : todo[i] = Plan[(1 - 1) + i]
      BY <2>1
    <2> QED
      BY <2>1, <2>2, PlanIs DEF At
  <1>2. ~Stopping /\ \A n \in 1..8 : ~Past(n)
    BY <1>1, OneAt, PastFacts DEF PastIs
  <1>3. OrderInv
    BY <1>1, <1>2 DEF OrderInv, Starting
  <1>4. ThreadsInv
    BY DEF Init, ThreadsInv, Threads
  <1>5. RegisteredInv
    BY <1>2 DEF Init, RegisteredInv
  <1>6. RoundInv /\ ExportsAreWhole
    BY DEF Init, RoundInv, ExportsAreWhole
  <1>7. LiveInv
    BY <1>2 DEF Init, LiveInv
  <1>8. QED
    BY <1>3, <1>4, <1>5, <1>6, <1>7 DEF IInv

\* What the threads, the signal and a main that fails do is no progress of main, and
\* starts no task but an export server.
LEMMA NoProgress ==
    ASSUME \/ MainFails \/ SignalArrives \/ FlowStep \/ WorkerStep \/ MetricsStep \/ TelegrafStep
           \/ \E s \in Range(Servers) : ServerStep(s)
           \/ UNCHANGED vars
    PROVE  /\ todo' = todo
           /\ "metrics" \in started' => "metrics" \in started
           /\ "processor" \in started' => "processor" \in started
  <1>1. \A s \in Range(Servers) : s \notin {"metrics", "processor"}
    BY ServersAssumption DEF Range
  <1>2. QED
    BY <1>1 DEF MainFails, SignalArrives, FlowStep, PushBegins, PushEnds, FlowEnds, WorkerStep, WorkerBegins, WorkerEnds, WorkerFails,
                WorkerJoinsItself, MetricsStep, MetricsReads, MetricsEnds, TelegrafStep, Snapshot,
                Export, ServerStep, ServerBegins, ServerEnds, vars

\* main goes from one step to the next, and from the start to the stop.
LEMMA OrderStep == OrderInv /\ [Next]_vars => OrderInv'
  <1> SUFFICES ASSUME OrderInv, [Next]_vars PROVE OrderInv'
    OBVIOUS
  <1>1. ASSUME todo' = todo, "metrics" \in started' => "metrics" \in started
        PROVE  OrderInv'
    BY <1>1, SamePlace DEF OrderInv, MetricsOver
  <1>2. ASSUME NEW n \in 1..7, At(n + 1)', ~Stopping' PROVE OrderInv'
    BY <1>2 DEF OrderInv, Starting
  <1>3. CASE Load
    <2>1. CASE StepDone
      BY <2>1, <1>2, <1>3, StartAdvance, PlanIs DEF Load
    <2>2. CASE ~StepDone
      BY <2>2, <1>1, <1>3 DEF Load, MainFails
    <2> QED
      BY <2>1, <2>2
  <1>4. CASE Construct
    <2>1. CASE StepDone
      <3>1. Does("construct", "self") /\ <<"construct", "self">> = Plan[2]
        BY <1>4, PlanIs DEF Construct
      <3> QED
        BY <2>1, <3>1, <1>2, StartAdvance
    <2>2. CASE ~StepDone
      BY <2>2, <1>1, <1>4 DEF Construct, MainFails
    <2> QED
      BY <2>1, <2>2
  <1>5. CASE Signals
    BY <1>2, <1>5, StartAdvance, PlanIs DEF Signals
  <1>6. ASSUME NEW t \in {"processor", "inputs", "outputs", "metrics"}, TaskStart(t) PROVE OrderInv'
    <2>1. CASE StepDone
      <3>1. PICK n \in {3, 4, 5, 7} : <<"start", t>> = Plan[n]
        BY PlanIs
      <3> QED
        BY <2>1, <3>1, <1>2, <1>6, StartAdvance DEF TaskStart
    <2>2. CASE ~StepDone
      BY <2>2, <1>1, <1>6 DEF TaskStart, MainFails
    <2> QED
      BY <2>1, <2>2
  <1>7. CASE Run
    <2>1. todo' = StopOrder
      BY <1>7 DEF Run
    <2> QED
      BY <2>1, StopIs DEF OrderInv, Stopping
  <1>8. ASSUME NEW t \in {"processor", "inputs", "outputs", "metrics"} \cup Range(Servers), TaskStop(t)
        PROVE  OrderInv'
    <2>1. CASE StepDone
      <3>1. Stopping' /\ (MetricsOver \/ t = "metrics")
        BY <2>1, <1>8, StopAdvance DEF TaskStop
      <3>2. "metrics" \notin started'
        BY <3>1, <2>1, <1>8 DEF TaskStop, MetricsOver, MainFails, StepDone, Does
      <3> QED
        BY <3>1, <3>2 DEF OrderInv, MetricsOver
    <2>2. CASE ~StepDone
      BY <2>2, <1>1, <1>8 DEF TaskStop, MainFails
    <2> QED
      BY <2>1, <2>2
  <1>9. ASSUME NEW t \in Threads, Join(t) PROVE OrderInv'
    <2>1. Stopping' /\ MetricsOver
      BY <1>9, StopAdvance DEF Join
    <2> QED
      BY <2>1, <1>9 DEF OrderInv, MetricsOver, Join
  <1>10. CASE MainReturns
    <2>1. Stopping' /\ MetricsOver
      BY <1>10, StopAdvance DEF MainReturns
    <2> QED
      BY <2>1, <1>10 DEF OrderInv, MetricsOver, MainReturns
  <1>11. CASE SignalArrives \/ FlowStep \/ WorkerStep \/ MetricsStep \/ TelegrafStep
              \/ (\E s \in Range(Servers) : ServerStep(s)) \/ UNCHANGED vars
    BY <1>11, <1>1, NoProgress
  <1>12. QED
    BY <1>3, <1>4, <1>5, <1>6, <1>7, <1>8, <1>9, <1>10, <1>11 DEF Next, MainStep

\* main takes the n-th step of the start; 9 stands for any step of the stop, and for
\* the one between.
Passes(n) == \A m \in 0..8 : (Past(m) <=> m < n) /\ (Past(m)' <=> m <= n)

PlaceOf(t) ==
    CASE t = "processor" -> 3 [] t = "inputs" -> 4 [] t = "outputs" -> 5 [] t = "metrics" -> 7

\* How far main is before and after a step of the start.
LEMMA StartPast ==
    ASSUME OrderInv, NEW n \in 1..7, NEW op, NEW what, Does(op, what), <<op, what>> = Plan[n], StepDone
    PROVE  Passes(n)
  <1>1. At(n) /\ At(n + 1)'
    BY StartAdvance
  <1>2. PastIs /\ PastIs'
    BY PastFacts, PTL
  <1>3. QED
    BY <1>1, <1>2 DEF PastIs, Passes

\* Which step of the plan each step of main is.
LEMMA StepsOfPlan ==
    ASSUME OrderInv
    PROVE  /\ Load /\ StepDone => Passes(1)
           /\ Construct /\ StepDone => Passes(2)
           /\ Signals => Passes(6)
           /\ \A t \in {"processor", "inputs", "outputs", "metrics"} :
                 TaskStart(t) /\ StepDone => Passes(PlaceOf(t))
           /\ Run => \A m \in 0..8 : (Past(m) <=> m < 8) /\ Past(m)'
           /\ \A t : (TaskStop(t) /\ StepDone) \/ Join(t) \/ MainReturns => Passes(9)
  <1>0. PastIs /\ PastIs'
    BY PastFacts, PTL
  <1>1. ASSUME Load, StepDone PROVE Passes(1)
    <2>1. Does("load", "self") /\ <<"load", "self">> = Plan[1]
      BY <1>1, PlanIs DEF Load
    <2> QED
      BY <2>1, <1>1, StartPast
  <1>2. ASSUME Construct, StepDone PROVE Passes(2)
    <2>1. Does("construct", "self") /\ <<"construct", "self">> = Plan[2]
      BY <1>2, PlanIs DEF Construct
    <2> QED
      BY <2>1, <1>2, StartPast
  <1>3. ASSUME Signals PROVE Passes(6)
    <2>1. Does("signals", "self") /\ <<"signals", "self">> = Plan[6] /\ StepDone
      BY <1>3, PlanIs DEF Signals
    <2> QED
      BY <2>1, <1>3, StartPast
  <1>4. ASSUME NEW t \in {"processor", "inputs", "outputs", "metrics"}, TaskStart(t), StepDone
        PROVE  Passes(PlaceOf(t))
    <2>1. PlaceOf(t) \in 1..7 /\ Does("start", t) /\ <<"start", t>> = Plan[PlaceOf(t)]
      BY <1>4, PlanIs DEF TaskStart, PlaceOf
    <2> QED
      BY <2>1, <1>4, StartPast
  <1>5. ASSUME Run PROVE \A m \in 0..8 : (Past(m) <=> m < 8) /\ Past(m)'
    <2>1. Does("run", "self") /\ <<"run", "self">> = Plan[8] /\ todo' = StopOrder
      BY <1>5, PlanIs DEF Run
    <2>2. At(8)
      BY <2>1, StartAdvance
    <2>3. Stopping'
      BY <2>1, StopIs DEF Stopping
    <2> QED
      BY <2>2, <2>3, <1>0 DEF PastIs
  <1>6. ASSUME NEW t, (TaskStop(t) /\ StepDone) \/ Join(t) \/ MainReturns PROVE Passes(9)
    <2>1. Stopping /\ Stopping'
      BY <1>6, StopAdvance DEF TaskStop, Join, MainReturns
    <2> QED
      BY <2>1, <1>0 DEF PastIs, Passes
  <1>7. QED
    BY <1>1, <1>2, <1>3, <1>4, <1>5, <1>6

\* A step that leaves main where it is.
LEMMA StaysPast ==
    ASSUME todo' = todo
    PROVE  \A m \in 0..8 : Past(m)' <=> Past(m)
  BY SamePlace

\* A thread exists only once the step that makes it has been taken.
LEMMA ThreadsStep == OrderInv /\ ThreadsInv /\ [Next]_vars => ThreadsInv'
  <1> SUFFICES ASSUME OrderInv, ThreadsInv, [Next]_vars PROVE ThreadsInv'
    OBVIOUS
  <1>0. /\ \A s \in Range(Servers) : s \notin Range(Workers) /\ s # "metrics" /\ s \in Threads
        /\ \A s \in Range(Servers) : s \notin {"inputs", "outputs"}
        /\ \A w \in Range(Workers) : w \notin {"inputs", "outputs", "metrics"} /\ w \in Threads
    <2>1. Range(Servers) \subseteq {"http", "telegraf"}
      BY ServersAssumption DEF Range
    <2>2. Range(Workers) \cap {"inputs", "outputs", "metrics", "http", "telegraf"} = {}
      BY WorkersAssumption
    <2> QED
      BY <2>1, <2>2 DEF Threads
  <1>1. ASSUME \A m \in 0..8 : Past(m) => Past(m)',
               DOMAIN thread' = Threads,
               \A u \in Range(Servers) \cup Range(Workers) : thread'[u] # "none" => thread[u] # "none",
               "metrics" \in started' => "metrics" \in started
        PROVE  ThreadsInv'
    BY <1>1 DEF ThreadsInv
  <1>2. ASSUME todo' = todo, UNCHANGED <<thread, started>> PROVE ThreadsInv'
    BY <1>1, <1>2, StaysPast DEF ThreadsInv
  <1>3. CASE Load \/ Construct
    <2>1. CASE StepDone
      <3>1. \A m \in 0..8 : Past(m) => Past(m)'
        BY <2>1, <1>3, StepsOfPlan DEF Passes
      <3> QED
        BY <3>1, <1>1, <1>3 DEF Load, Construct, MainFails, ThreadsInv
    <2>2. CASE ~StepDone
      BY <2>2, <1>2, <1>3 DEF Load, Construct, MainFails
    <2> QED
      BY <2>1, <2>2
  <1>4. CASE Signals \/ Run \/ MainReturns
    <2>1. \A m \in 0..8 : Past(m) => Past(m)'
      BY <1>4, StepsOfPlan DEF Passes
    <2> QED
      BY <2>1, <1>1, <1>4 DEF Signals, Run, MainReturns, ThreadsInv
  <1>5. ASSUME NEW t \in {"processor", "inputs", "outputs", "metrics"}, TaskStart(t) PROVE ThreadsInv'
    <2>1. CASE StepDone
      <3>1. Passes(PlaceOf(t)) /\ \A m \in 0..8 : Past(m) => Past(m)'
        BY <2>1, <1>5, StepsOfPlan DEF Passes, PlaceOf
      <3>2. t = "processor" => Past(3)'
        BY <3>1 DEF Passes, PlaceOf
      <3>3. t = "metrics" => Past(7)'
        BY <3>1 DEF Passes, PlaceOf
      <3>4. CASE MainFails
        BY <3>1, <3>4, <1>1 DEF MainFails, ThreadsInv
      <3>5. CASE ~MainFails
        <4>1. /\ thread' = [u \in Threads |-> IF u \in Makes(t) THEN "made" ELSE thread[u]]
              /\ started' = started \cup {t}
          BY <1>5, <3>5 DEF TaskStart
        <4>2. \A w \in Range(Workers) : w \in Makes(t) => t = "processor"
          BY <1>0 DEF Makes
        <4>3. \A s \in Range(Servers) : s \in Makes(t) => t = "metrics"
          BY <1>0 DEF Makes
        <4> QED
          BY <3>1, <3>2, <3>3, <4>1, <4>2, <4>3, <1>0 DEF ThreadsInv
      <3> QED
        BY <3>4, <3>5
    <2>2. CASE ~StepDone
      BY <2>2, <1>2, <1>5 DEF TaskStart, MainFails
    <2> QED
      BY <2>1, <2>2
  <1>6. ASSUME NEW t, TaskStop(t) PROVE ThreadsInv'
    <2>1. CASE StepDone
      <3>1. \A m \in 0..8 : Past(m) => Past(m)'
        BY <2>1, <1>6, StepsOfPlan DEF Passes
      <3> QED
        BY <3>1, <1>1, <1>6 DEF TaskStop, MainFails, ThreadsInv
    <2>2. CASE ~StepDone
      BY <2>2, <1>2, <1>6 DEF TaskStop, MainFails
    <2> QED
      BY <2>1, <2>2
  <1>7. ASSUME NEW t \in Threads, Join(t) PROVE ThreadsInv'
    <2>1. \A m \in 0..8 : Past(m) => Past(m)'
      BY <1>7, StepsOfPlan DEF Passes
    <2> QED
      BY <2>1, <1>1, <1>7 DEF Join, ThreadsInv
  <1>8. CASE FlowStep \/ WorkerStep \/ MetricsStep \/ (\E s \in Range(Servers) : ServerStep(s))
    <2>1. \A m \in 0..8 : Past(m) => Past(m)'
      BY <1>8, NoProgress, StaysPast
    <2>2. \A u \in Range(Servers) \cup Range(Workers) : thread'[u] # "none" => thread[u] # "none"
      BY <1>0, <1>8 DEF FlowStep, PushBegins, PushEnds, FlowEnds, InLoop, Threads, WorkerStep, WorkerBegins, WorkerEnds, WorkerFails, WorkerJoinsItself,
                MetricsStep, MetricsReads, MetricsEnds, ServerStep, ServerBegins, ServerEnds,
                Becomes, ThreadsInv
    <2>3. DOMAIN thread' = Threads
      BY <1>0, <1>8 DEF FlowStep, PushBegins, PushEnds, FlowEnds, InLoop, Threads, WorkerStep, WorkerBegins, WorkerEnds, WorkerFails, WorkerJoinsItself,
                MetricsStep, MetricsReads, MetricsEnds, ServerStep, ServerBegins, ServerEnds,
                Becomes, ThreadsInv
    <2> QED
      BY <2>1, <2>2, <2>3, <1>1, <1>8, NoProgress
  <1>9. CASE SignalArrives \/ TelegrafStep \/ UNCHANGED vars
    BY <1>2, <1>9 DEF SignalArrives, TelegrafStep, Snapshot, Export, vars
  <1>10. QED
    BY <1>3, <1>4, <1>5, <1>6, <1>7, <1>8, <1>9 DEF Next, MainStep

\* What a step adds to the table of callbacks.
Adds(N) == DOMAIN callbacks' = DOMAIN callbacks \cup N

\* No step takes a callback away, and the steps of the start add theirs.
LEMMA RegisteredStep == OrderInv /\ RegisteredInv /\ [Next]_vars => RegisteredInv'
  <1> SUFFICES ASSUME OrderInv, RegisteredInv, [Next]_vars PROVE RegisteredInv'
    OBVIOUS
  <1> DEFINE main == {QueueMetric("main_queue", "self")} \cup InputQueues \cup OutputQueues
             known == Reported \cup Totals \cup HeapMetrics
  <1>0. /\ main \subseteq known
        /\ \A t \in {"processor", "inputs", "outputs", "metrics"} : Registers(t) \subseteq known
        /\ HeapMetrics \subseteq known
    BY AllRegistered
  <1>1. ASSUME NEW N, N \subseteq known, Adds(N), \A m \in 0..8 : Past(m)' => Past(m)
        PROVE  RegisteredInv'
    BY <1>1 DEF RegisteredInv, Adds
  <1>2. ASSUME NEW N, N \subseteq known, Adds(N), todo' = todo PROVE RegisteredInv'
    BY <1>1, <1>2, StaysPast
  <1>3. ASSUME UNCHANGED callbacks PROVE Adds({})
    BY <1>3 DEF Adds
  <1>4. CASE Load
    <2> DEFINE N == {QueueMetric("processor", "self")} \cup {HeapMetric(Workers[1])}
    <2>1. N \subseteq known
      <3>1. QueueMetric("processor", "self") \in Reported
        BY DEF Reported
      <3>2. Workers[1] \in Range(Workers)
        <4>1. Workers \in Seq(Range(Workers)) /\ Workers # << >>
          BY WorkersAssumption
        <4> QED
          BY <4>1
      <3>3. HeapMetric(Workers[1]) \in HeapMetrics
        BY <3>2 DEF HeapMetrics
      <3> QED
        BY <3>1, <3>3
    <2>2. CASE ConfigFails
      BY <2>2, <1>2, <1>3, <1>4 DEF Load, MainFails
    <2>3. CASE ~ConfigFails
      <3>1. Adds(N) \/ Adds({})
        <4> DEFINE one == registerMetric(callbacks, {QueueMetric("processor", "self")}, "machine")
        <4>1. \/ callbacks' = callbacks
              \/ callbacks' = registerMetric(one, {HeapMetric(Workers[1])}, "checked isolate")
          BY <2>3, <1>4 DEF Load, CheckScripts
        <4>2. DOMAIN one = DOMAIN callbacks \cup {QueueMetric("processor", "self")}
          BY RegisterDomain
        <4>3. \/ callbacks' = callbacks
              \/ DOMAIN callbacks' = DOMAIN one \cup {HeapMetric(Workers[1])}
          BY <4>1, RegisterDomain, ZenonT(40)
        <4> HIDE DEF one
        <4> QED
          BY <4>2, <4>3, <1>3 DEF Adds
      <3>2. todo' = todo \/ \A m \in 0..8 : (Past(m) <=> m < 1) /\ (Past(m)' <=> m <= 1)
        BY <2>3, <1>4, StepsOfPlan DEF Load, Passes
      <3>3. todo' = todo \/ (RegisteredInv' <=> DOMAIN callbacks' \subseteq known)
        BY <3>2 DEF RegisteredInv
      <3> QED
        BY <2>1, <3>1, <3>3, <1>2 DEF RegisteredInv, Adds
    <2> QED
      BY <2>2, <2>3
  <1>5. CASE Construct
    <2>1. CASE MetricsControllerFails
      BY <2>1, <1>2, <1>3, <1>5 DEF Construct, MainFails
    <2>2. CASE ~MetricsControllerFails
      <3>1. Adds(main)
        <4> DEFINE one == registerMetric(callbacks, {QueueMetric("main_queue", "self")}, "main queue")
                   two == registerMetric(one, InputQueues, "inputs")
        <4>1. callbacks' = registerMetric(two, OutputQueues, "outputs")
          BY <2>2, <1>5 DEF Construct
        <4>2. DOMAIN one = DOMAIN callbacks \cup {QueueMetric("main_queue", "self")}
          BY RegisterDomain
        <4>3. DOMAIN two = DOMAIN one \cup InputQueues
          BY RegisterDomain
        <4>4. DOMAIN callbacks' = DOMAIN two \cup OutputQueues
          BY <4>1, RegisterDomain
        <4> QED
          BY <4>2, <4>3, <4>4 DEF Adds
      <3>2. \A m \in 0..8 : (Past(m) <=> m < 2) /\ (Past(m)' <=> m <= 2)
        BY <2>2, <1>5, StepsOfPlan DEF Construct, Passes
      <3> QED
        BY <3>1, <3>2, <1>0 DEF RegisteredInv, Adds
    <2> QED
      BY <2>1, <2>2
  <1>6. ASSUME NEW t \in {"processor", "inputs", "outputs", "metrics"}, TaskStart(t) PROVE RegisteredInv'
    <2>1. CASE t = "inputs" /\ fault = "directory"
      BY <2>1, <1>2, <1>3, <1>6 DEF TaskStart, MainFails
    <2>2. CASE ~(t = "inputs" /\ fault = "directory")
      <3>1. Adds(Registers(t))
        <4>1. callbacks' = registerMetric(callbacks, Registers(t), IF t = "processor" THEN "machine" ELSE t)
          BY <2>2, <1>6 DEF TaskStart
        <4> QED
          BY <4>1, RegisterDomain DEF Adds
      <3>2. \A m \in 0..8 : (Past(m) <=> m < PlaceOf(t)) /\ (Past(m)' <=> m <= PlaceOf(t))
        BY <2>2, <1>6, StepsOfPlan DEF TaskStart, Passes
      <3>4. DOMAIN callbacks' \subseteq known /\ DOMAIN callbacks \subseteq DOMAIN callbacks'
        BY <3>1, <1>0 DEF RegisteredInv, Adds
      <3>5. CASE t = "processor"
        BY <3>1, <3>2, <3>4, <3>5 DEF RegisteredInv, Adds, PlaceOf
      <3>6. CASE t = "inputs"
        BY <3>1, <3>2, <3>4, <3>6 DEF RegisteredInv, Adds, PlaceOf
      <3>7. CASE t = "outputs"
        BY <3>1, <3>2, <3>4, <3>7 DEF RegisteredInv, Adds, PlaceOf
      <3>8. CASE t = "metrics"
        BY <3>1, <3>2, <3>4, <3>8 DEF RegisteredInv, Adds, PlaceOf
      <3> QED
        BY <3>5, <3>6, <3>7, <3>8
    <2> QED
      BY <2>1, <2>2
  <1>7. CASE Signals \/ Run
    <2>1. (\A m \in 0..8 : (Past(m) <=> m < 6) /\ (Past(m)' <=> m <= 6))
             \/ \A m \in 0..8 : (Past(m) <=> m < 8) /\ Past(m)'
      BY <1>7, StepsOfPlan DEF Passes
    <2>2. callbacks' = callbacks
      BY <1>7 DEF Signals, Run
    <2> QED
      BY <2>1, <2>2 DEF RegisteredInv
  <1>8. ASSUME NEW t, (TaskStop(t) /\ StepDone) \/ Join(t) \/ MainReturns PROVE RegisteredInv'
    <2>1. \A m \in 0..8 : Past(m)
      BY <1>8, StepsOfPlan DEF Passes
    <2>2. callbacks' = callbacks
      BY <1>8 DEF TaskStop, Join, MainReturns, MainFails
    <2> QED
      BY <2>1, <2>2, <1>1, <1>3
  <1>9. ASSUME NEW t, TaskStop(t), ~StepDone PROVE RegisteredInv'
    BY <1>2, <1>3, <1>9 DEF TaskStop, MainFails
  <1>10. CASE WorkerStep
    <2>1. Adds({}) \/ \E w \in Range(Workers) : Adds({HeapMetric(w)})
      <3>1. \/ callbacks' = callbacks
            \/ \E w \in Range(Workers) :
                  callbacks' = registerMetric(callbacks, {HeapMetric(w)}, Isolate(w))
        BY <1>10 DEF WorkerStep, WorkerBegins, WorkerEnds, WorkerFails, WorkerJoinsItself
      <3>2. ASSUME NEW w \in Range(Workers),
                   callbacks' = registerMetric(callbacks, {HeapMetric(w)}, Isolate(w))
            PROVE  Adds({HeapMetric(w)})
        BY <3>2, RegisterDomain DEF Adds
      <3> QED
        BY <3>1, <3>2, <1>3
    <2>2. \A w \in Range(Workers) : {HeapMetric(w)} \subseteq known
      BY DEF HeapMetrics
    <2> QED
      BY <2>1, <2>2, <1>2, <1>10, NoProgress
  <1>11. CASE SignalArrives \/ FlowStep \/ MetricsStep \/ TelegrafStep \/ (\E s \in Range(Servers) : ServerStep(s))
              \/ UNCHANGED vars
    <2>1. callbacks' = callbacks
      BY <1>11
         DEF SignalArrives, FlowStep, PushBegins, PushEnds, FlowEnds, MetricsStep, MetricsReads,
                   MetricsEnds, TelegrafStep, Snapshot, Export, ServerStep, ServerBegins, ServerEnds, vars
    <2> QED
      BY <2>1, <1>2, <1>3, <1>11, NoProgress
  <1>12. QED
    BY <1>4, <1>5, <1>6, <1>7, <1>8, <1>9, <1>10, <1>11 DEF Next, MainStep

\* Once every task is started, the table is complete.
LEMMA Complete ==
    ASSUME RegisteredInv, Past(7)
    PROVE  DOMAIN callbacks \ HeapMetrics = Reported \cup Totals
  <1>1. \A m \in 0..8 : m <= 7 => Past(m)
    BY DEF Past
  <1>2. Reported \cup Totals \subseteq DOMAIN callbacks
    BY <1>1, AllRegistered DEF RegisteredInv
  <1>3. (Reported \cup Totals) \cap HeapMetrics = {}
    BY Parts
  <1>4. QED
    BY <1>2, <1>3 DEF RegisteredInv

\* Telegraf's thread takes its snapshots of a complete table.
LEMMA ExportStep ==
    ThreadsInv /\ RegisteredInv /\ RoundInv /\ ExportsAreWhole /\ [Next]_vars
        => RoundInv' /\ ExportsAreWhole'
  <1> SUFFICES ASSUME ThreadsInv, RegisteredInv, RoundInv, ExportsAreWhole, [Next]_vars
               PROVE  RoundInv' /\ ExportsAreWhole'
    OBVIOUS
  <1>1. ASSUME Exporting PROVE DOMAIN callbacks \ HeapMetrics = Reported \cup Totals
    <2>1. "telegraf" \in Range(Servers) /\ thread["telegraf"] # "none"
      BY <1>1 DEF Exporting
    <2> QED
      BY <2>1, Complete DEF ThreadsInv
  <1>2. CASE Snapshot
    BY <1>1, <1>2 DEF Snapshot, RoundInv, ExportsAreWhole
  <1>3. CASE Export
    <2>1. Lines(first, DOMAIN callbacks) \ HeapMetrics = Reported
      BY <1>1, <1>3, LinesWhole DEF Export, RoundInv
    <2>2. first' = {} /\ (lines' = lines \/ lines' = Lines(first, DOMAIN callbacks))
      BY <1>3 DEF Export
    <2> QED
      BY <2>1, <2>2 DEF RoundInv, ExportsAreWhole
  <1>4. CASE UNCHANGED <<first, lines>>
    BY <1>4 DEF RoundInv, ExportsAreWhole
  <1>5. CASE MainStep
    <2>1. UNCHANGED <<first, lines>>
      BY <1>5
         DEF MainStep, Load, Construct, Signals, Run, MainReturns, TaskStart, TaskStop, Join
    <2> QED
      BY <2>1, <1>4
  <1>6. CASE SignalArrives \/ FlowStep \/ WorkerStep \/ MetricsStep \/ (\E s \in Range(Servers) : ServerStep(s))
             \/ UNCHANGED vars
    <2>1. UNCHANGED <<first, lines>>
      BY <1>6 DEF SignalArrives, FlowStep, PushBegins, PushEnds, FlowEnds, WorkerStep, WorkerBegins, WorkerEnds, WorkerFails,
                  WorkerJoinsItself, MetricsStep, MetricsReads, MetricsEnds, ServerStep,
                  ServerBegins, ServerEnds, vars
    <2> QED
      BY <2>1, <1>4
  <1>7. QED
    BY <1>2, <1>3, <1>5, <1>6 DEF Next, TelegrafStep

\* The metrics task is stopped for good, once main stops.
LEMMA OverStays ==
    ASSUME OrderInv, MetricsOver, [Next]_vars
    PROVE  MetricsOver'
  <1>1. ASSUME NEW op \in {"load", "construct", "start", "signals", "run"}, NEW what, Does(op, what)
        PROVE  FALSE
    <2>1. <<op, what>> \in StopSteps
      BY <1>1 DEF Does, MetricsOver, Stopping
    <2> QED
      BY <2>1 DEF StopSteps
  <1>2. ~(Load \/ Construct \/ Signals \/ Run \/ \E t : TaskStart(t))
    BY <1>1 DEF Load, Construct, Signals, Run, TaskStart
  <1>3. ASSUME NEW t, TaskStop(t) \/ Join(t) \/ MainReturns PROVE MetricsOver'
    <2>1. todo' = todo \/ (todo' = Tail(todo) /\ todo # << >>)
      BY <1>3 DEF TaskStop, Join, MainReturns, MainFails, StepDone, Does
    <2>2. started' \subseteq started
      BY <1>3 DEF TaskStop, Join, MainReturns, MainFails
    <2> QED
      BY <2>1, <2>2 DEF MetricsOver, Stopping
  <1>4. CASE SignalArrives \/ FlowStep \/ WorkerStep \/ MetricsStep \/ TelegrafStep
             \/ (\E s \in Range(Servers) : ServerStep(s)) \/ UNCHANGED vars
    BY <1>4, NoProgress DEF MetricsOver, Stopping
  <1>5. QED
    BY <1>2, <1>3, <1>4 DEF Next, MainStep

\* No isolate dies while the metrics thread may still read it.
LEMMA LiveStep == OrderInv /\ ThreadsInv /\ LiveInv /\ [Next]_vars => LiveInv'
  <1> SUFFICES ASSUME OrderInv, ThreadsInv, LiveInv, [Next]_vars, fault' # "worker" PROVE LiveInv'
    BY DEF LiveInv
  <1>0. fault' = fault /\ (MetricsOver => MetricsOver')
    <2>1. ASSUME MainStep PROVE fault' = fault
      BY <2>1
         DEF MainStep, Load, Construct, Signals, Run, MainReturns, TaskStart, TaskStop, Join
    <2>2. ASSUME FlowStep \/ WorkerStep \/ MetricsStep \/ TelegrafStep PROVE fault' = fault
      BY <2>2 DEF FlowStep, PushBegins, PushEnds, FlowEnds, WorkerStep, WorkerBegins, WorkerEnds, WorkerFails, WorkerJoinsItself,
                  MetricsStep, MetricsReads, MetricsEnds, TelegrafStep, Snapshot, Export
    <2>3. ASSUME SignalArrives \/ (\E s \in Range(Servers) : ServerStep(s)) \/ UNCHANGED vars
          PROVE  fault' = fault
      BY <2>3 DEF SignalArrives, ServerStep, ServerBegins, ServerEnds, vars
    <2>4. fault' = fault
      BY <2>1, <2>2, <2>3 DEF Next
    <2> QED
      BY <2>4, OverStays
  <1>1. ASSUME touched' = touched, dead' \subseteq dead \cup {"checked isolate"},
               "processor" \notin started' /\ Past(3)' => MetricsOver'
        PROVE  LiveInv'
    BY <1>0, <1>1 DEF LiveInv
  <1>2. ASSUME UNCHANGED <<touched, dead>>, todo' = todo, "processor" \in started => "processor" \in started'
        PROVE  LiveInv'
    <2>1. Past(3)' <=> Past(3)
      BY <1>2, StaysPast
    <2> QED
      BY <2>1, <1>0, <1>1, <1>2 DEF LiveInv
  <1>3. ASSUME UNCHANGED <<touched, dead>>, MetricsOver' PROVE LiveInv'
    BY <1>0, <1>3 DEF LiveInv
  <1>4. CASE Load
    <2>1. Past(3)' => Past(3)
      <3>1. todo' = todo \/ Passes(1)
        BY <1>4, StepsOfPlan DEF Load, MainFails
      <3> QED
        BY <3>1, StaysPast DEF Passes
    <2>2. /\ touched' = touched /\ started' = started
          /\ dead' \subseteq dead \cup {"checked isolate"}
      BY <1>4 DEF Load, CheckScripts, MainFails
    <2> QED
      BY <2>1, <2>2, <1>0, <1>1 DEF LiveInv
  <1>5. CASE Construct \/ Signals \/ Run
    <2>1. Past(3)' => Past(3)
      <3>1. \/ todo' = todo \/ Passes(2) \/ Passes(6)
            \/ \A m \in 0..8 : (Past(m) <=> m < 8) /\ Past(m)'
        BY <1>5, StepsOfPlan DEF Construct, MainFails
      <3> QED
        BY <3>1, StaysPast DEF Passes
    <2>2. /\ UNCHANGED <<touched, dead>>
          /\ "processor" \in started => "processor" \in started'
      BY <1>5 DEF Construct, Signals, Run, MainFails
    <2> QED
      BY <2>1, <2>2, <1>0, <1>1 DEF LiveInv
  <1>6. ASSUME NEW t \in {"processor", "inputs", "outputs", "metrics"}, TaskStart(t) PROVE LiveInv'
    <2>1. CASE MainFails
      BY <2>1, <1>2, <1>6 DEF TaskStart, MainFails
    <2>2. CASE ~MainFails
      <3>1. Passes(PlaceOf(t)) /\ started' = started \cup {t} /\ UNCHANGED <<touched, dead>>
        BY <2>2, <1>6, StepsOfPlan DEF TaskStart
      <3>2. t = "processor" \/ Past(3)
        BY <3>1 DEF Passes, PlaceOf
      <3> QED
        BY <3>1, <3>2, <1>0, <1>1 DEF LiveInv
    <2> QED
      BY <2>1, <2>2
  <1>7. ASSUME NEW t \in {"processor", "inputs", "outputs", "metrics"} \cup Range(Servers), TaskStop(t)
        PROVE  LiveInv'
    <2>1. CASE MainFails
      BY <2>1, <1>2, <1>7 DEF TaskStop, MainFails
    <2>2. CASE ~MainFails
      <3>1. UNCHANGED <<touched, dead>> /\ started' = started \ {t} /\ StepDone /\ Does("stop", t)
        BY <2>2, <1>7 DEF TaskStop
      <3>2. Stopping' /\ (MetricsOver \/ t = "metrics")
        BY <3>1, StopAdvance
      <3>3. MetricsOver'
        BY <3>1, <3>2, <1>0 DEF MetricsOver
      <3> QED
        BY <3>1, <3>3, <1>3
    <2> QED
      BY <2>1, <2>2
  <1>8. ASSUME NEW t, Join(t) \/ MainReturns PROVE LiveInv'
    <2>1. MetricsOver
      BY <1>8, StopAdvance DEF Join, MainReturns
    <2> QED
      BY <2>1, <1>0, <1>3, <1>8 DEF Join, MainReturns
  <1>9. ASSUME NEW w \in Range(Workers), WorkerEnds(w) PROVE LiveInv'
    <2>1. MetricsOver'
      BY <1>0, <1>9 DEF WorkerEnds, ThreadsInv, LiveInv
    <2> QED
      BY <2>1, <1>0, <1>9 DEF WorkerEnds, LiveInv
  <1>10. ASSUME NEW w \in Range(Workers), WorkerBegins(w) \/ WorkerFails(w) \/ WorkerJoinsItself(w)
         PROVE  LiveInv'
    BY <1>0, <1>2, <1>10 DEF WorkerBegins, WorkerFails, WorkerJoinsItself, LiveInv
  <1>11. CASE MetricsReads
    <2>1. dead \subseteq {"checked isolate"}
      BY <1>0, <1>11 DEF MetricsReads, MetricsOver, LiveInv
    <2>2. touched' \subseteq {"checked isolate"}
      BY <2>1, <1>0, <1>11 DEF MetricsReads, LiveInv
    <2>3. Past(3)' <=> Past(3)
      BY <1>11, StaysPast DEF MetricsReads
    <2> QED
      BY <2>1, <2>2, <2>3, <1>0, <1>11 DEF MetricsReads, LiveInv
  <1>12. CASE SignalArrives \/ FlowStep \/ MetricsEnds \/ TelegrafStep \/ UNCHANGED vars
    BY <1>2, <1>12 DEF SignalArrives, FlowStep, PushBegins, PushEnds, FlowEnds, MetricsEnds, TelegrafStep, Snapshot, Export, vars
  <1>13. CASE \E s \in Range(Servers) : ServerStep(s)
    BY <1>2, <1>13 DEF ServerStep, ServerBegins, ServerEnds
  <1>14. QED
    BY <1>4, <1>5, <1>6, <1>7, <1>8, <1>9, <1>10, <1>11, <1>12, <1>13
       DEF Next, MainStep, WorkerStep, MetricsStep

-----------------------------------------------------------------------------
(* The theorems *)

\* The inductive invariant holds in every reachable state.
LEMMA Inductive == Spec => []IInv
  <1>1. IInv /\ [Next]_vars => IInv'
    BY OrderStep, ThreadsStep, RegisteredStep, ExportStep, LiveStep DEF IInv
  <1>2. QED
    BY <1>1, InitIInv, PTL DEF Spec

\* Whenever Telegraf's thread makes its rounds, also before the processor threads have
\* registered their heap sizes and during the stop, its export has every process,
\* queue, input and output metric of the configuration: IQLogger::startImpl starts the
\* metrics after the processor, the inputs and the outputs have registered theirs, and
\* nothing unregisters.
THEOREM EveryExportWhole == Spec => []ExportsAreWhole
  BY Inductive, PTL DEF IInv

\* The order of IQLogger::stopImpl, metrics before the processor, keeps the metrics
\* thread away from the isolates that die with the processor threads, whenever the
\* signal comes; only the isolate of the configuration check, and that of a processor
\* thread that failed, can be read when it is gone.
THEOREM MetricsReadLiveObjects == Spec => []ReadsLiveObjects
  <1>1. IInv => ReadsLiveObjects
    BY DEF IInv, LiveInv, ReadsLiveObjects
  <1>2. QED
    BY <1>1, Inductive, PTL
=============================================================================
