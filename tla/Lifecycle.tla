------------------------------- MODULE Lifecycle -------------------------------
(***************************************************************************)
(* The life of the process: what main() does from reading the              *)
(* configuration to "Final!", the tasks it starts and stops in order       *)
(* (IQLogger, ProcessorMachine, InputServer, OutputServer,                 *)
(* MetricsController and the export servers, each a TaskInterface), the    *)
(* table of metric callbacks they fill, and the threads that read it.      *)
(*                                                                         *)
(* main is a list of steps still to do; every other thread runs beside it. *)
(* An exception that leaves a thread's function, or main's exit while a    *)
(* std::thread is joinable, is std::terminate.  What flows between the     *)
(* inputs, the processor and the outputs is the module Pipeline's; here    *)
(* the threads of all inputs are one thread, so are those of the outputs,  *)
(* and a push into a queue that throttles may take for ever.               *)
(***************************************************************************)
EXTENDS Naturals, Sequences, SequencesExt

CONSTANTS Workers,       \* the processor threads' indexes, in order
          Servers,       \* the configured export servers, in order: "http", "telegraf"
          Sources,       \* the configured inputs
          Destinations,  \* the configured outputs
          Faults         \* what may go wrong in a life of the process

ASSUME ServersAssumption == Servers \in Seq({"http", "telegraf"})

\* There is a processor thread, and a processor thread and its isolate are none of the
\* other threads and objects.
ASSUME WorkersAssumption ==
    /\ Workers \in Seq(Range(Workers)) /\ Workers # << >>
    /\ Range(Workers) \cap {"inputs", "outputs", "metrics", "http", "telegraf", "checked isolate"} = {}

VARIABLES todo,       \* the steps main has still to take
          started,    \* the tasks whose m_started is set
          callbacks,  \* m_metricsCallbacks: metric name -> the object its callback reads
          dead,       \* the objects of callbacks that have been destroyed
          thread,     \* the state of every std::thread, or group of them
          handled,    \* has IQLogger's signal handler been called?
          signal,     \* has the signal arrived?
          first,      \* Telegraf: the names in the first snapshot of a round, {} between rounds
          lines,      \* Telegraf: the metrics of the last export
          script,     \* does an input have a script?
          fault,      \* the one thing that goes wrong in this life
          touched,    \* history: destroyed objects the metrics thread has read
          result      \* how the process ended

vars == <<todo, started, callbacks, dead, thread, handled, signal, first, lines,
          script, fault, touched, result>>

Threads == {"inputs", "outputs", "metrics"} \cup Range(Servers) \cup Range(Workers)

\* The names, by their dotted parts; "self" stands for a part that is not there.
QueueMetric(section, child) == <<section, child, "queue">>
HeapMetric(w) == <<"processor", w, "heap_size">>
HeapMetrics == {HeapMetric(w) : w \in Range(Workers)}
ProcessMetrics == {<<"process", m, "self">> : m \in {"cpu", "memory", "threads", "fds"}}
Totals == {<<"inputs", "receive_total", "self">>, <<"outputs", "sent_total", "self">>}

\* std::map::insert: a name that is there keeps the callback it has.
registerMetric(table, names, owner) ==
    [n \in DOMAIN table \cup names |-> IF n \in DOMAIN table THEN table[n] ELSE owner]

-----------------------------------------------------------------------------
(* main's steps: what is done, and to which task or thread, "self" for main's own. *)

Does(op, what) == result = "running" /\ todo # << >> /\ Head(todo) = <<op, what>>

StepDone == todo' = Tail(todo)

Ends(how) == result' = how

\* main leaves with an exception or a 1: the destructor of a joinable thread terminates.
MainFails ==
    /\ Ends(IF \E t \in Threads : thread[t] \notin {"none", "joined"} THEN "terminated"
                                                                      ELSE "failed")
    /\ UNCHANGED <<todo, started, callbacks, dead, thread>>

(* Faulty variant: statistics first, so that the start of the rest can be watched. *)
StartOrder_metrics_first ==
    << <<"start", "metrics">>, <<"start", "processor">>, <<"start", "inputs">>,
       <<"start", "outputs">>, <<"signals", "self">>, <<"run", "self">> >>

StartOrder == << <<"start", "processor">>, <<"start", "inputs">>, <<"start", "outputs">>,
                 <<"signals", "self">>, <<"start", "metrics">>, <<"run", "self">> >>

(* Faulty variant: the processor is stopped before the metrics that read its isolates. *)
StopOrder_metrics_last ==
    << <<"stop", "inputs">>, <<"join", "inputs">>, <<"stop", "outputs">>, <<"join", "outputs">>,
       <<"stop", "processor">> >>
    \o [i \in 1..Len(Workers) |-> <<"join", Workers[i]>>]
    \o << <<"stop", "metrics">> >>
    \o [i \in 1..Len(Servers) |-> <<"stop", Servers[i]>>]
    \o [i \in 1..Len(Servers) |-> <<"join", Servers[i]>>]
    \o << <<"join", "metrics">>, <<"return", "self">> >>

(* Faulty variant: the export servers' threads are joined before the servers are stopped. *)
StopOrder_join_first ==
    << <<"stop", "metrics">> >>
    \o [i \in 1..Len(Servers) |-> <<"join", Servers[i]>>]
    \o [i \in 1..Len(Servers) |-> <<"stop", Servers[i]>>]
    \o << <<"join", "metrics">>, <<"stop", "inputs">>, <<"join", "inputs">>,
          <<"stop", "outputs">>, <<"join", "outputs">>, <<"stop", "processor">> >>
    \o [i \in 1..Len(Workers) |-> <<"join", Workers[i]>>]
    \o << <<"return", "self">> >>

\* IQLogger::stopImpl, with the stopImpl of every task it stops inlined.
StopOrder ==
    << <<"stop", "metrics">> >>
    \o [i \in 1..Len(Servers) |-> <<"stop", Servers[i]>>]
    \o [i \in 1..Len(Servers) |-> <<"join", Servers[i]>>]
    \o << <<"join", "metrics">>, <<"stop", "inputs">>, <<"join", "inputs">>,
          <<"stop", "outputs">>, <<"join", "outputs">>, <<"stop", "processor">> >>
    \o [i \in 1..Len(Workers) |-> <<"join", Workers[i]>>]
    \o << <<"return", "self">> >>

Init ==
    /\ todo = << <<"load", "self">>, <<"construct", "self">> >> \o StartOrder
    /\ started = {} /\ dead = {} /\ touched = {}
    /\ callbacks = [n \in {} |-> "none"]
    /\ thread = [t \in Threads |-> "none"]
    /\ handled = FALSE /\ signal = FALSE
    /\ first = {} /\ lines = {}
    /\ script \in BOOLEAN
    /\ fault \in Faults \cup {"none"}
    /\ result = "running"

\* MetricsController's constructor, from whoever needs the singleton first: it makes
\* the export servers, and the HTTP one binds its port.
MetricsControllerFails == fault = "port" /\ "http" \in Range(Servers)

\* IsolateScope's constructor: a script that does not compile, throws when it is run or
\* is no function.
ScriptFails == fault = "script"

\* ConfigManager::reload: a file that cannot be read or is wrong, or the check fails; the
\* check of a script is the first to need the metrics controller.
ConfigFails == fault = "config" \/ (script /\ (ScriptFails \/ MetricsControllerFails))

\* checkScript: a Processor 0 is built of every script, whose Isolate registers its heap
\* size and is gone when the check is done.
CheckScripts ==
    IF script
    THEN /\ callbacks' = registerMetric(
                registerMetric(callbacks, {QueueMetric("processor", "self")}, "machine"),
                {HeapMetric(Workers[1])}, "checked isolate")
         /\ dead' = dead \cup {"checked isolate"}
    ELSE UNCHANGED <<callbacks, dead>>

Load ==
    /\ Does("load", "self")
    /\ \/ ConfigFails /\ MainFails
       \/ /\ ~ConfigFails
          /\ CheckScripts
          /\ \/ StepDone /\ UNCHANGED result
             \/ Ends("clean") /\ UNCHANGED todo           \* --check-config
          /\ UNCHANGED <<started, thread>>
    /\ UNCHANGED <<handled, signal, first, lines, script, fault, touched>>

InputQueues == {QueueMetric("inputs", s) : s \in Sources}
OutputQueues == {QueueMetric("outputs", d) : d \in Destinations}

\* IQLogger's constructor makes the singletons, main's start() sets m_started.
Construct ==
    /\ Does("construct", "self")
    /\ \/ MetricsControllerFails /\ MainFails
       \/ /\ ~MetricsControllerFails
          /\ callbacks' =
                LET main == registerMetric(callbacks, {QueueMetric("main_queue", "self")}, "main queue")
                IN  registerMetric(registerMetric(main, InputQueues, "inputs"), OutputQueues, "outputs")
          /\ started' = started \cup {"iqlogger"}
          /\ StepDone
          /\ UNCHANGED <<dead, thread, result>>
    /\ UNCHANGED <<handled, signal, first, lines, script, fault, touched>>

\* What each task's startImpl registers, and the threads it makes.
Registers(t) ==
    CASE t = "processor" -> {QueueMetric("processor", "self")}
      [] t = "inputs"    -> {<<"inputs", "receive_total", "self">>}
                            \cup {<<"inputs", s, "receive_total">> : s \in Sources}
      [] t = "outputs"   -> {<<"outputs", "sent_total", "self">>}
                            \cup {<<"outputs", d, "send_total">> : d \in Destinations}
      [] t = "metrics"   -> ProcessMetrics

Makes(t) ==
    CASE t = "processor" -> Range(Workers)
      [] t = "metrics"   -> {"metrics"} \cup Range(Servers)
      [] OTHER           -> {t}

\* TaskInterface::start: the flag first, then startImpl.  An input may fail to start:
\* SavePositionServer needs its directory.
TaskStart(t) ==
    /\ Does("start", t)
    /\ \/ t = "inputs" /\ fault = "directory" /\ MainFails
       \/ /\ ~(t = "inputs" /\ fault = "directory")
          /\ started' = started \cup {t}
          /\ callbacks' = registerMetric(callbacks, Registers(t),
                                         IF t = "processor" THEN "machine" ELSE t)
          /\ thread' = [u \in Threads |-> IF u \in Makes(t) THEN "made" ELSE thread[u]]
          /\ StepDone
          /\ UNCHANGED <<dead, result>>
    /\ UNCHANGED <<handled, signal, first, lines, script, fault, touched>>

Signals ==
    /\ Does("signals", "self")
    /\ handled' = TRUE /\ StepDone
    /\ UNCHANGED <<started, callbacks, dead, thread, signal, first, lines, script, fault, touched, result>>

\* SIGINT, SIGTERM or SIGQUIT: its default action until the handler is there.
SignalArrives ==
    /\ result = "running" /\ ~signal
    /\ signal' = TRUE
    /\ IF handled THEN UNCHANGED result ELSE Ends("killed")
    /\ UNCHANGED <<todo, started, callbacks, dead, thread, handled, first, lines, script, fault, touched>>

\* m_io_context.run() calls the handler: IQLogger::stop().
Run ==
    /\ Does("run", "self") /\ signal
    /\ todo' = StopOrder
    /\ started' = started \ {"iqlogger"}
    /\ UNCHANGED <<callbacks, dead, thread, handled, signal, first, lines, script, fault, touched, result>>

\* TaskInterface::stop: a task that does not run throws, and nobody below main catches;
\* so does the stop of a LogOutput, which calls its own stop() a second time.
TaskStop(t) ==
    /\ Does("stop", t)
    /\ \/ (t \notin started \/ (t = "outputs" /\ fault = "log output")) /\ MainFails
       \/ /\ t \in started /\ ~(t = "outputs" /\ fault = "log output")
          /\ started' = started \ {t}
          /\ StepDone
          /\ UNCHANGED <<callbacks, dead, thread, result>>
    /\ UNCHANGED <<handled, signal, first, lines, script, fault, touched>>

Join(t) ==
    /\ Does("join", t) /\ thread[t] = "ended"
    /\ thread' = [thread EXCEPT ![t] = "joined"]
    /\ StepDone
    /\ UNCHANGED <<started, callbacks, dead, handled, signal, first, lines, script, fault, touched, result>>

\* The handler, run(), start() and main() return.
MainReturns ==
    /\ Does("return", "self")
    /\ Ends("clean") /\ StepDone
    /\ UNCHANGED <<started, callbacks, dead, thread, handled, signal, first, lines, script, fault, touched>>

-----------------------------------------------------------------------------
(* The threads that messages flow through. *)

Becomes(t, state) == thread' = [thread EXCEPT ![t] = state]

\* A thread of the inputs or the outputs is in its loop as soon as it is made.
InLoop(t) == thread[t] \in (IF t \in {"inputs", "outputs"} THEN {"made", "running"} ELSE {"running"})

TaskOf(t) == IF t \in Range(Workers) THEN "processor" ELSE t

\* The loop has seen that its task runs, and has messages for the next queue.
PushBegins(t) ==
    /\ result = "running" /\ InLoop(t) /\ TaskOf(t) \in started
    /\ Becomes(t, "pushing")
    /\ UNCHANGED <<todo, started, callbacks, dead, handled, signal, first, lines, script, fault, touched, result>>

\* enqueue_bulk returns.  It need not: a queue that throttles keeps the thread until
\* there is room, and does not look at the task.
PushEnds(t) ==
    /\ result = "running" /\ thread[t] = "pushing"
    /\ Becomes(t, "running")
    /\ UNCHANGED <<todo, started, callbacks, dead, handled, signal, first, lines, script, fault, touched, result>>

\* The loop of an input or of the outputs sees that its task has stopped.
FlowEnds(t) ==
    /\ result = "running" /\ InLoop(t) /\ t \notin started
    /\ Becomes(t, "ended")
    /\ UNCHANGED <<todo, started, callbacks, dead, handled, signal, first, lines, script, fault, touched, result>>

-----------------------------------------------------------------------------
(* The processor threads. *)

Isolate(w) == w

\* A Processor on the thread's stack: its Isolate registers its heap size.
WorkerBegins(w) ==
    /\ result = "running" /\ thread[w] = "made"
    /\ Becomes(w, "running")
    /\ callbacks' = registerMetric(callbacks, {HeapMetric(w)}, Isolate(w))
    /\ UNCHANGED <<todo, started, dead, handled, signal, first, lines, script, fault, touched, result>>

\* The loop sees that the machine has stopped, and the Processor leaves its scope.
WorkerEnds(w) ==
    /\ result = "running" /\ thread[w] = "running" /\ "processor" \notin started
    /\ Becomes(w, "ended")
    /\ dead' = dead \cup {Isolate(w)}
    /\ UNCHANGED <<todo, started, callbacks, handled, signal, first, lines, script, fault, touched, result>>

\* An exception the loop does not handle: the Processor is unwound, then stop() is
\* called from the thread itself; if the machine has been stopped already it throws.
WorkerFails(w) ==
    /\ result = "running" /\ fault = "worker" /\ thread[w] = "running"
    /\ dead' = dead \cup {Isolate(w)}
    /\ IF "processor" \in started
       THEN started' = started \ {"processor"} /\ Becomes(w, "joining") /\ UNCHANGED result
       ELSE Ends("terminated") /\ UNCHANGED <<started, thread>>
    /\ UNCHANGED <<todo, callbacks, handled, signal, first, lines, script, fault, touched>>

\* Its stop() joins the threads in order until it comes to itself: system_error.
WorkerJoinsItself(w) ==
    /\ result = "running" /\ thread[w] = "joining"
    /\ \A i \in 1..Len(Workers) :
          (\E j \in 1..Len(Workers) : i < j /\ Workers[j] = w) => thread[Workers[i]] \in {"ended", "joined"}
    /\ Ends("terminated")
    /\ UNCHANGED <<todo, started, callbacks, dead, thread, handled, signal, first, lines, script, fault, touched>>

-----------------------------------------------------------------------------
(* The metrics thread and the export servers' threads. *)

\* processMetrics calls every callback.  open_fds lists a directory: out of file
\* descriptors, it throws.
MetricsReads ==
    /\ result = "running" /\ thread["metrics"] \in {"made", "running"} /\ "metrics" \in started
    /\ \/ /\ touched' = touched \cup (Range(callbacks) \cap dead)
          /\ Becomes("metrics", "running")
          /\ UNCHANGED result
       \/ /\ fault = "descriptors"
          /\ Ends("terminated")
          /\ UNCHANGED <<touched, thread>>
    /\ UNCHANGED <<todo, started, callbacks, dead, handled, signal, first, lines, script, fault>>

MetricsEnds ==
    /\ result = "running" /\ thread["metrics"] \in {"made", "running"} /\ "metrics" \notin started
    /\ Becomes("metrics", "ended")
    /\ UNCHANGED <<todo, started, callbacks, dead, handled, signal, first, lines, script, fault, touched, result>>

\* The thread of an export server calls its start().  Telegraf resolves its host there.
ServerBegins(s) ==
    /\ result = "running" /\ thread[s] = "made"
    /\ started' = started \cup {s}
    /\ IF s = "telegraf" /\ fault = "resolve"
       THEN Ends("terminated") /\ UNCHANGED thread
       ELSE Becomes(s, "running") /\ UNCHANGED result
    /\ UNCHANGED <<todo, callbacks, dead, handled, signal, first, lines, script, fault, touched>>

\* HTTP's run() returns once it is stopped, Telegraf's loop at its next look at the flag.
ServerEnds(s) ==
    /\ result = "running" /\ thread[s] = "running" /\ s \notin started
    /\ s = "telegraf" => first = {}
    /\ Becomes(s, "ended")
    /\ UNCHANGED <<todo, started, callbacks, dead, handled, signal, first, lines, script, fault, touched, result>>

Exporting == result = "running" /\ "telegraf" \in Range(Servers) /\ thread["telegraf"] = "running"

\* exportTelegraf: the first getMetrics().
Snapshot ==
    /\ Exporting /\ "telegraf" \in started /\ first = {}
    /\ first' = DOMAIN callbacks
    /\ UNCHANGED <<todo, started, callbacks, dead, thread, handled, signal, lines, script, fault, touched, result>>

\* The single values and the heap sizes are looked up in the first snapshot, the
\* children of a section in the second; a value that is missing drops its section.
Lines(one, two) ==
    LET single == ProcessMetrics \cup {QueueMetric("processor", "self"), QueueMetric("main_queue", "self")}
        heaps  == two \cap HeapMetrics
    IN  (IF ProcessMetrics \subseteq one THEN one \cap single ELSE (one \cap single) \ ProcessMetrics)
        \cup (IF heaps \subseteq one THEN heaps ELSE {})
        \cup {n \in two \ Totals : n[1] \in {"inputs", "outputs"}}

\* getMetricsPtree: the second getMetrics().  get_child of a section that is not
\* there throws an exception nobody catches.
Export ==
    /\ Exporting /\ first # {}
    /\ LET two == DOMAIN callbacks
       IN  IF {"processor", "inputs", "outputs"} \subseteq {n[1] : n \in two}
           THEN lines' = Lines(first, two) /\ UNCHANGED result
           ELSE Ends("terminated") /\ UNCHANGED lines
    /\ first' = {}
    /\ UNCHANGED <<todo, started, callbacks, dead, thread, handled, signal, script, fault, touched>>

-----------------------------------------------------------------------------
MainStep ==
    \/ Load \/ Construct \/ Signals \/ Run \/ MainReturns
    \/ \E t \in {"processor", "inputs", "outputs", "metrics"} : TaskStart(t)
    \/ \E t \in {"processor", "inputs", "outputs", "metrics"} \cup Range(Servers) : TaskStop(t)
    \/ \E t \in Threads : Join(t)

WorkerStep == \E w \in Range(Workers) :
    WorkerBegins(w) \/ WorkerEnds(w) \/ WorkerFails(w) \/ WorkerJoinsItself(w)

FlowStep ==
    \/ \E t \in {"inputs", "outputs"} \cup Range(Workers) : PushBegins(t) \/ PushEnds(t)
    \/ \E t \in {"inputs", "outputs"} : FlowEnds(t)

MetricsStep == MetricsReads \/ MetricsEnds

ServerStep(s) == ServerBegins(s) \/ ServerEnds(s)

TelegrafStep == Snapshot \/ Export

Next ==
    \/ MainStep \/ SignalArrives \/ FlowStep \/ WorkerStep \/ MetricsStep
    \/ \E s \in Range(Servers) : ServerStep(s)
    \/ TelegrafStep

\* main runs, and every thread is scheduled: their loops sleep and wake.  The signal
\* need not come, and a push need not end.
Fairness ==
    /\ WF_vars(MainStep)
    /\ \A t \in {"inputs", "outputs"} : WF_vars(FlowEnds(t))
    /\ \A w \in Range(Workers) : WF_vars(WorkerBegins(w)) /\ WF_vars(WorkerEnds(w))
                                 /\ WF_vars(WorkerJoinsItself(w))
    /\ WF_vars(MetricsEnds)
    /\ \A s \in Range(Servers) : WF_vars(ServerStep(s))
    /\ WF_vars(TelegrafStep)

Spec == Init /\ [][Next]_vars /\ Fairness

-----------------------------------------------------------------------------
(* Properties. *)

\* What a running process has to report, heap sizes aside.
Reported == ProcessMetrics \cup {QueueMetric("processor", "self"), QueueMetric("main_queue", "self")}
    \cup {<<"inputs", s, m>> : s \in Sources, m \in {"queue", "receive_total"}}
    \cup {<<"outputs", d, m>> : d \in Destinations, m \in {"queue", "send_total"}}

\* Every export to Telegraf carries all the process, queue, input and output metrics
\* of the configuration, also the first one and also while the processor threads are
\* still registering theirs; the heap sizes may be missing from a round.
ExportsAreWhole == lines # {} => lines \ HeapMetrics = Reported

\* The metrics thread never calls a callback whose object is gone, whenever the signal
\* comes, except the one the configuration check left behind and that of a processor
\* thread that failed.
ReadsLiveObjects == touched \subseteq {"checked isolate"} \/ fault = "worker"

\* main waits in the join of a thread that is inside a push.
Held == \E t \in {"inputs", "outputs"} \cup Range(Workers) :
    result = "running" /\ Head(todo) = <<"join", t>> /\ thread[t] = "pushing"

\* When nothing has gone wrong and every export server had begun when the stop did,
\* the stop ends all threads, joins them and the process exits cleanly, or main is held
\* for good by one thread that never gets its messages into the next queue: there is no
\* other way for IQLogger::stop to hang, and none for it to fail.
StopSettles ==
    [](todo = StopOrder /\ fault = "none" /\ Range(Servers) \subseteq started
          => <>(result = "clean" \/ []Held))

=============================================================================
