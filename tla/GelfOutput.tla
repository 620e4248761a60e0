----------------------------- MODULE GelfOutput -----------------------------
(***************************************************************************)
(* The threads of a GELF TCP output (src/src/outputs/gelf/tcp): each keeps *)
(* a connection to its upstream, takes bulks of records from the output    *)
(* queue, packs them into buffers and writes each buffer, again and again  *)
(* on new connections, until a write succeeds or the output is stopped.    *)
(*                                                                         *)
(* The threads of one output share m_io_service.  It is external, and      *)
(* modelled by what the code uses of it: pending operations are work; a    *)
(* thread in run() executes the handlers of any thread; when the work is   *)
(* done, stop() is called, in a step of its own, which makes every run()   *)
(* return; restart() undoes stop().                                        *)
(***************************************************************************)
EXTENDS Naturals, FiniteSets

CONSTANTS
    Threads,      \* threads an output may have
    RecordCount,  \* bound: records in the output queue
    QueueBulk     \* queue_bulk

ASSUME ThreadsAssumption == IsFiniteSet(Threads) /\ Threads # {}
ASSUME RecordsAssumption == RecordCount \in Nat /\ QueueBulk \in Nat \ {0}

Records == 1..RecordCount  \* in the order of the queue

VARIABLES
    active,     \* the threads this output has (m_thread_num)
    running,    \* isRunning()
    queue,      \* m_outputQueuePtr
    \* m_io_service
    stopped,    \* stopped()
    stopDue,    \* threads that found no work left and are about to stop() it
    op,         \* per thread: the operation it waits for
    late,       \* per thread: how many of each kind it no longer waits for
    \* per thread
    pc, stage, error, socket,
    bulk,       \* records dequeued
    left,       \* those of them not yet put into a buffer
    buffer,     \* records in the buffer being flushed
    counted,    \* records in m_send_counter
    \* history
    accepted,   \* records in a write that succeeded
    again,      \* records in two of them
    doubtful    \* records a thread had in hand while an operation of its was late

ioVars == <<stopped, stopDue>>
dataVars == <<queue, bulk, left, buffer, counted>>
historyVars == <<accepted, again, doubtful>>
vars == <<active, running, queue, stopped, stopDue, op, late, pc, stage, error, socket,
          bulk, left, buffer, counted, accepted, again, doubtful>>

\* connect: about to call connect(); enter, run: in run_for(); check: before the
\* test of stopped(); enterDrain, drain: in run() after the socket was closed;
\* after: the lambda run has returned; flush: at the top of the loop of flush;
\* write: about to write; loop: at the top of the main loop.
Places == {"connect", "enter", "run", "check", "enterDrain", "drain", "after",
           "flush", "write", "loop", "exited"}

\* The kinds of a pending operation.
Kinds == {"connect", "write", "aborted"}

TypeOK ==
    /\ active \subseteq Threads
    /\ running \in BOOLEAN
    /\ queue \subseteq Records
    /\ stopped \in BOOLEAN
    /\ stopDue \subseteq active
    /\ op \in [Threads -> Kinds \cup {"none"}]
    /\ late \in [Threads -> [Kinds -> Nat]]
    /\ pc \in [Threads -> Places]
    /\ stage \in [Threads -> {"first", "again", "write"}]
    /\ error \in [Threads -> BOOLEAN]
    /\ socket \in [Threads -> {"closed", "open", "connected", "broken"}]
    /\ bulk \in [Threads -> SUBSET Records]
    /\ left \in [Threads -> SUBSET Records]
    /\ buffer \in [Threads -> SUBSET Records]
    /\ counted \subseteq Records
    /\ accepted \subseteq Records
    /\ again \subseteq Records
    /\ doubtful \subseteq Records
    /\ \A t \in active : stage[t] # "first" /\ pc[t] \notin {"loop", "exited"} =>
           buffer[t] # {}

\* startImpl: every thread begins with connect().
Init ==
    /\ active \in SUBSET Threads \ {{}}
    /\ running = TRUE
    /\ queue = Records
    /\ stopped = FALSE
    /\ stopDue = {}
    /\ op = [t \in Threads |-> "none"]
    /\ late = [t \in Threads |-> [k \in Kinds |-> 0]]
    /\ pc = [t \in Threads |-> IF t \in active THEN "connect" ELSE "exited"]
    /\ stage = [t \in Threads |-> "first"]
    /\ error = [t \in Threads |-> FALSE]
    /\ socket = [t \in Threads |-> "closed"]
    /\ bulk = [t \in Threads |-> {}]
    /\ left = [t \in Threads |-> {}]
    /\ buffer = [t \in Threads |-> {}]
    /\ counted = {}
    /\ accepted = {}
    /\ again = {}
    /\ doubtful = {}

-----------------------------------------------------------------------------
(* The io service (external) *)

\* Thread t has an operation it no longer waits for.
HasLate(t) == \E k \in Kinds : late[t][k] > 0

Work == {t \in Threads : op[t] # "none" \/ HasLate(t)}

\* The last handler is done, or run() is entered without work: stop() is next.
NoWorkLeft(t, work) == stopDue' = IF work = {} THEN stopDue \cup {t} ELSE stopDue

StopService(t) ==
    /\ t \in stopDue
    /\ stopped' = TRUE
    /\ stopDue' = stopDue \ {t}
    /\ UNCHANGED <<active, running, op, late, pc, stage, error, socket, dataVars,
                   historyVars>>

Enter(t, from, to) ==
    /\ pc[t] = from
    /\ pc' = [pc EXCEPT ![t] = to]
    /\ NoWorkLeft(t, Work)
    /\ UNCHANGED <<active, running, stopped, op, late, stage, error, socket, dataVars,
                   historyVars>>

\* The operation of that kind t waits for is over, or one it left pending is.
Own(t, kind) ==
    /\ op[t] = kind
    /\ op' = [op EXCEPT ![t] = "none"]
    /\ UNCHANGED late

Late(t, kind) ==
    /\ late[t][kind] > 0
    /\ late' = [late EXCEPT ![t][kind] = @ - 1]
    /\ UNCHANGED op

\* Thread u executes the handler of that operation of t: error = ec, by reference,
\* in the frame of t, whatever t does meanwhile.  (Once t has exited the frame is
\* dead, and nobody reads the variable.)
Handles(u, t, ec) ==
    /\ ~stopped /\ pc[u] \in {"run", "drain"} /\ u \notin stopDue
    /\ error' = [error EXCEPT ![t] = ec]
    /\ NoWorkLeft(u, Work')
    /\ UNCHANGED <<active, running, stopped, pc, stage, dataVars>>

\* The upstream accepts the connection or refuses it.
Connected(u, t) ==
    /\ Own(t, "connect") \/ Late(t, "connect")
    /\ \E ec \in BOOLEAN :
        /\ Handles(u, t, ec)
        /\ socket' = [socket EXCEPT ![t] = IF ec THEN "open" ELSE "connected"]
    /\ UNCHANGED historyVars

\* The whole buffer was handed to the connection, or the write failed, always
\* if there is no connection, and the upstream has an unknown part of it.  What
\* a late write has sent is not known either: flush has freed its buffer.
Written(u, t) ==
    \/ /\ socket[t] = "connected"
       /\ \/ /\ Own(t, "write")
             /\ accepted' = accepted \cup buffer[t]
             /\ again' = again \cup (accepted \cap buffer[t])
          \/ /\ Late(t, "write")
             /\ UNCHANGED <<accepted, again>>
       /\ Handles(u, t, FALSE)
       /\ UNCHANGED <<socket, doubtful>>
    \/ /\ Own(t, "write") \/ Late(t, "write")
       /\ Handles(u, t, TRUE)
       /\ socket' = [socket EXCEPT ![t] = IF @ = "connected" THEN "broken" ELSE @]
       /\ UNCHANGED historyVars

\* The handler of an operation whose socket was closed.
Aborted(u, t) ==
    /\ Own(t, "aborted") \/ Late(t, "aborted")
    /\ Handles(u, t, TRUE)
    /\ UNCHANGED <<socket, historyVars>>

\* close() aborts every operation of the socket.
AllAborted(l) ==
    [k \in Kinds |-> IF k = "aborted" THEN l["connect"] + l["write"] + l[k] ELSE 0]

Close(t) ==
    /\ socket' = [socket EXCEPT ![t] = "closed"]
    /\ op' = [op EXCEPT ![t] = IF @ = "none" THEN @ ELSE "aborted"]
    /\ late' = [late EXCEPT ![t] = AllAborted(@)]

-----------------------------------------------------------------------------
(* The lambda run *)

\* As StartOperation, without restart().
StartOperation_NoRestart(t, kind) ==
    /\ op' = [op EXCEPT ![t] = kind]
    /\ pc' = [pc EXCEPT ![t] = "enter"]
    /\ UNCHANGED stopped

\* restart(), with the operation just started.
StartOperation(t, kind) ==
    /\ op' = [op EXCEPT ![t] = kind]
    /\ stopped' = FALSE
    /\ pc' = [pc EXCEPT ![t] = "enter"]

\* run_for returns: the service was stopped, or m_timeout is over.
RunForReturns(t) ==
    /\ pc[t] = "run" /\ t \notin stopDue
    /\ pc' = [pc EXCEPT ![t] = "check"]
    /\ UNCHANGED <<active, running, ioVars, op, late, stage, error, socket, dataVars,
                   historyVars>>

\* As TimedOut, taking the time-out for an error whatever the handler said.
TimedOut_IsError(t) ==
    /\ pc[t] = "check"
    /\ ~stopped
    /\ Close(t)
    /\ error' = [error EXCEPT ![t] = TRUE]
    /\ pc' = [pc EXCEPT ![t] = "enterDrain"]
    /\ UNCHANGED <<active, running, ioVars, stage, dataVars, historyVars>>

\* Not stopped: the socket is closed, which aborts its operation, and run() waits
\* for the operations of all threads.
TimedOut(t) ==
    /\ pc[t] = "check"
    /\ ~stopped
    /\ Close(t)
    /\ pc' = [pc EXCEPT ![t] = "enterDrain"]
    /\ UNCHANGED <<active, running, ioVars, stage, error, dataVars, historyVars>>

\* The lambda returns.  An operation that is still pending stays pending: its
\* handler, which refers to error, is executed by whoever is in run() then.
RunReturns(t) ==
    /\ pc[t] \in {"check", "drain"} /\ t \notin stopDue
    /\ stopped
    /\ pc' = [pc EXCEPT ![t] = "after"]
    /\ op' = [op EXCEPT ![t] = "none"]
    /\ IF op[t] = "none"
       THEN UNCHANGED <<late, doubtful>>
       ELSE /\ late' = [late EXCEPT ![t][op[t]] = @ + 1]
            /\ doubtful' = doubtful \cup bulk[t]
    /\ UNCHANGED <<active, running, ioVars, stage, error, socket, dataVars,
                   accepted, again>>

-----------------------------------------------------------------------------
(* The lambdas connect, reconnect and flush *)

\* reconnect() closes the socket and sleeps before it calls connect().
Reconnect(t) ==
    /\ Close(t)
    /\ pc' = [pc EXCEPT ![t] = "connect"]

Connect(t) ==
    /\ pc[t] = "connect"
    /\ StartOperation(t, "connect")
    /\ socket' = [socket EXCEPT ![t] = "open"]
    /\ UNCHANGED <<active, running, late, stopDue, stage, error, dataVars, historyVars>>

\* The name of the upstream cannot be resolved.
ResolveThrows(t) ==
    /\ pc[t] = "connect"
    /\ error' = [error EXCEPT ![t] = TRUE]
    /\ pc' = [pc EXCEPT ![t] = "after"]
    /\ UNCHANGED <<active, running, ioVars, op, late, stage, socket, dataVars, historyVars>>

\* The end of connect: setting an option of a socket that a time-out has closed
\* throws, and the exception counts as an error.
ConnectError(t) == error[t] \/ socket[t] = "closed"

\* As FirstConnection, without looking at isRunning().
FirstConnection_Forever(t) ==
    /\ pc[t] = "after" /\ stage[t] = "first"
    /\ IF ConnectError(t)
       THEN /\ error' = [error EXCEPT ![t] = FALSE]
            /\ Reconnect(t)
       ELSE /\ pc' = [pc EXCEPT ![t] = "loop"]
            /\ UNCHANGED <<error, op, late, socket>>
    /\ UNCHANGED <<active, running, ioVars, stage, dataVars, historyVars>>

\* The first connection: reconnect until there is one, or the output stops.
FirstConnection(t) ==
    /\ pc[t] = "after" /\ stage[t] = "first"
    /\ IF ConnectError(t) /\ running
       THEN /\ error' = [error EXCEPT ![t] = FALSE]
            /\ Reconnect(t)
       ELSE /\ pc' = [pc EXCEPT ![t] = "loop"]
            /\ UNCHANGED <<error, op, late, socket>>
    /\ UNCHANGED <<active, running, ioVars, stage, dataVars, historyVars>>

\* After a reconnect the buffer is written, whether there is a connection or not.
Reconnected(t) ==
    /\ pc[t] = "after" /\ stage[t] = "again"
    /\ error' = [error EXCEPT ![t] = ConnectError(t)]
    /\ pc' = [pc EXCEPT ![t] = "write"]
    /\ UNCHANGED <<active, running, ioVars, op, late, stage, socket, dataVars, historyVars>>

Write(t) ==
    /\ pc[t] = "write"
    /\ StartOperation(t, "write")
    /\ stage' = [stage EXCEPT ![t] = "write"]
    /\ UNCHANGED <<active, running, late, stopDue, error, socket, dataVars, historyVars>>

\* A failed write: once more from the top of the loop, unless the output stops.
Retry(t) ==
    /\ pc[t] = "after" /\ stage[t] = "write"
    /\ error[t] /\ running
    /\ pc' = [pc EXCEPT ![t] = "flush"]
    /\ UNCHANGED <<active, running, ioVars, op, late, stage, error, socket, dataVars,
                   historyVars>>

\* As FlushBegins, with the buffer cleared before it is written again.
FlushBegins_Cleared(t) ==
    /\ pc[t] = "flush"
    /\ IF error[t]
       THEN /\ stage' = [stage EXCEPT ![t] = "again"]
            /\ buffer' = [buffer EXCEPT ![t] = {}]
            /\ Reconnect(t)
       ELSE /\ pc' = [pc EXCEPT ![t] = "write"]
            /\ UNCHANGED <<stage, buffer, op, late, socket>>
    /\ UNCHANGED <<active, running, ioVars, error, queue, bulk, left, counted,
                   historyVars>>

\* The top of the loop looks at error again: reconnect, or write at once.
FlushBegins(t) ==
    /\ pc[t] = "flush"
    /\ IF error[t]
       THEN /\ stage' = [stage EXCEPT ![t] = "again"]
            /\ Reconnect(t)
       ELSE /\ pc' = [pc EXCEPT ![t] = "write"]
            /\ UNCHANGED <<stage, op, late, socket>>
    /\ UNCHANGED <<active, running, ioVars, error, dataVars, historyVars>>

-----------------------------------------------------------------------------
(* The main loop *)

\* The first records of from, one at least.
Prefixes(from) == {{r \in from : r <= last} : last \in from}

\* Some of the records in from fill the buffer; flush clears error and begins.
Fill(t, from) ==
    \E b \in Prefixes(from) :
        /\ buffer' = [buffer EXCEPT ![t] = b]
        /\ left' = [left EXCEPT ![t] = from \ b]
        /\ error' = [error EXCEPT ![t] = FALSE]
        /\ pc' = [pc EXCEPT ![t] = "flush"]

Fetch(t) ==
    /\ pc[t] = "loop" /\ running
    /\ \E b \in Prefixes(queue) :
        /\ Cardinality(b) <= QueueBulk
        /\ queue' = queue \ b
        /\ bulk' = [bulk EXCEPT ![t] = b]
        /\ Fill(t, b)
        /\ doubtful' = IF HasLate(t) THEN doubtful \cup b ELSE doubtful
    /\ UNCHANGED <<active, running, ioVars, op, late, stage, socket, counted, accepted,
                   again>>

\* The counters grow by the whole bulk.
BulkDone(t) ==
    /\ counted' = counted \cup bulk[t]
    /\ bulk' = [bulk EXCEPT ![t] = {}]
    /\ buffer' = [buffer EXCEPT ![t] = {}]
    /\ pc' = [pc EXCEPT ![t] = "loop"]
    /\ UNCHANGED <<left, error>>

\* As FlushReturns, without looking at the error.
FlushReturns_Unchecked(t) ==
    /\ pc[t] = "after" /\ stage[t] = "write"
    /\ \/ /\ left[t] # {}
          /\ Fill(t, left[t])
          /\ UNCHANGED <<bulk, counted>>
       \/ /\ left[t] = {}
          /\ BulkDone(t)
    /\ UNCHANGED <<active, running, queue, ioVars, op, late, stage, socket, historyVars>>

\* flush has returned, without an error or because the output was stopped: the
\* next buffer, or the bulk is done and counted.
FlushReturns(t) ==
    /\ pc[t] = "after" /\ stage[t] = "write"
    /\ ~(error[t] /\ running)
    /\ \/ /\ left[t] # {}
          /\ Fill(t, left[t])
          /\ UNCHANGED <<bulk, counted>>
       \/ /\ left[t] = {}
          /\ BulkDone(t)
    /\ UNCHANGED <<active, running, queue, ioVars, op, late, stage, socket, historyVars>>

\* The thread ends, and its socket is destroyed.
Exit(t) ==
    /\ pc[t] = "loop" /\ ~running
    /\ Close(t)
    /\ pc' = [pc EXCEPT ![t] = "exited"]
    /\ UNCHANGED <<active, running, ioVars, stage, error, dataVars, historyVars>>

\* The upstream closes or loses a connection.
PeerCloses(t) ==
    /\ socket[t] = "connected"
    /\ socket' = [socket EXCEPT ![t] = "broken"]
    /\ UNCHANGED <<active, running, ioVars, op, late, pc, stage, error, dataVars, historyVars>>

\* stopImpl: isRunning() turns false; the threads are joined.
Stop ==
    /\ running
    /\ running' = FALSE
    /\ UNCHANGED <<active, ioVars, op, late, pc, stage, error, socket, dataVars, historyVars>>

-----------------------------------------------------------------------------
Thread(t) ==
    \/ StopService(t)
    \/ Enter(t, "enter", "run") \/ Enter(t, "enterDrain", "drain")
    \/ RunForReturns(t) \/ TimedOut(t) \/ RunReturns(t)
    \/ Connect(t) \/ ResolveThrows(t) \/ FirstConnection(t) \/ Reconnected(t)
    \/ Write(t) \/ Retry(t) \/ FlushBegins(t) \/ Fetch(t) \/ FlushReturns(t) \/ Exit(t)

Next ==
    \/ \E t \in active : Thread(t)
    \/ \E u, t \in active : Connected(u, t) \/ Written(u, t) \/ Aborted(u, t)
    \/ \E t \in active : PeerCloses(t)
    \/ Stop

\* The threads run, their time-outs expire, and handlers of aborted operations
\* are executed; nothing is assumed of the upstream.
Fairness ==
    \A t \in Threads :
        /\ WF_vars(Thread(t))
        /\ WF_vars(\E u \in active : Aborted(u, t))

Spec == Init /\ [][Next]_vars /\ Fairness

-----------------------------------------------------------------------------
(* Properties *)

\* While the output runs, a record that send_total counts was written to a
\* connection: no time-out, failed reconnect, closed connection or operation of
\* another thread makes flush return early.  Excepted are the bulks a thread
\* had in hand while an operation it no longer waited for was pending: its
\* handler may report the success flush takes for that of its own write.
CountedIsWritten == running => counted \subseteq accepted \cup doubtful

\* A buffer whose write succeeded is never written again, although the socket
\* may be closed by a time-out right after (other threads' operations keep the
\* service busy) and the next buffer starts with an error.  Excepted are the same
\* bulks: a late failure overwrites the success of the write.
WrittenOnce == again \subseteq doubtful

\* With one thread per output no operation, connect or write, outlives the call
\* of run that waits for it, so that no bulk is excepted above.  (With several,
\* the stop() due for the last operation of one can hit another that has just
\* called restart().)
NothingDangling ==
    Cardinality(active) = 1 => doubtful = {} /\ \A t \in active : ~HasLate(t)

\* stop() returns: whatever the upstream does or does not do, every thread
\* leaves its waits and loops.
StopEnds == ~running ~> \A t \in Threads : pc[t] = "exited"
=============================================================================
