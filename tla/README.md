# IQLogger: TLA+ models, model checking and proofs

IQLogger collects log records from several sources, optionally runs a
JavaScript function on each, and sends them to one or more destinations. It is
a pipeline of threads that hand batches to each other through bounded queues.
This directory holds TLA+ models of it, the TLC configurations that check
them on small instances, and proofs checked by TLAPS. Paths below are relative
to `src/src/` of the repository.

## 1. The system

| Component | State | Operations | Talks to |
|---|---|---|---|
| `MessageQueue<T>` (`MessageQueue.h`) | lock-free container, limit, strategy, `m_dropped`, `m_throttled` | `enqueue`, `enqueue_bulk`, `try_dequeue`, `try_dequeue_bulk` | any number of producer and consumer threads |
| inputs (`inputs/*`) | own queue, sockets or files, io threads | receive a record, enqueue it | own queue |
| `InputServer` | import threads | `importMessages` on every input in turn | input queues, processor, `MainMessageQueue` |
| `ProcessorMachine` | scripts, own queue, threads with a V8 isolate each | process a batch | own queue, `MainMessageQueue` |
| `OutputServer` | export threads | give a batch to every output in turn | `MainMessageQueue`, output queues |
| outputs (`outputs/*`) | own queue, sender threads, connection | dequeue, write, reconnect | own queue, destination |
| `IQLogger`, `TaskInterface` | `m_inited`, `m_started` of each task | `init`, `start`, `stop` | all tasks |
| GELF UDP input | chunk queue, map of partial messages | reassemble, evict | input queue |
| tail input | inotify watches, monitored files, saved positions | read, rotate, save | input queue, files on disk |
| TCP inputs, UDP inputs | sessions with their buffers; one receive buffer | accept, cut into frames; receive a datagram | input queue |
| journal input | position in the systemd journal | wait, read entries | input queue |
| message formats, output records (`formats/*`, `outputs/*/Output.cpp`) | fields of a message | parse, validate, convert, dump | called by import and export threads |
| V8 binding (`processor/v8`) | isolate, compiled scripts, `m_try_catch` | wrap a message, call, take the result | processor threads, metrics |
| `MetricsController` | table of callbacks, a thread, export servers with a thread each | register, read all, export | objects of all others |
| HTTP statistics | acceptor, connections, parser of each | accept, parse, reply, stop | metrics |
| telegraf statistics | interval, host | two snapshots, one datagram | metrics |
| configuration | parsed config | load, check (also the scripts) | read by everybody at construction |

What is hard in it:

* **Check, then act.** A queue is bounded by a size check that is not atomic
  with the insertion; several producers pass it together.
* **Back pressure.** A full queue makes its producer wait in a loop that looks
  only at the queue. A slow destination stalls everything before it.
* **Shutdown.** `stop()` clears `m_started` of a stage and joins threads in a
  fixed order, while producers may sit in such a wait loop.
* **Partial failure in a batch.** One record that cannot be exported, one that a
  script ignores, one that one output cannot represent.
* **Unreliable input.** UDP chunks are lost, duplicated, reordered, late; header
  bytes may be anything.
* **Files that move** under the tail input, with events that come later than the
  changes they report, and positions that are saved after each read, by name.
* **Several io threads** per input; a connection that is reset between two calls
  on its socket.
* **Exceptions nobody catches** on a thread end the process; those that are caught
  end a thread that is not replaced.
* **Objects that outlive or do not outlive** the callbacks registered for them;
  servers started on threads of their own and stopped from another.
* **Conversions** between five message formats by two JSON libraries and V8.
* **Reconnects** of outputs, with time-outs on an io service that the threads of
  an output share.

`PROJECT.json` lists every component and, under `hazards`, each of these places
with its line and the properties that watch it.

## 2. The modules

| Module | Models | Uses |
|---|---|---|
| `BoundedBuffer` | what users of a queue may rely on (abstract) | |
| `QueueLoad` | a THROTTLE queue by its load alone, with producers that never run out (abstract) | |
| `MessageQueue` | `MessageQueue.h` under its three strategies | `BoundedBuffer`, `QueueLoad` (refinement) |
| `Pipeline` | all threads from source to destination, and `IQLogger::stop` | |
| `GelfChunks` | chunk reassembly of the GELF UDP input | |
| `GelfOutput` | the threads of a GELF TCP output on their shared io service | |
| `TailMonitor` | the tail input: files, events, reading, saved positions | |
| `HttpRequest` | parser, URI decoder and choice of the reply of the HTTP server | |
| `HttpServer` | its acceptor, connections, manager, and stop | `HttpRequest` |
| `IOInput` | io service and threads that TCP, UDP and journal inputs share | |
| `TcpInput`, `UdpInput`, `JournalInput` | these inputs | `IOInput` |
| `Inputs` | a source of any of the three kinds | the three |
| `Lifecycle` | the process from `main` to its end, tasks, metrics, export servers | |
| `Records` | a record from the input's bytes to the output's record | |
| `MC...` | the small instances TLC checks | the module of that name |
| `..._proofs` | the theorems about a module, for all but `Records` (section 5) | the module of that name |

Operators named `X_something`, or described as "As X, ...", "Faulty variant" or
"Mutant", before a definition `X` are deliberately wrong variants of it; they show that the properties notice
the mistake and are used by no specification.

### MessageQueue

`queue` is the set of messages in the container, `pc[p]` says whether producer
`p` is outside, in the throttle loop, or between the size check (line 58) and
the insertion (line 75). Each branch of `enqueue_bulk` is an action; `enqueue`
is the same with one message. `size_approx` may be off by `Skew`, as the library
only promises an estimate while others work. `try_dequeue_bulk` takes any
non-empty set that respects the order of each producer, the only order the
library keeps. `refused` and `taken` are history.

`m_max_queue_size` is a soft limit: the real one is
`SoftCap = MaxQueueSize - 1 + Skew + |Producers| * BulkMax`. `BoundedBuffer`
with that capacity, lossy unless the strategy is THROTTLE, is the contract: a
batch is accepted or refused as a whole, and what was accepted is handed out
exactly once.

In `MessageQueue` every producer has `OfferBound` messages, after which it cannot
be in anybody's way. `QueueLoad` forgets which messages are inside and keeps how
many of each producer, so that producers may call for ever; `MessageQueue` with
THROTTLE implements it (`ImplementsQueueLoad`), and what a waiting producer may
hope for is asked there.

### Pipeline

A thread `<<x, n>>` belongs to task `x`. `pc` gives its place: `loop` (at the
top of its loop), `push`, `throttle`, `insert` (inside `enqueue_bulk`), `send`,
`exited`. `hand` is the batch it works on, `at` the input or output it has come
to. Queues are those of `MessageQueue` with an exact size estimate. Messages
that cannot be exported (`Malformed`), that the script ignores or fails on
(`Filtered`) and that an output cannot represent (`Unwritable`) are given as
constants; where the code gives one up, the history variable `lost` records it.
A batch of a gelf output that was stopped may be partly given up (`abandoned`).

The main thread's `phase` follows `IQLogger::stopImpl`: import threads told to
stop, each input stopped and joined, import threads joined, export threads told
to stop, each output stopped and joined, export threads joined, processor
stopped and joined. A log output throws instead (see findings).

The model starts when everything has been started; what comes before, and the
metrics, are in `Lifecycle`. `Filtered` and `Unwritable` are explained by
`Records`. Values of the statistics counters and `stopModule` are left out.

### GelfChunks

A datagram is a message id and the two header bytes, each `0..255`; its text is
left out. `ToSize` models the conversion of a header byte to `size_t` through a
signed `char`. `arrivals` lets the network deliver a datagram up to `MaxCopies`
times or not at all; the chunk queue keeps no order. `size`, `chunks` and `age`
are the entries of `chunkMap`. The clock ticks at any point of the loop, since
`enqueue` may throttle in the middle of a bulk. Stopping takes the two steps of
the code: `m_started` is cleared, then the io service is stopped.

### GelfOutput

`pc` and `stage` give the place of each thread in the nested lambdas of
`GelfOutput.cpp`: `stage` says whether the operation at hand is the `first`
connect, a connect within a flush (`again`) or a `write`. `op` is the thread's
pending asynchronous operation. The lambda `run` is modelled step by step,
because the threads of an output share the io service: any thread executes the
handlers of all (`Handles`), `run_for` returns when the service is stopped or at
any time (time-out), and between its return and the test of `stopped()` another
thread may call `restart()`. The service stops itself when no work is left, in a
step separate from the end of the work (`stopDue`), as Boost.Asio does it.

A thread whose `run` returns while its operation, connect or write, is pending
goes on. The operation stays in `late`, which counts such operations per thread
and kind: it is work of the service, `close()` aborts it, and its handler, executed
by whoever is in `run` then, sets `error` of the frame it was started in
(`GelfOutput.cpp:37`), whatever that thread is doing by now. `doubtful` records the
bulks a thread had in hand while it had such an operation. What a late write sends
is not known, as `flush` has freed its buffer; a handler executed after its thread
has ended writes to a dead frame, which nothing reads. The name of an upstream is
taken to have one address.

### TailMonitor

The file system is part of the model: `dir` maps names to inodes, `content` an
inode to its units, `path` an inode to its last name. A unit is a piece of text
or a mark (the newline, or what `startmsg_regex` matches), and positions count
units. The application appends to the inode it has open; files are renamed
(also onto one another), removed, truncated and created again, and each change
leaves the inotify events the code asks for. The model keeps the scan's `_INIT`
events apart from the others, as they have different producers and the queue
orders only events of one producer.

`table` is `m_internalTable`; an entry whose `createRecord` threw holds `Null`.
A monitor takes a bulk and handles its events in order. `process` (record, size
of the file), `Read` (read up to that size, cut into messages, send) and `Save`
are separate steps under the lock of the key, so that writes, truncation and
crashes fall between them. `flush` is the timer's step for one entry; sending
and saving are one step there. `disk` and `loaded` are the position files and the
table made of them at start, which also removes the files. A crash in `Save` may
leave an empty file, read as 0. The process may be stopped or crash, and be started
again, any number of times (`Ends`); if it ends while a position that was loaded has
not been saved again (`Unsaved`), the position is lost, which is the trouble
`forget`. A trouble of the files (rename, overwrite, removal, truncation) happens
once in a behaviour. `mode` holds the options and is chosen once. A position is an `int64_t`
and may become negative, as in the code.

`sent` is the set of messages handed to the input queue, `again` the units handed
over more than once, `troubles` the kinds of external events that have happened.

Left out: symbolic links, subdirectories, several inputs on one directory, a
regex match split over two reads, overflow of the kernel's event queue,
the delay between the kernel and the monitor's queue (the queue delays enough).

### HttpRequest and HttpServer

A character is a letter or a class of characters the code treats alike.
`RequestLineMoves` and `HeaderMoves` are the states of `RequestParser::consume`
with what each accepts; `parse` feeds a segment to the state the last one left.
`url_decode` and `handle_request` are pure operators. The reference the parser is
checked against (`Expected`) is written without it: lines, a request line,
headers, and the path a URI means.

In `HttpServer`, `op[c]` is the outstanding operation of a connection, `socket[c]`
its socket, `connections` the manager's set, and `io` the handler that runs and
the call of the manager it is about to make: handlers run on the server's thread,
while `stopImpl` runs on the main thread, in three calls, without a lock. Two
operations on the set at once are undefined and lead to `crashed`.

### IOInput, TcpInput, UdpInput, JournalInput, Inputs

`alive` are the io threads that are in `run()`, `stopped` says that `stop()` was
called. A TCP stream is a sequence of characters with `NUL` among them; it
arrives in segments of any length into the buffer of its connection. Handlers of
one connection run in a strand, of several on several threads, and one may sit in
`enqueue` for long (`busy`). The calls of `remote_endpoint()` throw on a reset
connection: `ThreadEnds`. `UdpInput` keeps the strand's queue, because the handler
posts the processing of a datagram and receives again before it runs. In
`JournalInput` the journal is a number of entries and a set of changes not yet
reported; the constructor's `previous` and `next` are separate steps, and so are
the turns of the reading loop. A failed poll only makes the reader wait again; when
`sd_journal_process` fails, what it should have told is lost.

### Lifecycle

`todo` is the list of steps `main` has still to take, `started` the tasks whose
`m_started` is set, `thread` the state of each metrics, export server and
processor thread, `callbacks` the table of metrics with the object each callback
reads, `dead` the objects that are gone. Every `startImpl` and `stopImpl` is a
step or a list of steps, in the order of the code. The threads of the inputs and
those of the outputs are one thread each here (`Pipeline` has them all); like a
processor thread they may be inside a push (`PushBegins`, `PushEnds`) when their task
is stopped, and a push on a queue that throttles need not end. `fault` is the one thing that
goes wrong in a life, if any: the HTTP port is taken, the configuration or a
script is wrong, the directory of positions is missing, an output is a log output,
a processor thread fails, descriptors run out, telegraf's host does not resolve.
A callback that reads a dead object is undefined; the model notes it in `touched`
and goes on.

### Records

One record at a time takes the steps of an import thread, possibly a processor
thread, and an export thread. A JSON value has a type, a text of a few classes (a
number, NaN, an infinity, bytes that are not UTF-8 among them) and a number, of a
double it counts whether it is whole and below 2^31, a document is a sequence of members, so that duplicates and the order
count. `Verdicts` are the checks of `gelf(string_view)` in order, `parse` and
`dump` its fields and their text; `setField`, `setFieldJson` and `SetAll` the
setters with the conversions of the JSON library, `process` a script's call,
`OfJson`, `OfTail`, `OfJournal` and `OfDummy` the constructors of the output
record. A step succeeds, throws an exception the loops catch (`error`), or one
they do not (`escape`). `caught` is `m_try_catch` of the processor thread.

## 3. The runs

| Run | Instance | Checks |
|---|---|---|
| `queue` | each strategy; 2 producers, limit 2, batches of up to 2, 4 messages each, size off by 1 | types, `OvershootBound`, `LossAccounting`, refinement of `BoundedBuffer` and of `QueueLoad`; `GetsInOrIsOvertaken` on a `QueueLoad` of 3 producers that never run out |
| `pipeline_delivery` | 2 inputs (one that drops, runs a script and has 2 receiving threads), gelf and log output, 4 messages (one malformed, one filtered, one unwritable at the first output), all queues of length 1, batches of up to 2, no stop | `EveryMessageArrives`; deadlock |
| `pipeline_shutdown` | 2 inputs, 2 import threads, processor, 1 output, 3 messages, queues of length 1, stop at any time | `OnePlace`, `StopSettles`, `WedgeIsFinal`, `JoinedIsQuiet` |
| `gelf_chunks` | a message of two chunks, one of them duplicated; a chunk of conflicting count, two out of range, one of a second message | types, `ReassembledIntact`, `NoChunkUsedTwice`, `CompleteLeaves`, `NothingLingers` |
| `gelf_output` | one or two threads, 2 records, bulks of up to 2, any number of failures and time-outs | types, `CountedIsWritten`, `WrittenOnce`, `NothingDangling`, `StopEnds` |
| `tail` | 2 names, 2 inodes, 2 or 3 units, read buffer of 2, troubles of one kind: one of the files, or any number of stops, or of crashes, with starts; five configurations, one of them with 2 monitors | types, `AtMostOnce`, `NothingSkipped`, `MessagesAreWhole`, `EveryUnitRead` |
| `http` | a client with any of 11 whole requests or one edit of a request (one character dropped, added, changed, or the rest missing), cut anywhere; or two clients; stop at any time | `AnswerIsRight`, `ManagedIsServed`, `AtMostOneOutlivesStop`, `EveryClientIsServed` |
| `inputs` | 2 io threads; 2 TCP connections with up to two frames, an empty and an unfinished one among them; 4 datagrams, one empty, one too long; 3 new journal entries | `OfferedInOrder`, `ThreadsLostToResets`, `NothingLeftUnread`, `EverythingOffered` |
| `lifecycle` | 2 processor threads, both export servers, one input and output, with and without a script, no fault or one of eight | `ExportsAreWhole`, `ReadsLiveObjects`, `StopSettles` |
| `records` | GELF documents with up to two members other than good, by GELF, JSON and tail inputs, journal entries, dummy lines, texts that are not UTF-8, large doubles and numbers beyond a double; scripts that return data, a string, false, a number, or throw | `RelayIsLossless`, `PathsAgree`, `LossesHaveACause` |
| `pipeline_logstop`, `tail_rotation` | smallest instances | violated, see findings |

Bounds. Two producers already overshoot a queue from different sides of the
check; queues of length one make every thread of the pipeline throttle
somewhere, and three or four messages are enough to fill queues in a row while
another is in a hand. In `pipeline_delivery` the two receiving threads overshoot the limit of one,
so that batches hold a good message beside a malformed or a filtered one. The good one must come through the processor to both outputs, the one the first
output cannot represent to the second; of an input that drops nothing is asked for
what its full queue refused, and everything for what it took in (`TakenIn`). Three
producers in `QueueLoad` are one that waits and two that keep passing each other the
room. One duplicated chunk is enough to reach every use of a
chunk after its message left. Three units make a read of two rounds and a message in two pieces; one trouble
falls between any two steps, and a stop or crash after any step of any life. `OfferBound`, `Msgs`, `MaxCopies`, `UnitBound`,
`FileCount`, `TroubleBound`, `Sent`, `Streams`, `Sizes` and `MaxEntries` are the
only bounds on the length of a behaviour; time is bounded by counting ages up to
`Ttl` only. Two values of a GELF document at a time are enough because its checks
are made one field after the other and the first that fails decides. Two threads
and two connections are enough for every race within an input: the handlers of a
connection exclude each other. Two connections are enough for the HTTP manager,
which treats each alone. Characters of one class are interchangeable to the parser,
so one of each stands for all.

Fairness. Every thread inside a call or in its loop is scheduled (weak fairness
per thread, per operation for the queue): they are operating-system threads that
sleep and poll, none holds a lock another needs. Consumers keep dequeuing because their
loops do. Destinations accept what is written to them: this is an assumption
about the environment, and `EveryMessageArrives` and the shutdown properties
are conditional on it. Nothing is assumed about the arrival of messages,
datagrams or signals. In `GelfChunks` the clock runs. In `TailMonitor` the
monitor and timer threads run; that a stopped or crashed process is started again
is not assumed. In `GelfOutput` the threads run and time-outs expire; nothing is
assumed of the upstream, so `StopEnds` holds even if it hangs for ever. In
`HttpServer` the thread runs what is ready, the network delivers what a client
sent, and a stop that was begun is finished. In `TcpInput` and `JournalInput`
the io threads run, the queue answers, and the network delivers; nothing is
assumed for UDP, which has no liveness property. In `Lifecycle` `main` and all
threads are scheduled; the signal need not come, a push need not end, and the reading of the metrics
is not fair, as no property needs it. In `Records` nothing is.

Deadlock checking is off where a behaviour may legitimately end: a bounded
number of messages was offered, or the program has stopped. In
`pipeline_delivery` the import threads never stop polling, so it is on.

### What the queue run shows

The soft limit holds and losses are counted, whatever the race. A producer in the
throttle loop gets in if the others leave it room. There is no line, and if others
keep calling `enqueue_bulk` they may take what the consumers free each time before
the waiting one looks: TLC finds this behaviour when the second case of
`GetsInOrIsOvertaken` is left out. That case is the only other one.

### What the shutdown runs show

`StopSettles` says that after a signal the shutdown ends or some thread is
`Wedged`: it waits for room in a queue all of whose consumers have left. The
second case is reachable, for three pairs: a receiving thread on its input queue
after the import threads left (`InputServer.cpp:83`), an export thread on an
output queue after the sender threads were joined (`OutputServer.cpp:83`), a
processor thread on the main queue after the export threads were joined
(`IQLogger.cpp:85`). `WedgeIsFinal` says it never resolves; `StopSettles` says
that there is no other cause, so a shutdown during which no queue is full
always completes.

### What the output run shows

With one thread per output, everything counted in `send_total` while the output
runs was written to a connection, once, and each asynchronous operation is over
before `run` returns (`NothingDangling`). With several threads the stop of the
service that ends one thread's last operation can hit another thread just after its
`restart()`, whose `run` then returns at once with the operation pending. When its
handler comes, it overwrites `error`: a success that comes late makes a failed write
pass for one that succeeded, and the bulk is counted; a failure that comes late makes
a bulk be written a second time. Both are reachable, and confined to `doubtful`, the
bulks in the hand of that thread while the operation is pending. A thread that
closed its socket and waits in `run()` may also be kept there by an operation of
another thread that hangs, until that thread closes its socket in its turn. Nothing in the repository speaks about
these cases, so they are no finding here.

### What the tail run shows

A unit is never sent twice while the log grows, is renamed, or the process is
stopped and started, however often, with `save_state` (`AtMostOnce`), with the
exception below. A crash may repeat units, since the position is saved after sending,
but loses none (`NothingSkipped`, `EveryUnitRead`). A message is adjacent text of one
file, and with `startmsg_regex` it is cut at the matches only (`MessagesAreWhole`).
Without a regex a message also ends where a read ends, so that a line the application
writes in two steps may go out as two messages; nothing is claimed of that mode.
The limits are part of the properties: nothing is promised for

* a stop before the monitors have looked at every file whose position was loaded:
  `initImpl` removes the position files (`SavePositionServer.cpp:61`) and only a
  read writes them again, so the next start reads those files from the beginning
  and sends everything again (`AtMostOnce` excepts it as `forget`; nothing is
  skipped);
* a restart together with a rename: positions are found by name, and the table
  loaded at start is used for every later file of that name;
* a truncated or removed file: a buffer is dropped on removal, a file that grew
  past the old position is not recognised as truncated, and one that is keeps the
  unfinished message of its old text (`MessagesAreWhole`);
* a rename onto an existing name: the table still has that name, so the record
  of the moved file is dropped;
* a rename when `path` is a single file, since the new name is not watched, or
  with several monitor threads, which may handle its two events in either order;
* `follow_only_mode`, which skips the first text of new files as well.

### What the HTTP run shows

The answer depends on what was sent and not on how it was cut, for good and bad
requests. While the server runs, the manager's set is exactly the connections
with an operation outstanding, whatever fails. After a stop at most one connection
stays open: one that was accepted just then. A client that stops in the middle of
a request keeps its connection, as there is no time-out.

### What the inputs run shows

Whatever the segments and threads, records are whole frames, datagrams or entries,
in order, once. The limits:

* a peer that resets its connection between the read and `remote_endpoint()`
  (`inputs/gelf/tcp/Server.h:63`, and the same for JSON) ends the io thread, at
  most one per connection; when all are gone the input is deaf (in the `accept`
  handler the call is an argument of a log macro, which catches its exception);
* a datagram longer than the buffer is cut;
* a journal entry that comes between the constructor's `previous()` and `next()`
  is stepped over;
* entries reported together with a change of the journal's files are ignored
  until the next append (`JournalReader.cpp:137`, "TODO: How to handle?"), and so
  are those of a call of the library that failed.

### What the life cycle run shows

Statistics never go out in part, because the metrics are started last and the
export takes both snapshots after every other name is in the table; only heap
sizes may be missing while processor threads start. With no fault and with both
servers begun, a stop ends cleanly, or `main` is held for good in the join of one
thread that is inside a push on a queue that stays full, the wedges of the shutdown
runs; there is no third outcome. Reading dead objects is excluded by the order
of the stop, but for one: the check of the scripts builds a `Processor` with index
0, and its isolate's heap size callback stays in the table under the name the
real processor 0 then cannot register (`processor/v8/Isolate.cpp:24`). The
exceptions `StopSettles` makes are reachable: a signal before an export server's
thread has called `start()` makes `stop()` throw, and with threads not joined this
is `std::terminate`; so is every fault on a thread of its own.

### What the records run shows

A chain of iqloggers does not change a GELF message (`RelayIsLossless`), and a
GELF document means the same by each input (`PathsAgree`): none of those the property
speaks of is lost or ends the process on any path. With a script the former excepts
text that is not UTF-8, which V8 replaces, and additional fields that are doubles of
2^31 or more, which V8 writes as integers the next GELF input refuses
(`formats/gelf/GelfMessage.cpp:122`). Losses after import are
those `LossesHaveACause` lists, and the run reaches each:

* one exception in a script makes the thread refuse every later message, since
  `m_try_catch` is not reset (`processor/v8/IsolateScope.cpp:129`);
* a JSON document whose `timestamp` or `level` is a string, whose texts are no
  strings, or that is an array of scalars, ends the process
  (`outputs/gelf/Output.cpp:180`);
* a tailed line that is JSON but no valid GELF (a number, an array, an object
  without `version`) is lost, while one that is no JSON is sent as text;
* `{"data": "text"}` as a tailed line is lost;
* a journal entry without `MESSAGE` is sent as its JSON, and a field that is not
  UTF-8 makes `dump()` throw, which ends the process (`outputs/gelf/Output.cpp:83`).

Before import, a `timestamp` or `level` that is a string without a number ends the
process (`formats/gelf/GelfMessage.cpp:91`), an integer beyond 32 bits in an
additional field is refused, a number no double can hold in a JSON message ends the
process (`formats/json/JsonMessage.h:38` catches parse errors only), and a `timestamp`
that spells NaN or an infinity is accepted and written as malformed JSON, which
`RelayIsLossless` excepts.

## 4. Findings

* `outputs/log/LogOutput.cpp:53`: `stopImpl` calls `stop()` instead of the base
  class's `stopImpl()`; the second `stop()` throws `std::logic_error` out of
  `IQLogger::stop`, leaving threads unjoined (`pipeline_logstop`).
* `inputs/tail/TailMonitor.cpp:44`: a file that is renamed or removed before its
  event is handled ends the monitor thread, and leaves an empty pointer in the
  table that the timer thread follows (`tail_rotation`).

Divergences without a run of their own:

* `inputs/gelf/udp/GelfInput.cpp:119`: a message with a single chunk is never
  handed on; it stays in the map until it is evicted.
* `inputs/gelf/udp/GelfChunk.cpp:31`: a count of 128, which the format allows,
  becomes out of range by sign extension. The model assumes a signed `char`, as
  on x86.
* `GelfChunk.h:25` says that chunks "still arriving" after the time limit are
  discarded, but a chunk that arrives after the eviction of its message starts a
  new entry (`GelfInput.cpp:119`), which is evicted in its turn (`NothingLingers`).
* `inputs/tail/TailMonitor.cpp:228-235`: when a file has become shorter than the
  position, the position is set back but `m_buffer` is kept. With `startmsg_regex`
  the unfinished message of the old text then gets the new text appended, and is
  sent as one message. `MessagesAreWhole` excepts a truncation for this reason.
* `--check-config` of a configuration with a script and an HTTP server binds the
  server's port, so the check fails while the program runs (`Load`).

## 5. Proofs

The theorems hold for every value of the constants that the named assumptions in
the modules allow: any finite set of threads or producers, any sizes, datagrams,
streams, names. The bounds of the runs play no part in them. Each module
`X_proofs` has an inductive invariant `IInv` (`TcpInv` and `JournalInv` for the
inputs, joined by `FramesInv` and `UdpInv`), a lemma per action, and a theorem per property. The invariants were
checked with TLC on the instances of the runs before they were proved.

| Module | Theorem | States |
|---|---|---|
| `MessageQueue_proofs` | `TypeCorrect`, `Overshoot`, `LossesCounted` | `TypeOK`, `OvershootBound`, `LossAccounting` |
| | `Refinement` | `Spec => ImplementsBoundedBuffer` |
| `Pipeline_proofs` | `TypeCorrect`, `NeverDuplicatedNorLost` | `TypeOK`, `OnePlace` |
| | `QuietAfterJoin`, `WedgedForEver` | the action properties `JoinedIsQuiet`, `WedgeIsFinal` |
| `GelfChunks_proofs` | `TypeCorrect`, `Intact`, `UsedOnce`, `LeavesWhenComplete` | `TypeOK`, `ReassembledIntact`, `NoChunkUsedTwice`, `CompleteLeaves` |
| `GelfOutput_proofs` | `TypeCorrect`, `CountedAreWritten`, `NeverWrittenTwice`, `AloneNothingDangles` | `TypeOK`, `CountedIsWritten`, `WrittenOnce`, `NothingDangling` |
| `TailMonitor_proofs` | `TypeCorrect`, `OnlyWholeMessages`, `NoUnitSkipped`, `NothingTwice` | `TypeOK`, `MessagesAreWhole`, `NothingSkipped`, `AtMostOnce` |
| `HttpServer_proofs` | `ServedAreManaged`, `OneOutlivesStop`, `AnswersAreRight` | `ManagedIsServed`, `AtMostOneOutlivesStop`, `AnswerIsRight` |
| `Inputs_proofs` | `OneThreadPerReset`, `WaitingReaderHasReadAll`, `InputsInOrder` | `ThreadsLostToResets`, `NothingLeftUnread`, `OfferedInOrder` |
| `Lifecycle_proofs` | `EveryExportWhole`, `MetricsReadLiveObjects` | `ExportsAreWhole`, `ReadsLiveObjects` |

### What the invariants add

*MessageQueue.* `CallsInv`: a producer has a batch exactly while in a call, within
`OfferBound`, and only a THROTTLE queue has a throttled producer. `RoomInv`:
`|queue| + |producers past the check| * BulkMax <= SoftCap`; `OvershootBound` alone
is not inductive, as the insertion does not look at the size again, so the room
for the batch must be reserved when the check passes. `FatesInv`: `queue`, `taken`
and `refused` partition the messages of finished calls, which gives the exact count
of `LossAccounting` and the refinement.

*Pipeline.* `OnePlace` counts copies by a sum over queues and hands, which says
little to a prover. `OneSpot` says the same without counting: a message that
arrived is in one queue, or in the hand of one thread, or settled, and no two of
these; `SpotIsPlace` derives the count. `LoopsInv` ties a thread's hand to its
place in the loop, and an export thread that starts a batch to the first output, so
that a batch in its hand is past the outputs before `at` and not yet past the
others. `JoinedInv` says whom the main thread has waited for; with it a queue whose
producers have left cannot grow, and a wedged thread's queue cannot shrink.

*GelfChunks.* `EntriesInv`: an entry holds chunks of its own id and count, each
under its number. `ArrivalsInv`: for each datagram the uses in messages handed on,
the place in the map and the copies waiting for the chunk thread together are at
most its arrivals. `NoChunkUsedTwice` alone is not inductive: a chunk becomes used
long after it arrived.

*GelfOutput.* `OpsInv`: an operation in `op` belongs to a thread that waits for it.
`BulksInv`: records are in the queue or in one thread's bulk. `DoubtInv`: a thread with
a late operation has only doubtful records in its bulk, so that whatever the late
handler does to `error` concerns no others. `UnwrittenInv`: what is left over is not
written yet, and what is in a buffer whose write may still be tried is not, or is
doubtful; this is what makes a retry harmless. `SettledInv`: while the output runs,
what a thread has put behind it is written or doubtful. `AloneInv`: with one thread a
service that is stopped, or about to be, has no operation, hence none becomes late.

*TailMonitor.* `UnitsInv`: a unit is in one place of one file. `ShapesInv`: a buffer
has a mark at most at its start. `PlacesInv`: without truncation `m_buffer` is the
stretch of the file that ends at the position; from it follows that the text sent
and the text kept are adjacent, hence `SentInv`: a message is a stretch of a file, and
with a regex what follows it there is a mark. `HandedInv`: positions, in records, on disk and loaded at a start,
are never ahead of what was handed on. It needs `KeptInv`, that names keep their
files while nothing is renamed or removed: positions are found by name.
`ReadingInv`: between its steps under the lock of a key a monitor finds the record
it began with. The lemmas `PartsCover`, `RegexCut` and `NewlineCut` say that the
cutting of a text into messages loses, repeats and reorders nothing.

`AtMostOnce` has an invariant of its own, `OnceInv`, of which most holds only
while the troubles are those the property allows (`Good`). `AheadInv`: no unit behind
a record's position was handed on, nor behind the position at which a file without
a record would be opened, nor, while the record is not locked, behind the one on disk. That
needs one record per file: `HomeInv` says that every record is under the present
name of its file (`AtHome`) or that the only one is under the old name and every
monitor will meet the move before any event for another name (`Pending`). It is a
statement about the order of the queue and of a bulk that was already taken from it,
and the reason why several monitors and a rename are excepted. For any number of
stops and starts it also takes `DiskInv`: while the process runs, the disk has no
position of a file that no monitor has looked at. So a stop finds every position saved
again, or one that was loaded is lost, and the latter is `forget`. Troubles of the
files happen at most once of a kind in a behaviour, as in the run: nothing is proved
for a file that is rotated twice.

*HttpServer.* `ServedInv` is `ManagedIsServed` for the time up to `stop_all`, with
the handler that is about to call the manager; `StoppedInv` says that what is open
after `stop_all` was started too late, by the one handler that can run.

The answers are right for three reasons. `SegmentsInv`: the parser of a connection is where a
single read of all that arrived would have left it (`TwoSegments`). `ParserIsRight`
is about the parser alone. `Where` says for each of its 20 states what it means
for the characters read so far, in the terms of the reference grammar; every move
keeps it (`TakesStep`), hence a good verdict is for a request and the URI kept is
`UriOf`; and a state has a move for the next character of every request
(`RequestGoesOn`), hence a bad verdict is for a stream of which no longer prefix is
one. `Decoded`: `url_decode`, which goes forward and skips, comes to what `PathOf`
builds from the end back, or fails where there is no path.

*Inputs.* `BusyInv`: no connection is handled by two threads (the strand), so no
handler revives a connection that is lost. `FramesInv`: the records of a connection
are as many as the delimiters consumed, and one more while a handler is in
`enqueue`, and the k-th is the k-th frame. `UdpInv`: a datagram is the older the
further it has come, from the network over the socket and the strand to the queue,
and one that was received and is not empty waits or was offered. `ReaderInv`: what
the reader has not read is announced by a change it has not been asked about.

*Lifecycle.* `OrderInv` says that what `main` has to do is the rest of the list of
starts or of the list of stops; `RegisteredInv` and `ThreadsInv` which names are in
the table and which threads exist at each place of it, `RoundInv` that the
first snapshot of a round is complete, `LiveInv` that no isolate dies before the
metrics task is stopped.

### Assumptions

They are named in the modules and evaluated by the runs. Beyond types, sizes and
finiteness: the elements of `m_inputs` and `m_outputs` are objects of their own and
none has the name of a server (`Pipeline`, `NamesAssumption`; with an input listed
twice `OnePlace` would be false); there is at least one processor thread, and thread
names are distinct from those of the servers (`Lifecycle`, `WorkersAssumption`);
`follow_only_mode` and `save_state` exclude each other (`TailMonitor`,
`ModesAssumption`), or the input's constructor throws (`TailInput.cpp:40`). Streams
and what HTTP clients send are finite sequences, of any length and number.

### Induction

The library's induction theorems cannot be instantiated by the installed provers.
Where a fact is about every place of a sequence or every value of a recursive
function, the proofs take the least number that would not satisfy it instead
(`UpTo`, `LeastOf`, from the theorem that the order of the naturals is well-founded,
which takes a set). The existence of a function defined by recursion is proved the same way,
by extending it one argument at a time (`ParseIsRun`, `DecodeIsRun`, `PathIsFrom`).

### Only model-checked

* That a THROTTLE queue implements `QueueLoad` (`ImplementsQueueLoad`): the loads are
  sums over sets, which the provers cannot unfold.
* Liveness under fairness: `GetsInOrIsOvertaken`, `EveryMessageArrives`, `StopSettles`,
  `NothingLingers`, `EveryUnitRead`, `StopEnds`, `EveryClientIsServed`,
  `EverythingOffered`.
* The properties of `Records`: `RelayIsLossless`, `PathsAgree` and
  `LossesHaveACause` say what chains of conversions compute. The conversions are
  folds over the members of a document and sequences made from sets, which the
  community modules define with operators as parameters; the run covers every
  document that differs from a good one in at most two members.

## 6. Plan

* *Inotify*: the map of watches (several inputs, subdirectories, links).
* *TailMonitor*: more than one trouble of the files, such as a second rotation.
* *MessageQueue*: a proof that it implements `QueueLoad`.
* *Records*: conversions without folds, to prove what the run checks.

## 7. Not modelled

* The map of inotify watches (`WatchDescriptorsMap.cpp`) and symbolic links:
  `TailMonitor` has one directory of plain files.
* `ProcStat.h` and the values of metrics: they are read from `/proc`, and no
  behaviour depends on them.
* The parsing of configuration fields: values only, read before any thread runs.
* Template dispatch (`Module.h`, the interfaces), logging, command line options
  other than `--check-config`, the script's `console`.
* The loop of the dummy input, which is a receiving thread of `Pipeline`.
* The libraries: the lock-free queue, Boost.Asio, the journal, V8 and the JSON
  libraries are modelled by what the code uses of them. The conversions of
  nlohmann's library are taken to be those of version 3.
