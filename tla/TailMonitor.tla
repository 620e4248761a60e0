---------------------------- MODULE TailMonitor ----------------------------
(***************************************************************************)
(* The tail input (src/src/inputs/tail): InotifyServer turns what happens  *)
(* in a directory into events, the threads of TailInput take the events    *)
(* and read the files through TailMonitor's table of open files, a timer   *)
(* thread flushes incomplete messages, SavePositionServer keeps on disk    *)
(* how far each file was read.  Around them: an application that writes    *)
(* the log, whoever rotates, removes or truncates it, stops and crashes of *)
(* the process.                                                            *)
(*                                                                         *)
(* A file is a sequence of units, and positions count units.  A unit is a  *)
(* piece of text or a mark: the newline, or the text startmsg_regex        *)
(* matches, which is assumed to be written at once.  Left out: symbolic    *)
(* links, subdirectories, and losses in the input queue (MessageQueue).    *)
(***************************************************************************)
EXTENDS Integers, FiniteSets, Sequences, Functions, FiniteSetsExt

CONSTANTS
    Names,        \* file names in the directory
    Live,         \* the name the application writes to
    FileCount,    \* bound: inodes ever used
    Monitors,     \* monitor threads
    Modes,        \* configurations to consider
    ReadBuffer,   \* read_buffer_size, in units
    EventBulk,    \* max_queue_bulk_size
    UnitBound,    \* bound: units the application writes, per configuration
    TroubleBound  \* bound: how many kinds of trouble there are

Files == 1..FileCount  \* inodes, numbered as they are created
NoFile == 0

ModeSet == [regex : BOOLEAN,       \* startmsg_regex is given
            followOnly : BOOLEAN,  \* follow_only_mode
            saveState : BOOLEAN,   \* save_state
            timer : BOOLEAN,       \* read_timeout # 0
            dir : BOOLEAN,         \* path is the directory, not the live file
            monitors : SUBSET Monitors]  \* the threads the input has (threads)

ASSUME NamesAssumption == IsFiniteSet(Names) /\ Live \in Names
ASSUME MonitorsAssumption == IsFiniteSet(Monitors)
ASSUME ModesAssumption ==
    Modes \subseteq {m \in ModeSet : ~(m.followOnly /\ m.saveState)}
ASSUME BoundsAssumption ==
    /\ FileCount \in Nat \ {0}
    /\ ReadBuffer \in Nat \ {0}
    /\ EventBulk \in Nat \ {0}
    /\ UnitBound \in [Modes -> Nat]
    /\ TroubleBound \in Nat

Units == [n : Nat \ {0}, mark : BOOLEAN]

\* A key of the table is the path of a file; getCurrentFileName reads it from
\* /proc/self/fd, where the path of an unlinked file ends in " (deleted)".
Keys == [name : Names, deleted : BOOLEAN]
Key(n) == [name |-> n, deleted |-> FALSE]

EventTypes == {"INIT", "CREATE", "MODIFY", "MOVE", "DELETE"}
Events == [type : EventTypes, name : Names]

\* "forget": the process ended before it had saved again a position it loaded.
Troubles == {"rename", "overwrite", "unlink", "truncate", "stop", "crash", "forget"}

VARIABLES
    mode,
    \* the file system and the application
    dir,        \* the inode of each name, or NoFile
    path,       \* the last name of each inode
    content,    \* the units of each inode
    written,    \* number of units written so far
    appFile,    \* the inode the application has open, the last one created
    troubles,   \* kinds of trouble there have been
    \* SavePositionServer
    disk,       \* position files: key -> position
    loaded,     \* m_savedPointersTableInternal: what initImpl found
    \* InotifyServer and TailMonitor
    up,         \* the process runs
    initQueue,  \* m_inotifyQueuePtr: events of the scan in addWatch
    eventQueue, \* m_inotifyQueuePtr: events of end_read
    bulk,       \* per monitor: events taken and not finished
    pc,         \* per monitor
    size,       \* per monitor: filesize of the process() it is in
    table,      \* m_internalTable: key -> record, Null for an empty pointer
    \* history
    sent,       \* messages given to processMessage
    again       \* units given to it more than once

fsVars == <<dir, path, content, written, appFile>>
posVars == <<disk, loaded>>
queueVars == <<initQueue, eventQueue>>
threadVars == <<bulk, pc, size>>
sentVars == <<sent, again>>
vars == <<mode, dir, path, content, written, appFile, troubles, disk, loaded, up,
          initQueue, eventQueue, bulk, pc, size, table, sent, again>>

Empty == [k \in {} |-> 0]
Null == [file |-> NoFile, pos |-> 0, buffer |-> <<>>, firstRead |-> FALSE,
         bad |-> FALSE]

Records == [file : Files \cup {NoFile}, pos : Int, buffer : Seq(Units),
            firstRead : BOOLEAN, bad : BOOLEAN]

With(f, k, v) == [x \in DOMAIN f \cup {k} |-> IF x = k THEN v ELSE f[x]]
Without(f, k) == [x \in DOMAIN f \ {k} |-> f[x]]

Linked(f) == \E n \in Names : dir[n] = f

\* The types, and that a thread inside process() has its entry in the table.
TypeOK ==
    /\ mode \in Modes
    /\ dir \in [Names -> Files \cup {NoFile}]
    /\ path \in [Files -> Names]
    /\ content \in [Files -> Seq(Units)]
    /\ written \in 0..UnitBound[mode]
    /\ appFile \in Files
    /\ troubles \subseteq Troubles
    /\ DOMAIN disk \subseteq Keys /\ DOMAIN loaded \subseteq Keys
    /\ \A k \in DOMAIN disk : disk[k] \in Int
    /\ \A k \in DOMAIN loaded : loaded[k] \in Int
    /\ up \in BOOLEAN
    /\ initQueue \in Seq(Events)
    /\ eventQueue \in Seq(Events)
    /\ bulk \in [Monitors -> Seq(Events)]
    /\ pc \in [Monitors -> {"run", "read", "save", "dead"}]
    /\ size \in [Monitors -> Nat]
    /\ DOMAIN table \subseteq Keys
    /\ \A k \in DOMAIN table : table[k] \in Records
    /\ \A t \in Monitors : pc[t] \in {"read", "save"} =>
           bulk[t] # <<>> /\ Key(Head(bulk[t]).name) \in DOMAIN table
    /\ sent \subseteq Seq(Units)
    /\ again \subseteq Units

Init ==
    /\ mode \in Modes
    /\ dir = [n \in Names |-> IF n = Live THEN 1 ELSE NoFile]
    /\ appFile = 1
    /\ path = [f \in Files |-> Live]
    /\ content = [f \in Files |-> <<>>]
    /\ written = 0
    /\ troubles = {}
    /\ disk = Empty
    /\ loaded = Empty
    /\ up = FALSE
    /\ initQueue = <<>>
    /\ eventQueue = <<>>
    /\ bulk = [t \in Monitors |-> <<>>]
    /\ pc = [t \in Monitors |-> "run"]
    /\ size = [t \in Monitors |-> 0]
    /\ table = Empty
    /\ sent = {}
    /\ again = {}

-----------------------------------------------------------------------------
(* Events *)

\* The names the pattern of the watch matches.
Watched == IF mode.dir THEN Names ELSE {Live}

\* InotifyServer::end_read: what an inotify mask becomes, then Watch::notify.
\* The read of the inotify descriptor is not delayed separately: the queue
\* holds the events as long as is needed.
notify(evs) == eventQueue' = eventQueue \o evs

Event(type, n) == [type |-> type, name |-> n]

\* Watch::notify drops the names its pattern does not match.
Seen(type, n) == IF up /\ n \in Watched THEN <<Event(type, n)>> ELSE <<>>

Kinds == troubles \ {"forget"}

\* Files are renamed, replaced, removed and truncated once each.
Trouble(kind) ==
    /\ kind \notin troubles
    /\ Cardinality(Kinds) < TroubleBound
    /\ troubles' = troubles \cup {kind}

\* Positions that SavePositionServer::initImpl read and removed from the disk,
\* of files no monitor has looked at since: they are in memory only.
Unsaved == {k \in DOMAIN loaded : k \notin DOMAIN disk /\ loaded[k] # 0}

\* The process may end, and be started again, any number of times.
Ends(kind) ==
    troubles' = troubles \cup {kind} \cup (IF Unsaved = {} THEN {} ELSE {"forget"})

-----------------------------------------------------------------------------
(* The application and the file system (external) *)

\* The application appends to the file it has open, whatever its name is.
Append1(isMark) ==
    /\ written < UnitBound[mode]
    /\ written' = written + 1
    /\ content' = [content EXCEPT ![appFile] =
                    Append(@, [n |-> written + 1, mark |-> isMark])]
    /\ notify(IF Linked(appFile) THEN Seen("MODIFY", path[appFile]) ELSE <<>>)
    /\ UNCHANGED <<mode, dir, path, appFile, troubles, posVars, up, initQueue,
                   threadVars, table, sentVars>>

\* Rotation by renaming: IN_MOVED_FROM becomes MOVE, IN_MOVED_TO CREATE.  A
\* file that had the new name is unlinked without an event of its own.
Rename(a, b) ==
    /\ a # b /\ dir[a] \in Files
    /\ Trouble(IF dir[b] = NoFile THEN "rename" ELSE "overwrite")
    /\ dir' = [dir EXCEPT ![a] = NoFile, ![b] = dir[a]]
    /\ path' = [path EXCEPT ![dir[a]] = b]
    /\ notify(Seen("MOVE", a) \o Seen("CREATE", b))
    /\ UNCHANGED <<mode, content, written, appFile, posVars, up, initQueue,
                   threadVars, table, sentVars>>

\* After a rotation or a removal the application creates its log anew.
Reopen ==
    /\ dir[Live] = NoFile
    /\ appFile < FileCount
    /\ appFile' = appFile + 1
    /\ dir' = [dir EXCEPT ![Live] = appFile']
    /\ path' = [path EXCEPT ![appFile'] = Live]
    /\ notify(Seen("CREATE", Live))
    /\ UNCHANGED <<mode, content, written, troubles, posVars, up, initQueue,
                   threadVars, table, sentVars>>

Unlink(n) ==
    /\ dir[n] \in Files
    /\ Trouble("unlink")
    /\ dir' = [dir EXCEPT ![n] = NoFile]
    /\ notify(Seen("DELETE", n))
    /\ UNCHANGED <<mode, path, content, written, appFile, posVars, up, initQueue,
                   threadVars, table, sentVars>>

Truncate ==
    /\ content[appFile] # <<>> /\ Linked(appFile)
    /\ Trouble("truncate")
    /\ content' = [content EXCEPT ![appFile] = <<>>]
    /\ notify(Seen("MODIFY", path[appFile]))
    /\ UNCHANGED <<mode, dir, path, written, appFile, posVars, up, initQueue,
                   threadVars, table, sentVars>>

-----------------------------------------------------------------------------
(* Start, stop and crash of the process *)

\* As Scan, finding nothing.
Scan_Nothing == initQueue' = <<>>

\* addWatch: an _INIT event for every file of the directory that the pattern
\* matches, in the order of the directory.
Scan ==
    LET found == {n \in Watched : dir[n] \in Files} IN
    \E s \in [1..Cardinality(found) -> found] :
        /\ IsInjective(s)
        /\ initQueue' = [i \in DOMAIN s |-> Event("INIT", s[i])]

\* SavePositionServer::initImpl loads the position files and removes them.
LoadPositions ==
    /\ loaded' = disk
    /\ disk' = Empty

\* The constructors add the watch, startModule loads the positions, start runs
\* the threads.
Start ==
    /\ ~up
    /\ up' = TRUE
    /\ Scan
    /\ LoadPositions
    /\ UNCHANGED <<mode, fsVars, troubles, eventQueue, threadVars, table, sentVars>>

\* Everything the process has in memory is gone; the position files stay.
ProcessEnds ==
    /\ up' = FALSE
    /\ loaded' = Empty
    /\ table' = Empty
    /\ initQueue' = <<>>
    /\ eventQueue' = <<>>
    /\ bulk' = [t \in Monitors |-> <<>>]
    /\ pc' = [t \in Monitors |-> "run"]
    /\ size' = [t \in Monitors |-> 0]
    /\ UNCHANGED <<mode, fsVars, sentVars>>

\* stopImpl joins the monitor threads, which look at isRunning() between two
\* bulks; events still in the queue and buffered units are dropped.
Stop ==
    /\ up
    /\ \A t \in Monitors : bulk[t] = <<>>
    /\ "stop" \in troubles \/ Cardinality(Kinds) < TroubleBound
    /\ Ends("stop")
    /\ ProcessEnds
    /\ UNCHANGED disk

\* savePosition truncates the position file before it writes it: a crash in
\* between leaves an empty one, which is read as 0.
Crash ==
    /\ up
    /\ "crash" \in troubles \/ Cardinality(Kinds) < TroubleBound
    /\ Ends("crash")
    /\ ProcessEnds
    /\ \/ UNCHANGED disk
       \/ \E t \in Monitors :
            /\ mode.saveState /\ pc[t] = "save"
            /\ disk' = With(disk, Key(Head(bulk[t]).name), 0)

\* The pointer of a table entry is followed although createRecord threw and
\* left it empty: the process dies.
EmptyPointer ==
    /\ Ends("crash")
    /\ ProcessEnds
    /\ UNCHANGED disk

-----------------------------------------------------------------------------
(* Cutting what was read into messages: processBuffer *)

\* The parts of s that begin at 1 or at a cut and end before the next cut.
IsPart(s, cuts, a, b) ==
    /\ a <= b
    /\ a = 1 \/ a \in cuts
    /\ b = Len(s) \/ b + 1 \in cuts
    /\ \A c \in cuts : ~(a < c /\ c <= b)

Parts(s, cuts) ==
    UNION {{SubSeq(s, a, b) : b \in {b \in 1..Len(s) : IsPart(s, cuts, a, b)}} :
              a \in 1..Len(s)}

\* With a regex a message begins at every mark of the new text; what follows
\* the last mark stays in m_buffer.  buffer is the old m_buffer.
MarksIn(buffer, text) ==
    {i \in 2..(Len(buffer) + Len(text)) :
        i > Len(buffer) /\ text[i - Len(buffer)].mark}

\* As RegexMessages, but text without a mark is sent with what was buffered.
RegexMessages_Eager(buffer, text) ==
    LET cuts == MarksIn(buffer, text) IN
    IF cuts = {} THEN {buffer \o text}
    ELSE Parts(SubSeq(buffer \o text, 1, Max(cuts) - 1), cuts)

RegexMessages(buffer, text) ==
    LET cuts == MarksIn(buffer, text) IN
    IF cuts = {} THEN {}
    ELSE Parts(SubSeq(buffer \o text, 1, Max(cuts) - 1), cuts)

RegexBuffer(buffer, text) ==
    LET cuts == MarksIn(buffer, text)
        all == buffer \o text
    IN IF cuts = {} THEN all ELSE SubSeq(all, Max(cuts), Len(all))

\* Without one a message ends at every newline, which it does not include, and
\* at the end of every read; empty lines are skipped.
NewlineMessages(text) ==
    {m \in Parts(text, {i \in 1..Len(text) :
                            \/ text[i].mark
                            \/ i > 1 /\ text[i - 1].mark
                            \/ (i - 1) % ReadBuffer = 0}) :
        ~m[1].mark}

processBuffer(buffer, text) ==
    IF mode.regex
    THEN [messages |-> RegexMessages(buffer, text),
          buffer |-> RegexBuffer(buffer, text)]
    ELSE [messages |-> NewlineMessages(text), buffer |-> buffer]

UnitsOf(messages) == UNION {Range(m) : m \in messages}

\* processMessage, for each of the messages.
processMessage(messages) ==
    /\ sent' = sent \cup messages
    /\ again' = again \cup (UnitsOf(messages) \cap UnitsOf(sent))

-----------------------------------------------------------------------------
(* The monitor threads: TailMonitor::run *)

Current(t) == Head(bulk[t])
CurrentKey(t) == Key(Current(t).name)

\* A thread inside process() holds the accessor of its key.
Locked(k) == \E t \in Monitors : pc[t] \in {"read", "save"} /\ CurrentKey(t) = k

Finish(t) ==
    /\ bulk' = [bulk EXCEPT ![t] = Tail(@)]
    /\ pc' = [pc EXCEPT ![t] = "run"]
    /\ size' = [size EXCEPT ![t] = 0]

\* As Working, without waiting for the accessor.
Working_NoLock(t, types) ==
    /\ up
    /\ pc[t] = "run"
    /\ bulk[t] # <<>>
    /\ Current(t).type \in types

Working(t, types) ==
    /\ up
    /\ pc[t] = "run"
    /\ bulk[t] # <<>>
    /\ Current(t).type \in types
    /\ ~Locked(CurrentKey(t))

\* try_dequeue_bulk.  The scan and the inotify thread are different producers
\* of the queue: there is no order between their events.
First(q) == SubSeq(q, 1, Min({EventBulk, Len(q)}))
Rest(q) == SubSeq(q, Min({EventBulk, Len(q)}) + 1, Len(q))

Take(t) ==
    /\ up
    /\ pc[t] = "run"
    /\ bulk[t] = <<>>
    /\ \/ /\ initQueue # <<>>
          /\ bulk' = [bulk EXCEPT ![t] = First(initQueue)]
          /\ initQueue' = Rest(initQueue)
          /\ UNCHANGED eventQueue
       \/ /\ eventQueue # <<>>
          /\ bulk' = [bulk EXCEPT ![t] = First(eventQueue)]
          /\ eventQueue' = Rest(eventQueue)
          /\ UNCHANGED initQueue
    /\ UNCHANGED <<mode, fsVars, troubles, posVars, up, pc, size, table, sentVars>>

Reading == {"INIT", "CREATE", "MODIFY"}

\* modify, for a name whose file is gone: the entry is inserted, createRecord
\* throws because the file cannot be opened, and the exception ends the thread.
OpenFails(t) ==
    /\ Working(t, Reading)
    /\ CurrentKey(t) \notin DOMAIN table
    /\ dir[Current(t).name] = NoFile
    /\ table' = With(table, CurrentKey(t), Null)
    /\ bulk' = [bulk EXCEPT ![t] = <<>>]
    /\ pc' = [pc EXCEPT ![t] = "dead"]
    /\ UNCHANGED <<mode, fsVars, troubles, posVars, up, queueVars, size, sentVars>>

getSavedPosition(k) == IF k \in DOMAIN loaded THEN loaded[k] ELSE 0

\* The constructor of PointersTableInternalRecord.
createRecord(n) ==
    [Null EXCEPT !.file = dir[n],
                 !.pos = IF mode.saveState THEN getSavedPosition(Key(n)) ELSE 0]

\* modify up to the size of the file: createRecord if there is no entry, then
\* process.  A stream left bad by an earlier read yields no size: the position
\* is reset and nothing is read this time.
process(t) ==
    LET k == CurrentKey(t)
        r == IF k \in DOMAIN table THEN table[k] ELSE createRecord(k.name)
        length == Len(content[r.file])
        pos == IF length < r.pos THEN 0 ELSE r.pos
    IN  /\ Working(t, Reading)
        /\ k \in DOMAIN table \/ dir[k.name] \in Files
        /\ r # Null
        /\ \/ /\ r.bad
              /\ table' = With(table, k, [r EXCEPT !.pos = 0, !.bad = FALSE])
              /\ Finish(t)
           \/ /\ ~r.bad /\ length > pos /\ mode.followOnly /\ ~r.firstRead
              /\ table' = With(table, k, [r EXCEPT !.pos = length, !.firstRead = TRUE])
              /\ Finish(t)
           \/ /\ ~r.bad /\ length > pos /\ (mode.followOnly => r.firstRead)
              /\ table' = With(table, k, [r EXCEPT !.pos = pos])
              /\ pc' = [pc EXCEPT ![t] = "read"]
              /\ size' = [size EXCEPT ![t] = length]
              /\ UNCHANGED bulk
           \/ /\ ~r.bad /\ length = pos
              /\ table' = With(table, k, [r EXCEPT !.pos = pos])
              /\ pc' = [pc EXCEPT ![t] = "save"]
              /\ UNCHANGED <<bulk, size>>
        /\ UNCHANGED <<mode, fsVars, troubles, posVars, up, queueVars, sentVars>>

\* The loop of process: read up to the size seen before.  If the file has been
\* truncated meanwhile, or the position is negative and seekg fails, the stream
\* is bad afterwards.
Read(t) ==
    LET k == CurrentKey(t)
        r == table[k]
        text == IF r.pos < 0 THEN <<>>
                ELSE SubSeq(content[r.file], r.pos + 1,
                            Min({size[t], Len(content[r.file])}))
        p == processBuffer(r.buffer, text)
    IN  /\ up
        /\ pc[t] = "read"
        /\ processMessage(p.messages)
        /\ table' = With(table, k,
                [r EXCEPT !.pos = @ + Len(text), !.buffer = p.buffer,
                          !.bad = r.pos < 0 \/ Len(content[r.file]) < size[t]])
        /\ pc' = [pc EXCEPT ![t] = "save"]
        /\ size' = [size EXCEPT ![t] = 0]
        /\ UNCHANGED <<mode, fsVars, troubles, posVars, up, queueVars, bulk>>

\* As savePosition, counting what is in m_buffer as read.
savePosition_Ahead(k, r) ==
    disk' = IF mode.saveState THEN With(disk, k, r.pos) ELSE disk

\* savePosition of a record: what is in m_buffer will be read again.
savePosition(k, r) ==
    disk' = IF mode.saveState THEN With(disk, k, r.pos - Len(r.buffer)) ELSE disk

Save(t) ==
    /\ up
    /\ pc[t] = "save"
    /\ savePosition(CurrentKey(t), table[CurrentKey(t)])
    /\ Finish(t)
    /\ UNCHANGED <<mode, fsVars, troubles, loaded, up, queueVars, table, sentVars>>

\* getCurrentFileName
getCurrentFileName(f) == [name |-> path[f], deleted |-> ~Linked(f)]

\* As move, but the record is always dropped.
move_Forget(t) ==
    /\ Working(t, {"MOVE"})
    /\ table' = Without(table, CurrentKey(t))
    /\ Finish(t)
    /\ UNCHANGED <<mode, fsVars, troubles, posVars, up, queueVars, sentVars>>

\* The record keeps its descriptor and goes under the present name of the file,
\* unless that is taken.
move(t) ==
    LET k == CurrentKey(t)
        new == getCurrentFileName(table[k].file)
    IN  /\ Working(t, {"MOVE"})
        /\ \/ k \notin DOMAIN table /\ UNCHANGED table
           \/ /\ k \in DOMAIN table /\ table[k] # Null
              /\ new = k
              /\ UNCHANGED table
           \/ /\ k \in DOMAIN table /\ table[k] # Null
              /\ new # k /\ ~Locked(new)
              /\ table' = IF new \in DOMAIN table THEN Without(table, k)
                          ELSE With(Without(table, k), new, table[k])
        /\ Finish(t)
        /\ UNCHANGED <<mode, fsVars, troubles, posVars, up, queueVars, sentVars>>

erasePosition(k) == disk' = Without(disk, k)

\* remove: the entry, its buffer and its saved position are dropped.
remove(t) ==
    LET k == CurrentKey(t) IN
    /\ Working(t, {"DELETE"})
    /\ \/ k \notin DOMAIN table /\ UNCHANGED <<table, disk>>
       \/ /\ k \in DOMAIN table /\ table[k] # Null
          /\ table' = Without(table, k)
          /\ erasePosition(k)
    /\ Finish(t)
    /\ UNCHANGED <<mode, fsVars, troubles, loaded, up, queueVars, sentVars>>

\* Any event for an entry without a record.
FollowEmptyPointer(t) ==
    /\ Working(t, EventTypes)
    /\ CurrentKey(t) \in DOMAIN table
    /\ table[CurrentKey(t)] = Null
    /\ EmptyPointer

-----------------------------------------------------------------------------
(* The timer thread: TailMonitor::flush, one entry at a time *)

\* PointersTableInternalRecord::flush
FlushRecord(k) ==
    /\ table[k].buffer # <<>>
    /\ processMessage({table[k].buffer})
    /\ table' = [table EXCEPT ![k].buffer = <<>>]
    /\ savePosition(k, [table[k] EXCEPT !.buffer = <<>>])

flush(k) ==
    /\ up /\ mode.timer
    /\ k \in DOMAIN table /\ ~Locked(k)
    /\ \/ table[k] = Null /\ EmptyPointer
       \/ /\ FlushRecord(k)
          /\ UNCHANGED <<mode, fsVars, troubles, loaded, up, queueVars, threadVars>>

-----------------------------------------------------------------------------
Monitor(t) ==
    \/ Take(t) \/ OpenFails(t) \/ process(t) \/ Read(t) \/ Save(t)
    \/ move(t) \/ remove(t) \/ FollowEmptyPointer(t)

Next ==
    \/ \E isMark \in BOOLEAN : Append1(isMark)
    \/ \E a, b \in Names : Rename(a, b)
    \/ Reopen
    \/ \E n \in Names : Unlink(n)
    \/ Truncate
    \/ Start \/ Stop \/ Crash
    \/ \E t \in mode.monitors : Monitor(t)
    \/ \E k \in Keys : flush(k)

\* A monitor thread sleeps 100 ms at most between two calls of run, the timer
\* thread read_timeout seconds.  Nothing obliges the application, or whoever
\* starts the process.
Fairness ==
    /\ WF_vars(\E t \in mode.monitors : Monitor(t))
    /\ WF_vars(\E k \in Keys : flush(k))

Spec == Init /\ [][Next]_vars /\ Fairness

-----------------------------------------------------------------------------
(* Properties *)

\* Restarts find positions by name: once a file has also been renamed, they
\* belong to another file.
Restarted == troubles \cap {"stop", "crash"} # {}
Renamed == troubles \cap {"rename", "overwrite"} # {}

\* Units in a file that no message had; a newline is in none.
Unread ==
    {u \in UNION {Range(content[f]) : f \in Files} :
        u \notin UnitsOf(sent) /\ (u.mark => mode.regex)}

\* No unit reaches the input queue twice: not when a file grows while it is
\* read, not when it is renamed between two events, not over any number of stops
\* and starts that go through the saved positions.  (A crash between enqueue and
\* savePosition, truncation, removal and replacement may repeat some, and so
\* may a rename seen by several monitor threads.  And a stop that comes before
\* the monitors have looked at every file whose position was loaded: initImpl
\* has removed the position files, so the next start reads from the beginning.)
AtMostOnce ==
    \/ troubles \cap {"crash", "truncate", "unlink", "overwrite", "forget"} # {}
    \/ Restarted /\ (Renamed \/ ~mode.saveState)
    \/ Renamed /\ Cardinality(mode.monitors) > 1
    \/ again = {}

\* What lies before the position of a record has been handed on, except what
\* waits in its buffer: also right after a restart, when the position comes from
\* disk, even if the process crashed at any point.
NothingSkipped ==
    \A k \in DOMAIN table :
        LET r == table[k] IN
        \/ r = Null \/ mode.followOnly \/ "truncate" \in troubles
        \/ Restarted /\ (Renamed \/ "unlink" \in troubles)
        \/ \A i \in 1..(r.pos - Len(r.buffer)) :
               content[r.file][i] \notin Unread

\* m is a run of adjacent units of s.
Within(m, s) ==
    \E a \in 0..(Len(s) - Len(m)) : \A i \in 1..Len(m) : m[i] = s[a + i]

\* However reads, renames, restarts and the application's writes fall, a message
\* is adjacent text of one file; and with startmsg_regex it is cut at marks
\* only: a mark is the first unit of a message or in no message at all, and, if
\* no timer flushes, what follows a message in its file is a mark.  (Without a
\* regex a message also ends where a read ends, so that a line written in two
\* steps may go out as two messages.  After a truncation neither holds: m_buffer
\* survives the reset of the position.)
MessagesAreWhole ==
    \A m \in sent :
        /\ "truncate" \in troubles \/ \E f \in Files : Within(m, content[f])
        /\ mode.regex =>
               /\ \A i \in 2..Len(m) : ~m[i].mark
               /\ \/ mode.timer \/ "truncate" \in troubles
                  \/ \A f \in Files : \A i \in 2..Len(content[f]) :
                         content[f][i - 1] = m[Len(m)] => content[f][i].mark

\* What the tail input does not promise to read.
Losing ==
    \/ ~up
    \/ mode.followOnly
    \/ mode.regex /\ ~mode.timer
    \/ troubles \cap {"truncate", "unlink", "overwrite"} # {}
    \/ Renamed /\ (Restarted \/ ~mode.dir \/ Cardinality(mode.monitors) > 1)
    \/ \E t \in Monitors : pc[t] = "dead"

\* Everything the application writes into a watched file is eventually handed
\* on, through growth, rename to a watched name, a stop or a crash if there is a
\* start after it: while the process is up the monitor catches up again and again (the application pauses when
\* it has written UnitBound[mode] units).
EveryUnitRead == []<>(Losing \/ Unread = {})

\* Rotation is supported: renaming, removing and re-creating files never ends a
\* monitor thread.
MonitorsSurvive == \A t \in Monitors : pc[t] # "dead"
=============================================================================
