----------------------------- MODULE GelfChunks -----------------------------
(***************************************************************************)
(* Reassembly of chunked GELF messages received over UDP                   *)
(* (src/src/inputs/gelf/udp): Server::udp_session::process puts every      *)
(* chunk into an unbounded queue; one thread of GelfInput takes them out   *)
(* in bulks, collects them per message id, hands complete messages to the  *)
(* input queue and evicts what is older than m_chunk_ttl.                  *)
(*                                                                         *)
(* A datagram is [id, num, cnt]: message id and the two header bytes; its  *)
(* text is left out, the datagram stands for it.  The network loses,       *)
(* reorders and duplicates datagrams; the chunk queue keeps no order       *)
(* either, since the io threads are different producers of it.             *)
(***************************************************************************)
EXTENDS Integers, FiniteSets

CONSTANTS
    Ids,             \* message ids in use
    Datagrams,       \* what senders put on the wire
    Ttl,             \* m_chunk_ttl, in ticks of the clock
    ChunkBulkLimit,  \* chunk_bulk_limit
    MaxCopies        \* bound: how often the network delivers each datagram

Byte == 0..255

ASSUME DatagramsAssumption ==
    /\ Datagrams \subseteq [id : Ids, num : Byte, cnt : Byte]
    /\ IsFiniteSet(Datagrams)
ASSUME LimitsAssumption ==
    /\ Ttl \in Nat
    /\ ChunkBulkLimit \in Nat \ {0}
    /\ MaxCopies \in [Datagrams -> Nat]

VARIABLES
    arrivals,   \* how often each datagram has arrived
    chunkQueue, \* m_chunkQueuePtr: arrived chunks <<datagram, n-th copy>>
    bulk,       \* the chunks of the current bulk still to be looked at
    pc,         \* the chunk thread: about to dequeue, in the bulk, or gone
    running,    \* isRunning()
    listening,  \* m_io_service has not been stopped
    size,       \* ChunkedMessage::size per id; 0: the id is not in chunkMap
    chunks,     \* ChunkedMessage::chunks per id: chunk number -> datagram
    age,        \* ticks since ChunkedMessage::time, up to Ttl
    badChunks,  \* m_bad_chunks
    delivered   \* history: assembled messages handed to enqueue, numbered

vars == <<arrivals, chunkQueue, bulk, pc, running, listening, size, chunks, age,
          badChunks, delivered>>
mapVars == <<size, chunks, age>>
runVars == <<running, listening>>

Copies == UNION {{d} \X (1..MaxCopies[d]) : d \in Datagrams}

NoChunks == [n \in {} |-> {}]

\* The header byte as the size_t that getSequenceNumber and getSequenceCount
\* return: GelfChunk's constructor reads it as a char, so from 128 on it is
\* sign-extended to 2^64 - 256 + b.  WordSize stands for 2^64; any value
\* far above 256 gives the same comparisons.
WordSize == 1000000
ToSize(b) == IF b < 128 THEN b ELSE WordSize - 256 + b

InMap(i) == size[i] # 0

TypeOK ==
    /\ arrivals \in [Datagrams -> Nat]
    /\ \A d \in Datagrams : arrivals[d] <= MaxCopies[d]
    /\ chunkQueue \subseteq Copies
    /\ bulk \subseteq Copies
    /\ pc \in {"dequeue", "bulk", "exited"}
    /\ running \in BOOLEAN
    /\ listening \in BOOLEAN
    /\ size \in [Ids -> 0..128]
    /\ \A i \in Ids : \A n \in DOMAIN chunks[i] : n \in 0..127 /\ chunks[i][n] \in Datagrams
    /\ age \in [Ids -> 0..Ttl]
    /\ badChunks \in Nat

Init ==
    /\ arrivals = [d \in Datagrams |-> 0]
    /\ chunkQueue = {}
    /\ bulk = {}
    /\ pc = "dequeue"
    /\ running = TRUE
    /\ listening = TRUE
    /\ size = [i \in Ids |-> 0]
    /\ chunks = [i \in Ids |-> NoChunks]
    /\ age = [i \in Ids |-> 0]
    /\ badChunks = 0
    /\ delivered = [i \in Ids |-> {}]

-----------------------------------------------------------------------------
\* A chunk arrives once more and is put into the chunk queue.
process(d) ==
    /\ listening
    /\ arrivals[d] < MaxCopies[d]
    /\ arrivals' = [arrivals EXCEPT ![d] = @ + 1]
    /\ chunkQueue' = chunkQueue \cup {<<d, arrivals[d] + 1>>}
    /\ UNCHANGED <<bulk, pc, runVars, mapVars, badChunks, delivered>>

\* As try_dequeue_bulk, blocking until there is a chunk.
wait_dequeue_bulk ==
    /\ pc = "dequeue"
    /\ running
    /\ \E S \in SUBSET chunkQueue :
        /\ Cardinality(S) \in 1..ChunkBulkLimit
        /\ bulk' = S
        /\ chunkQueue' = chunkQueue \ S
    /\ pc' = "bulk"
    /\ UNCHANGED <<arrivals, runVars, mapVars, badChunks, delivered>>

\* The loop takes up to ChunkBulkLimit chunks; perhaps none.
try_dequeue_bulk ==
    /\ pc = "dequeue"
    /\ running
    /\ \E S \in SUBSET chunkQueue :
        /\ Cardinality(S) <= ChunkBulkLimit
        /\ S = {} => chunkQueue = {}
        /\ bulk' = S
        /\ chunkQueue' = chunkQueue \ S
    /\ pc' = "bulk"
    /\ UNCHANGED <<arrivals, runVars, mapVars, badChunks, delivered>>

\* As OutOfRange, with > for >= in the test of the number.
OutOfRange_off_by_one(d) == ToSize(d.cnt) > 128 \/ ToSize(d.num) > ToSize(d.cnt)

\* As OutOfRange, without the test of the count.
OutOfRange_any_count(d) == ToSize(d.num) >= ToSize(d.cnt)

\* The tests before the chunk map is looked at.
OutOfRange(d) == ToSize(d.cnt) > 128 \/ ToSize(d.num) >= ToSize(d.cnt)

\* The chunk claims the count that the entry of its id was made with.
SameCount(d) == size[d.id] = ToSize(d.cnt)

\* The next chunk of the bulk is c; the thread is done with it.
Looks(c) ==
    /\ pc = "bulk"
    /\ c \in bulk
    /\ bulk' = bulk \ {c}
    /\ UNCHANGED <<arrivals, chunkQueue, pc, runVars, badChunks>>

\* Out of range.
RejectOutOfRange(c) ==
    LET d == c[1] IN
    /\ Looks(c)
    /\ OutOfRange(d)
    /\ UNCHANGED <<mapVars, delivered>>

\* Not of the same count as the chunks already there: put aside, the entry
\* stays as it is.
RejectMismatch(c) ==
    LET d == c[1] IN
    /\ Looks(c)
    /\ ~OutOfRange(d)
    /\ InMap(d.id) /\ ~SameCount(d)
    /\ UNCHANGED <<mapVars, delivered>>

\* The first chunk of an id makes an entry.  Whether it is already the whole
\* message is not looked at.
FirstChunk(c) ==
    LET d == c[1] IN
    /\ Looks(c)
    /\ ~OutOfRange(d)
    /\ ~InMap(d.id)
    /\ size' = [size EXCEPT ![d.id] = ToSize(d.cnt)]
    /\ age' = [age EXCEPT ![d.id] = 0]
    /\ chunks' = [chunks EXCEPT ![d.id] = [n \in {ToSize(d.num)} |-> d]]
    /\ UNCHANGED delivered

\* chunks[chunkNumber] = chunkPtr: a chunk that is there is replaced.
WithChunk(d) ==
    [n \in DOMAIN chunks[d.id] \cup {ToSize(d.num)} |->
        IF n = ToSize(d.num) THEN d ELSE chunks[d.id][n]]

\* As Complete, looking before the chunk is stored.
Complete_before_store(d) == Cardinality(DOMAIN chunks[d.id]) = size[d.id]

\* With chunk d the entry has as many chunks as the message.
Complete(d) == Cardinality(DOMAIN WithChunk(d)) = size[d.id]

\* As Erase, forgetting to erase.
Erase_forgotten(i) == UNCHANGED mapVars

\* chunkMap.erase for the entry of id i.
Erase(i) ==
    /\ size' = [size EXCEPT ![i] = 0]
    /\ chunks' = [chunks EXCEPT ![i] = NoChunks]
    /\ age' = [age EXCEPT ![i] = 0]

\* A further chunk of an id in the map.
StoreChunk(c) ==
    LET d == c[1] IN
    /\ Looks(c)
    /\ ~OutOfRange(d)
    /\ InMap(d.id) /\ SameCount(d)
    /\ ~Complete(d)
    /\ chunks' = [chunks EXCEPT ![d.id] = WithChunk(d)]
    /\ UNCHANGED <<size, age, delivered>>

\* The chunk that makes a message complete: the chunks are concatenated in the
\* order of their numbers and handed to the input queue; the entry is erased
\* whatever enqueue returns, and also when no record can be made of them.
LastChunk(c) ==
    LET d == c[1] IN
    /\ Looks(c)
    /\ ~OutOfRange(d)
    /\ InMap(d.id) /\ SameCount(d)
    /\ Complete(d)
    /\ delivered' = [delivered EXCEPT
            ![d.id] = @ \cup {<<Cardinality(@) + 1, WithChunk(d)>>}]
    /\ Erase(d.id)

\* After the bulk: erase the entries that are Ttl old, count them, sleep.
Stale == {i \in Ids : InMap(i) /\ age[i] >= Ttl}

Sweep ==
    /\ pc = "bulk"
    /\ bulk = {}
    /\ size' = [i \in Ids |-> IF i \in Stale THEN 0 ELSE size[i]]
    /\ chunks' = [i \in Ids |-> IF i \in Stale THEN NoChunks ELSE chunks[i]]
    /\ age' = [i \in Ids |-> IF i \in Stale THEN 0 ELSE age[i]]
    /\ badChunks' = badChunks + Cardinality(Stale)
    /\ pc' = "dequeue"
    /\ UNCHANGED <<arrivals, chunkQueue, bulk, runVars, delivered>>

\* Time passes, at any point of the loop (enqueue may throttle for long).
Tick ==
    /\ \E i \in Ids : InMap(i) /\ age[i] < Ttl
    /\ age' = [i \in Ids |-> IF InMap(i) /\ age[i] < Ttl THEN age[i] + 1 ELSE age[i]]
    /\ UNCHANGED <<arrivals, chunkQueue, bulk, pc, runVars, size, chunks,
                   badChunks, delivered>>

\* GelfInput::stop clears m_started; the thread leaves its loop before the
\* next bulk ...
Stop ==
    /\ running
    /\ running' = FALSE
    /\ UNCHANGED <<arrivals, chunkQueue, bulk, pc, listening, mapVars, badChunks,
                   delivered>>

\* ... and IOInput::stopImpl stops the io service, after which nothing arrives.
StopIo ==
    /\ ~running
    /\ listening
    /\ listening' = FALSE
    /\ UNCHANGED <<arrivals, chunkQueue, bulk, pc, running, mapVars, badChunks,
                   delivered>>

Exit ==
    /\ pc = "dequeue"
    /\ ~running
    /\ pc' = "exited"
    /\ UNCHANGED <<arrivals, chunkQueue, bulk, runVars, mapVars, badChunks,
                   delivered>>

ChunkThread ==
    \/ try_dequeue_bulk
    \/ \E c \in bulk :
        \/ RejectOutOfRange(c)
        \/ RejectMismatch(c)
        \/ FirstChunk(c)
        \/ StoreChunk(c)
        \/ LastChunk(c)
    \/ Sweep
    \/ Exit

Next ==
    \/ \E d \in Datagrams : process(d)
    \/ ChunkThread
    \/ Tick
    \/ Stop
    \/ StopIo

Spec == Init /\ [][Next]_vars

\* The thread is scheduled and the clock runs; datagrams need not come.
FairSpec == Spec /\ WF_vars(ChunkThread) /\ WF_vars(Tick)

-----------------------------------------------------------------------------
\* A message is handed on only when every one of its chunks is there, each at
\* its own place: no chunk of another message, none with a number outside the
\* message, none of a message with a different count.
ReassembledIntact ==
    \A i \in Ids : \A r \in delivered[i] :
        LET parts == r[2] IN
        \E n \in 1..128 :
            /\ DOMAIN parts = 0..(n - 1)
            /\ \A k \in DOMAIN parts : parts[k] = [id |-> i, num |-> k, cnt |-> n]

\* Duplicated datagrams do not multiply messages beyond the duplication: each
\* message handed on uses up one arrival of each of its chunks.
NoChunkUsedTwice ==
    \A d \in Datagrams :
        Cardinality({r \in delivered[d.id] : d \in {r[2][k] : k \in DOMAIN r[2]}})
            <= arrivals[d]

\* A message of more than one chunk does not stay in the map once all of its
\* chunks are there.
CompleteLeaves ==
    \A i \in Ids : Cardinality(DOMAIN chunks[i]) = size[i] => size[i] \in {0, 1}

\* An incomplete message does not stay in the map for ever: it is completed,
\* or the sweep evicts it even if nothing else arrives.
NothingLingers ==
    \A i \in Ids : InMap(i) ~> (~InMap(i) \/ ~running)
=============================================================================
