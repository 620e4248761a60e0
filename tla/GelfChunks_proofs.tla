-------------------------- MODULE GelfChunks_proofs --------------------------
(***************************************************************************)
(* Theorems about GelfChunks for any datagrams, any number of copies, any  *)
(* ttl and any bulk limit.  Beside the types the inductive invariant says  *)
(* what an entry of the chunk map looks like (EntriesInv) and where each   *)
(* arrival of a datagram is (ArrivalsInv).                                 *)
(***************************************************************************)
EXTENDS GelfChunks, FiniteSetTheorems, TLAPS

\* An entry of chunkMap of size n holds chunks of its own id and count only,
\* each under its own number, and at least one.
EntriesInv ==
    /\ DOMAIN chunks = Ids
    /\ \A i \in Ids :
        /\ DOMAIN chunks[i] \subseteq 0..(size[i] - 1)
        /\ size[i] # 0 => DOMAIN chunks[i] # {}
        /\ \A n \in DOMAIN chunks[i] :
              /\ chunks[i][n] \in Datagrams
              /\ chunks[i][n].id = i
              /\ chunks[i][n].num = n
              /\ chunks[i][n].cnt = size[i]

\* The arrivals of d that the thread has not looked at yet, ...
Waiting(d) == {c \in chunkQueue \cup bulk : c[1] = d}

\* ... the one the map holds, ...
Held(d) == IF \E n \in DOMAIN chunks[d.id] : chunks[d.id][n] = d THEN 1 ELSE 0

\* ... and the messages handed on with it.
Uses(d) == {r \in delivered[d.id] : d \in {r[2][k] : k \in DOMAIN r[2]}}

\* Each of them is a different arrival of d.
ArrivalsInv ==
    /\ DOMAIN delivered = Ids
    /\ \A i \in Ids : IsFiniteSet(delivered[i])
    /\ \A c \in chunkQueue \cup bulk : c[2] <= arrivals[c[1]]
    /\ chunkQueue \cap bulk = {}
    /\ \A d \in Datagrams : IsFiniteSet(Waiting(d))
    /\ \A d \in Datagrams :
          Cardinality(Uses(d)) + Held(d) + Cardinality(Waiting(d)) <= arrivals[d]

IInv == TypeOK /\ EntriesInv /\ ArrivalsInv /\ CompleteLeaves /\ ReassembledIntact

-----------------------------------------------------------------------------
(* The header bytes and the copies *)

\* The two tests of GelfInput.cpp:71, on bytes as ToSize sees them.
LEMMA InRangeBytes ==
    ASSUME NEW num \in Byte, NEW cnt \in Byte,
           ~(ToSize(cnt) > 128), ~(ToSize(num) >= ToSize(cnt))
    PROVE  /\ ToSize(cnt) = cnt
           /\ ToSize(num) = num
           /\ cnt \in 1..128
           /\ num \in 0..(cnt - 1)
  <1>1. cnt < 128
    BY SMT DEF Byte, ToSize, WordSize
  <1>2. ToSize(cnt) = cnt
    BY <1>1, SMT DEF Byte, ToSize
  <1>3. num < 128
    BY <1>1, <1>2, SMT DEF Byte, ToSize, WordSize
  <1>4. QED
    BY <1>1, <1>2, <1>3, SMT DEF Byte, ToSize

\* Within the range the two header bytes are what the sender wrote: the sign
\* extension of GelfChunk.cpp:31 does not show.
LEMMA InRange ==
    ASSUME NEW d \in Datagrams, ~OutOfRange(d)
    PROVE  /\ d.id \in Ids
           /\ ToSize(d.cnt) = d.cnt
           /\ ToSize(d.num) = d.num
           /\ d.cnt \in 1..128
           /\ d.num \in 0..(d.cnt - 1)
  <1>1. d \in [id : Ids, num : Byte, cnt : Byte]
    BY DatagramsAssumption
  <1>2. d.id \in Ids /\ d.num \in Byte /\ d.cnt \in Byte
    BY <1>1
  <1>3. ~(ToSize(d.cnt) > 128) /\ ~(ToSize(d.num) >= ToSize(d.cnt))
    BY DEF OutOfRange
  <1>4. QED
    BY <1>2, <1>3, InRangeBytes, Zenon

\* A chunk in a queue or a bulk carries a datagram.
LEMMA CopyOfDatagram ==
    ASSUME NEW c \in Copies
    PROVE  /\ c[1] \in Datagrams
           /\ c[2] \in 1..MaxCopies[c[1]]
           /\ c = <<c[1], c[2]>>
  <1>1. PICK d \in Datagrams : c \in {d} \X (1..MaxCopies[d])
    BY DEF Copies
  <1>2. QED
    BY <1>1

\* Every datagram has its id in Ids.
LEMMA IdOfDatagram ==
    ASSUME NEW d \in Datagrams
    PROVE  d.id \in Ids
  BY DatagramsAssumption

\* Only finitely many ids are in the map: those of some datagram.
LEMMA InMapFinite ==
    ASSUME TypeOK, EntriesInv
    PROVE  IsFiniteSet(Stale) /\ Cardinality(Stale) \in Nat
  <1> DEFINE f == [d \in Datagrams |-> d.id]
             I == {d.id : d \in Datagrams}
  <1>1. f \in Surjection(Datagrams, I)
    BY DEF Surjection
  <1>2. IsFiniteSet(I)
    BY <1>1, DatagramsAssumption, FS_Surjection
  <1>3. Stale \in SUBSET I
    <2> SUFFICES ASSUME NEW i \in Stale PROVE i \in I
      OBVIOUS
    <2>1. i \in Ids /\ size[i] # 0
      BY DEF Stale, InMap
    <2>2. PICK n \in DOMAIN chunks[i] : chunks[i][n] \in Datagrams /\ chunks[i][n].id = i
      BY <2>1 DEF EntriesInv
    <2>3. QED
      BY <2>2
  <1>4. QED
    BY <1>2, <1>3, FS_Subset, FS_CardinalityType

-----------------------------------------------------------------------------
(* Types and entries *)

\* GelfInput::startImpl begins with empty queues and an empty map.
LEMMA InitIInv == Init => IInv
  <1> SUFFICES ASSUME Init PROVE IInv
    OBVIOUS
  <1>1. TypeOK
    BY LimitsAssumption DEF Init, TypeOK, NoChunks
  <1>2. EntriesInv
    BY DEF Init, EntriesInv, NoChunks
  <1>3. CompleteLeaves
    BY DEF Init, CompleteLeaves
  <1>4. ReassembledIntact
    BY DEF Init, ReassembledIntact
  <1>5. ArrivalsInv
    <2>1. ASSUME NEW d \in Datagrams
          PROVE  Waiting(d) = {} /\ Uses(d) = {} /\ Held(d) = 0
      BY IdOfDatagram DEF Init, Waiting, Uses, Held, NoChunks
    <2>2. IsFiniteSet({}) /\ Cardinality({}) = 0
      BY FS_EmptySet
    <2>3. /\ DOMAIN delivered = Ids
          /\ \A i \in Ids : delivered[i] = {}
          /\ chunkQueue = {} /\ bulk = {}
          /\ \A d \in Datagrams : arrivals[d] = 0
      BY DEF Init
    <2>4. ASSUME NEW d \in Datagrams
          PROVE  /\ IsFiniteSet(Waiting(d))
                 /\ Cardinality(Uses(d)) + Held(d) + Cardinality(Waiting(d)) <= arrivals[d]
      <3>1. /\ IsFiniteSet(Waiting(d))
            /\ Cardinality(Uses(d)) = 0 /\ Held(d) = 0 /\ Cardinality(Waiting(d)) = 0
            /\ arrivals[d] = 0
        BY <2>1, <2>2, <2>3, Zenon
      <3>2. QED
        BY <3>1
    <2>5. \A i \in Ids : IsFiniteSet(delivered[i])
      BY <2>2, <2>3, Zenon
    <2>6. QED
      BY <2>3, <2>4, <2>5 DEF ArrivalsInv
  <1>6. QED
    BY <1>1, <1>2, <1>3, <1>4, <1>5 DEF IInv

\* The chunks of an entry after chunks[chunkNumber] = chunkPtr, GelfInput.cpp:92.
LEMMA WithChunkEntry ==
    ASSUME EntriesInv, NEW d \in Datagrams, ~OutOfRange(d), InMap(d.id), SameCount(d)
    PROVE  /\ DOMAIN WithChunk(d) = DOMAIN chunks[d.id] \cup {d.num}
           /\ DOMAIN WithChunk(d) \subseteq 0..(size[d.id] - 1)
           /\ size[d.id] = d.cnt
           /\ WithChunk(d)[d.num] = d
           /\ \A n \in DOMAIN WithChunk(d) :
                 /\ n # d.num => WithChunk(d)[n] = chunks[d.id][n]
                 /\ WithChunk(d)[n] \in Datagrams
                 /\ WithChunk(d)[n].id = d.id
                 /\ WithChunk(d)[n].num = n
                 /\ WithChunk(d)[n].cnt = size[d.id]
  <1>1. /\ d.id \in Ids
        /\ ToSize(d.cnt) = d.cnt
        /\ ToSize(d.num) = d.num
        /\ d.cnt \in 1..128
        /\ d.num \in 0..(d.cnt - 1)
    BY InRange
  <1>2. size[d.id] = d.cnt
    BY <1>1 DEF SameCount
  <1>3. DOMAIN WithChunk(d) = DOMAIN chunks[d.id] \cup {d.num}
    BY <1>1 DEF WithChunk
  <1>4. \A n \in DOMAIN WithChunk(d) :
           WithChunk(d)[n] = IF n = d.num THEN d ELSE chunks[d.id][n]
    BY <1>1, <1>3 DEF WithChunk
  <1>5. DOMAIN chunks[d.id] \subseteq 0..(size[d.id] - 1)
    BY <1>1 DEF EntriesInv
  <1>6. \A n \in DOMAIN chunks[d.id] :
           /\ chunks[d.id][n] \in Datagrams
           /\ chunks[d.id][n].id = d.id
           /\ chunks[d.id][n].num = n
           /\ chunks[d.id][n].cnt = size[d.id]
    BY <1>1 DEF EntriesInv
  <1>7. DOMAIN WithChunk(d) \subseteq 0..(size[d.id] - 1)
    BY <1>1, <1>2, <1>3, <1>5
  <1>8. QED
    BY <1>1, <1>2, <1>3, <1>4, <1>6, <1>7, Zenon

\* chunkMap.erase (GelfInput.cpp:117) touches one entry.
LEMMA EraseEffect ==
    ASSUME TypeOK, EntriesInv, NEW i \in Ids, Erase(i)
    PROVE  /\ size' \in [Ids -> 0..128]
           /\ age' \in [Ids -> 0..Ttl]
           /\ DOMAIN chunks' = Ids
           /\ \A j \in Ids : size'[j] = IF j = i THEN 0 ELSE size[j]
           /\ \A j \in Ids : chunks'[j] = IF j = i THEN NoChunks ELSE chunks[j]
  BY LimitsAssumption DEF TypeOK, EntriesInv, Erase

\* Every step keeps the types of the thread's variables.
LEMMA TypeStep == TypeOK /\ EntriesInv /\ [Next]_vars => TypeOK'
  <1> SUFFICES ASSUME TypeOK, EntriesInv, [Next]_vars PROVE TypeOK'
    OBVIOUS
  <1> USE DEF mapVars, runVars
  <1>1. ASSUME NEW d \in Datagrams, process(d) PROVE TypeOK'
    <2>0. /\ MaxCopies[d] \in Nat
          /\ arrivals[d] \in Nat
          /\ arrivals[d] < MaxCopies[d]
          /\ arrivals' = [arrivals EXCEPT ![d] = arrivals[d] + 1]
      BY <1>1, LimitsAssumption DEF TypeOK, process
    <2>1. <<d, arrivals[d] + 1>> \in Copies
      <3>1. arrivals[d] + 1 \in 1..MaxCopies[d]
        BY <2>0
      <3>2. <<d, arrivals[d] + 1>> \in {d} \X (1..MaxCopies[d])
        BY <3>1
      <3>3. QED
        BY <3>2, Zenon DEF Copies
    <2>2. arrivals' \in [Datagrams -> Nat] /\ \A e \in Datagrams : arrivals'[e] <= MaxCopies[e]
      BY <2>0, SMT DEF TypeOK
    <2>3. chunkQueue' \subseteq Copies
      BY <1>1, <2>1 DEF TypeOK, process
    <2>4. QED
      BY <1>1, <2>2, <2>3 DEF TypeOK, process
  <1>2. CASE try_dequeue_bulk
    BY <1>2 DEF TypeOK, try_dequeue_bulk
  <1>3. ASSUME NEW c \in bulk, RejectOutOfRange(c) \/ RejectMismatch(c) PROVE TypeOK'
    BY <1>3 DEF TypeOK, RejectOutOfRange, RejectMismatch, Looks
  <1>4. ASSUME NEW c \in bulk, FirstChunk(c) PROVE TypeOK'
    <2> DEFINE d == c[1]
    <2>1. d \in Datagrams /\ ~OutOfRange(d)
      BY <1>4, CopyOfDatagram DEF TypeOK, FirstChunk
    <2>2. /\ d.id \in Ids
          /\ ToSize(d.cnt) = d.cnt
          /\ ToSize(d.num) = d.num
          /\ d.cnt \in 1..128
          /\ d.num \in 0..(d.cnt - 1)
      BY <2>1, InRange
    <2>3. size' \in [Ids -> 0..128] /\ age' \in [Ids -> 0..Ttl]
      BY <1>4, <2>2, LimitsAssumption DEF TypeOK, FirstChunk
    <2>4. \A i \in Ids : chunks'[i] = IF i = d.id THEN [n \in {d.num} |-> d] ELSE chunks[i]
      BY <1>4, <2>2 DEF EntriesInv, FirstChunk
    <2>5. \A i \in Ids : \A n \in DOMAIN chunks'[i] : n \in 0..127 /\ chunks'[i][n] \in Datagrams
      BY <2>1, <2>2, <2>4 DEF TypeOK
    <2>6. QED
      BY <1>4, <2>3, <2>5 DEF TypeOK, FirstChunk, Looks
  <1>5. ASSUME NEW c \in bulk, StoreChunk(c) PROVE TypeOK'
    <2> DEFINE d == c[1]
    <2>1. d \in Datagrams /\ ~OutOfRange(d) /\ InMap(d.id) /\ SameCount(d)
      BY <1>5, CopyOfDatagram DEF TypeOK, StoreChunk
    <2>2. d.id \in Ids /\ size[d.id] \in 0..128
      BY <2>1, IdOfDatagram DEF TypeOK
    <2>3. \A i \in Ids : chunks'[i] = IF i = d.id THEN WithChunk(d) ELSE chunks[i]
      BY <1>5, <2>2 DEF EntriesInv, StoreChunk
    <2>4. \A n \in DOMAIN WithChunk(d) : n \in 0..127 /\ WithChunk(d)[n] \in Datagrams
      <3>1. /\ DOMAIN WithChunk(d) \subseteq 0..(size[d.id] - 1)
            /\ \A n \in DOMAIN WithChunk(d) : WithChunk(d)[n] \in Datagrams
        BY <2>1, WithChunkEntry, Zenon
      <3>2. QED
        BY <2>2, <3>1
    <2>5. \A i \in Ids : \A n \in DOMAIN chunks'[i] : n \in 0..127 /\ chunks'[i][n] \in Datagrams
      BY <2>3, <2>4 DEF TypeOK
    <2>6. QED
      BY <1>5, <2>5 DEF TypeOK, StoreChunk, Looks
  <1>6. ASSUME NEW c \in bulk, LastChunk(c) PROVE TypeOK'
    <2>1. Erase(c[1].id) /\ Looks(c)
      BY <1>6 DEF LastChunk
    <2>2. c[1].id \in Ids
      BY CopyOfDatagram, IdOfDatagram DEF TypeOK
    <2>3. /\ size' \in [Ids -> 0..128]
          /\ age' \in [Ids -> 0..Ttl]
          /\ \A i \in Ids : chunks'[i] = chunks[i] \/ chunks'[i] = NoChunks
      BY <2>1, <2>2, EraseEffect
    <2>4. \A i \in Ids : \A n \in DOMAIN chunks'[i] : n \in 0..127 /\ chunks'[i][n] \in Datagrams
      <3>1. DOMAIN NoChunks = {}
        BY DEF NoChunks
      <3>2. \A i \in Ids : \A n \in DOMAIN chunks[i] : n \in 0..127 /\ chunks[i][n] \in Datagrams
        BY DEF TypeOK
      <3>3. QED
        BY <2>3, <3>1, <3>2, Zenon
    <2>5. QED
      BY <2>1, <2>3, <2>4 DEF TypeOK, Looks
  <1>7. CASE Sweep
    <2>1. badChunks' \in Nat
      BY <1>7, InMapFinite DEF TypeOK, Sweep
    <2>2. size' \in [Ids -> 0..128] /\ age' \in [Ids -> 0..Ttl]
      BY <1>7, LimitsAssumption DEF TypeOK, Sweep
    <2>3. \A i \in Ids : \A n \in DOMAIN chunks'[i] : n \in 0..127 /\ chunks'[i][n] \in Datagrams
      BY <1>7 DEF TypeOK, Sweep, NoChunks
    <2>4. QED
      BY <1>7, <2>1, <2>2, <2>3 DEF TypeOK, Sweep
  <1>8. CASE Exit \/ Stop \/ StopIo
    BY <1>8, ZenonT(40) DEF TypeOK, Exit, Stop, StopIo
  <1>9. CASE Tick
    BY <1>9, LimitsAssumption DEF TypeOK, Tick
  <1>10. CASE UNCHANGED vars
    BY <1>10 DEF TypeOK, vars
  <1>11. QED
    BY <1>1, <1>2, <1>3, <1>4, <1>5, <1>6, <1>7, <1>8, <1>9, <1>10 DEF Next, ChunkThread

\* An entry described by EntriesInv and CompleteLeaves.
EntryOK(i) ==
    /\ DOMAIN chunks[i] \subseteq 0..(size[i] - 1)
    /\ size[i] # 0 => DOMAIN chunks[i] # {}
    /\ \A n \in DOMAIN chunks[i] :
          /\ chunks[i][n] \in Datagrams
          /\ chunks[i][n].id = i
          /\ chunks[i][n].num = n
          /\ chunks[i][n].cnt = size[i]
    /\ Cardinality(DOMAIN chunks[i]) = size[i] => size[i] \in {0, 1}

\* No entry is EntryOK too.
LEMMA NoEntry ==
    ASSUME NEW i \in Ids, size'[i] = 0, chunks'[i] = NoChunks
    PROVE  EntryOK(i)'
  BY DEF EntryOK, NoChunks

\* Every step keeps the entries as they should be: the thread stores a chunk only
\* under an entry of its own count, and a complete one leaves.
LEMMA EntriesStep ==
    TypeOK /\ EntriesInv /\ CompleteLeaves /\ [Next]_vars => EntriesInv' /\ CompleteLeaves'
  <1> SUFFICES ASSUME TypeOK, EntriesInv, CompleteLeaves, [Next]_vars
               PROVE  EntriesInv' /\ CompleteLeaves'
    OBVIOUS
  <1>0. DOMAIN chunks = Ids /\ \A i \in Ids : EntryOK(i)
    BY DEF EntriesInv, CompleteLeaves, EntryOK
  <1> SUFFICES DOMAIN chunks' = Ids /\ \A i \in Ids : EntryOK(i)'
    BY DEF EntriesInv, CompleteLeaves, EntryOK
  <1>same. ASSUME NEW i \in Ids, size'[i] = size[i], chunks'[i] = chunks[i]
           PROVE  EntryOK(i)'
    BY <1>same, <1>0 DEF EntryOK
  <1>1. CASE UNCHANGED <<size, chunks>>
    BY <1>0, <1>1, <1>same
  <1>2. ASSUME NEW c \in bulk, FirstChunk(c)
        PROVE  DOMAIN chunks' = Ids /\ \A i \in Ids : EntryOK(i)'
    <2> DEFINE d == c[1]
    <2>1. d \in Datagrams /\ ~OutOfRange(d)
      BY <1>2, CopyOfDatagram DEF TypeOK, FirstChunk
    <2>2. /\ d.id \in Ids
          /\ ToSize(d.cnt) = d.cnt
          /\ ToSize(d.num) = d.num
          /\ d.cnt \in 1..128
          /\ d.num \in 0..(d.cnt - 1)
      BY <2>1, InRange
    <2>3. /\ DOMAIN chunks' = Ids
          /\ \A i \in Ids : chunks'[i] = IF i = d.id THEN [n \in {d.num} |-> d] ELSE chunks[i]
          /\ \A i \in Ids : size'[i] = IF i = d.id THEN d.cnt ELSE size[i]
      BY <1>2, <2>2 DEF EntriesInv, TypeOK, FirstChunk
    <2>4. EntryOK(d.id)'
      <3>1. DOMAIN chunks'[d.id] = {d.num} /\ chunks'[d.id][d.num] = d /\ size'[d.id] = d.cnt
        BY <2>2, <2>3
      <3>2. Cardinality({d.num}) = 1
        BY FS_Singleton
      <3>3. QED
        BY <2>1, <2>2, <3>1, <3>2 DEF EntryOK
    <2>5. QED
      BY <1>same, <2>3, <2>4
  <1>3. ASSUME NEW c \in bulk, StoreChunk(c)
        PROVE  DOMAIN chunks' = Ids /\ \A i \in Ids : EntryOK(i)'
    <2> DEFINE d == c[1]
    <2>1. d \in Datagrams /\ ~OutOfRange(d) /\ InMap(d.id) /\ SameCount(d) /\ ~Complete(d)
      BY <1>3, CopyOfDatagram DEF TypeOK, StoreChunk
    <2>2. d.id \in Ids
      BY <2>1, IdOfDatagram
    <2>3. /\ DOMAIN chunks' = Ids
          /\ \A i \in Ids : chunks'[i] = IF i = d.id THEN WithChunk(d) ELSE chunks[i]
          /\ size' = size
      BY <1>3, <2>2 DEF EntriesInv, StoreChunk
    <2>4. EntryOK(d.id)'
      <3>1. /\ DOMAIN WithChunk(d) = DOMAIN chunks[d.id] \cup {d.num}
            /\ DOMAIN WithChunk(d) \subseteq 0..(size[d.id] - 1)
            /\ \A n \in DOMAIN WithChunk(d) :
                  /\ WithChunk(d)[n] \in Datagrams
                  /\ WithChunk(d)[n].id = d.id
                  /\ WithChunk(d)[n].num = n
                  /\ WithChunk(d)[n].cnt = size[d.id]
        BY <2>1, WithChunkEntry, ZenonT(40)
      <3>2. Cardinality(DOMAIN WithChunk(d)) # size[d.id]
        BY <2>1 DEF Complete
      <3>3. chunks'[d.id] = WithChunk(d) /\ size'[d.id] = size[d.id]
        BY <2>2, <2>3
      <3>4. QED
        BY <3>1, <3>2, <3>3, Zenon DEF EntryOK
    <2>5. QED
      BY <1>same, <2>3, <2>4
  <1>4. ASSUME NEW c \in bulk, LastChunk(c)
        PROVE  DOMAIN chunks' = Ids /\ \A i \in Ids : EntryOK(i)'
    <2>1. c[1].id \in Ids /\ Erase(c[1].id)
      BY <1>4, CopyOfDatagram, IdOfDatagram DEF TypeOK, LastChunk
    <2>2. /\ DOMAIN chunks' = Ids
          /\ \A i \in Ids : size'[i] = IF i = c[1].id THEN 0 ELSE size[i]
          /\ \A i \in Ids : chunks'[i] = IF i = c[1].id THEN NoChunks ELSE chunks[i]
      BY <2>1, EraseEffect
    <2>3. QED
      BY <1>same, <2>2, NoEntry
  <1>5. CASE Sweep
    <2>1. /\ DOMAIN chunks' = Ids
          /\ \A i \in Ids : size'[i] = IF i \in Stale THEN 0 ELSE size[i]
          /\ \A i \in Ids : chunks'[i] = IF i \in Stale THEN NoChunks ELSE chunks[i]
      BY <1>5 DEF Sweep
    <2>2. QED
      BY <1>same, <2>1, NoEntry
  <1>6. QED
    BY <1>1, <1>2, <1>3, <1>4, <1>5
       DEF Next, ChunkThread, vars, mapVars, process, try_dequeue_bulk, RejectOutOfRange,
           RejectMismatch, Exit, Tick, Stop, StopIo

\* n numbers below n are all of them.
LEMMA FullInterval ==
    ASSUME NEW n \in 1..128, NEW D \in SUBSET (0..(n - 1)), Cardinality(D) = n
    PROVE  D = 0..(n - 1)
  <1>1. 0 \in Int /\ n - 1 \in Int
    OBVIOUS
  <1>2. /\ IsFiniteSet(0..(n - 1))
        /\ Cardinality(0..(n - 1)) = IF 0 > n - 1 THEN 0 ELSE (n - 1) - 0 + 1
    BY <1>1, FS_Interval, Zenon
  <1>3. Cardinality(0..(n - 1)) = Cardinality(D)
    BY <1>2
  <1>4. QED
    BY <1>2, <1>3, FS_Subset, Zenon

\* A message whose chunks are as many as its count has each of them, GelfInput.cpp:94.
LEMMA CompleteIsWhole ==
    ASSUME TypeOK, EntriesInv, NEW d \in Datagrams, ~OutOfRange(d),
           InMap(d.id), SameCount(d), Complete(d)
    PROVE  \E n \in 1..128 :
              /\ DOMAIN WithChunk(d) = 0..(n - 1)
              /\ \A k \in DOMAIN WithChunk(d) :
                    WithChunk(d)[k] = [id |-> d.id, num |-> k, cnt |-> n]
  <1> DEFINE n == size[d.id]
             D == DOMAIN WithChunk(d)
  <1>1. d.id \in Ids /\ n = d.cnt /\ d.cnt \in 1..128
    BY InRange DEF SameCount
  <1>2. /\ D \subseteq 0..(n - 1)
        /\ \A k \in D : /\ WithChunk(d)[k] \in Datagrams
                        /\ WithChunk(d)[k].id = d.id
                        /\ WithChunk(d)[k].num = k
                        /\ WithChunk(d)[k].cnt = n
    BY WithChunkEntry, Zenon
  <1>3. n \in 1..128
    BY <1>1
  <1>4. Cardinality(D) = n
    BY DEF Complete
  <1>5. D = 0..(n - 1)
    BY <1>2, <1>3, <1>4, FullInterval, Zenon
  <1>6. \A k \in D : WithChunk(d)[k] = [id |-> d.id, num |-> k, cnt |-> n]
    BY <1>2, DatagramsAssumption
  <1>7. QED
    BY <1>1, <1>5, <1>6

\* parts is a whole message of id i.
Whole(i, parts) ==
    \E n \in 1..128 :
        /\ DOMAIN parts = 0..(n - 1)
        /\ \A k \in DOMAIN parts : parts[k] = [id |-> i, num |-> k, cnt |-> n]

\* Every step hands on whole messages only.
LEMMA IntactStep == IInv /\ [Next]_vars => ReassembledIntact'
  <1> SUFFICES ASSUME IInv, [Next]_vars PROVE ReassembledIntact'
    OBVIOUS
  <1>0. \A i \in Ids : \A r \in delivered[i] : Whole(i, r[2])
    BY DEF IInv, ReassembledIntact, Whole
  <1> SUFFICES \A i \in Ids : \A r \in delivered'[i] : Whole(i, r[2])
    BY DEF ReassembledIntact, Whole
  <1>1. CASE UNCHANGED delivered
    BY <1>0, <1>1, Zenon
  <1>2. ASSUME NEW c \in bulk, LastChunk(c)
        PROVE  \A i \in Ids : \A r \in delivered'[i] : Whole(i, r[2])
    <2> DEFINE d == c[1]
    <2>1. /\ d \in Datagrams /\ d.id \in Ids /\ ~OutOfRange(d)
          /\ InMap(d.id) /\ SameCount(d) /\ Complete(d)
      BY <1>2, CopyOfDatagram, IdOfDatagram DEF IInv, TypeOK, LastChunk
    <2>2. Whole(d.id, WithChunk(d))
      BY <2>1, CompleteIsWhole DEF IInv, Whole
    <2>3. ASSUME NEW i \in Ids, NEW r \in delivered'[i]
          PROVE  r \in delivered[i] \/ (i = d.id /\ r[2] = WithChunk(d))
      BY <1>2, <2>1 DEF LastChunk, IInv, ArrivalsInv
    <2>4. QED
      BY <1>0, <2>2, <2>3, Zenon
  <1>3. QED
    BY <1>1, <1>2
       DEF Next, ChunkThread, vars, process, try_dequeue_bulk, RejectOutOfRange,
           RejectMismatch, FirstChunk, StoreChunk, Sweep, Exit, Tick, Stop, StopIo

-----------------------------------------------------------------------------
(* Where the arrivals are *)

\* The arrivals of d are enough for what is made of them.
Budget(d) ==
    /\ IsFiniteSet(Waiting(d))
    /\ Cardinality(Uses(d)) + Held(d) + Cardinality(Waiting(d)) <= arrivals[d]

\* What of ArrivalsInv is not about counting.
Accounts ==
    /\ DOMAIN delivered = Ids
    /\ \A i \in Ids : IsFiniteSet(delivered[i])
    /\ \A c \in chunkQueue \cup bulk : c[2] <= arrivals[c[1]]
    /\ chunkQueue \cap bulk = {}

\* The three counts are natural numbers.
LEMMA CountsAreNat ==
    ASSUME ArrivalsInv, NEW d \in Datagrams
    PROVE  /\ IsFiniteSet(Uses(d))
           /\ Cardinality(Uses(d)) \in Nat
           /\ Cardinality(Waiting(d)) \in Nat
           /\ Held(d) \in 0..1
  <1>1. d.id \in Ids
    BY IdOfDatagram
  <1>2. Uses(d) \in SUBSET delivered[d.id] /\ IsFiniteSet(delivered[d.id])
    BY <1>1 DEF Uses, ArrivalsInv
  <1>3. IsFiniteSet(Uses(d)) /\ IsFiniteSet(Waiting(d))
    BY <1>2, FS_Subset DEF ArrivalsInv
  <1>4. QED
    BY <1>3, FS_CardinalityType DEF Held

\* The thread takes one chunk out of its bulk: one arrival of its datagram less.
LEMMA LooksWaiting ==
    ASSUME TypeOK, ArrivalsInv, NEW c \in bulk, Looks(c), NEW d \in Datagrams
    PROVE  /\ IsFiniteSet(Waiting(d)')
           /\ d # c[1] => Cardinality(Waiting(d)') = Cardinality(Waiting(d))
           /\ d = c[1] => Cardinality(Waiting(d)') = Cardinality(Waiting(d)) - 1
  <1>1. Waiting(d)' = Waiting(d) \ {c}
    BY DEF Looks, Waiting, ArrivalsInv
  <1>2. IsFiniteSet(Waiting(d))
    BY DEF ArrivalsInv
  <1>3. /\ IsFiniteSet(Waiting(d) \ {c})
        /\ Cardinality(Waiting(d) \ {c}) =
              IF c \in Waiting(d) THEN Cardinality(Waiting(d)) - 1 ELSE Cardinality(Waiting(d))
    BY <1>2, FS_RemoveElement
  <1>4. c \in Waiting(d) <=> d = c[1]
    BY DEF Waiting
  <1>5. QED
    BY <1>1, <1>3, <1>4

\* ... and the rest of the accounts stays in order, if what was handed on does.
LEMMA LooksAccounts ==
    ASSUME ArrivalsInv, NEW c \in bulk, Looks(c),
           DOMAIN delivered' = Ids, \A i \in Ids : IsFiniteSet(delivered'[i])
    PROVE  Accounts'
  BY DEF ArrivalsInv, Accounts, Looks

\* The map may hold d after the step only if it did before or d was just stored.
LEMMA HeldAfterStore ==
    ASSUME TypeOK, EntriesInv, NEW c \in bulk, FirstChunk(c) \/ StoreChunk(c),
           NEW d \in Datagrams, d # c[1]
    PROVE  Held(d)' <= Held(d)
  <1> DEFINE e == c[1]
  <1>1. e \in Datagrams /\ e.id \in Ids /\ d.id \in Ids
    BY CopyOfDatagram, IdOfDatagram DEF TypeOK
  <1>2. DOMAIN chunks = Ids
    BY DEF EntriesInv
  <1>3. SUFFICES ASSUME NEW n \in DOMAIN chunks'[d.id], chunks'[d.id][n] = d
                 PROVE  \E m \in DOMAIN chunks[d.id] : chunks[d.id][m] = d
    BY DEF Held
  <1>4. CASE FirstChunk(c)
    BY <1>1, <1>2, <1>3, <1>4 DEF FirstChunk
  <1>5. CASE StoreChunk(c)
    <2>1. chunks'[d.id] = IF d.id = e.id THEN WithChunk(e) ELSE chunks[d.id]
      BY <1>1, <1>2, <1>5 DEF StoreChunk
    <2>2. QED
      BY <1>1, <1>3, <2>1 DEF WithChunk
  <1>6. QED
    BY <1>4, <1>5

\* A copy of a datagram arrives.
LEMMA ArrivalsProcess ==
    ASSUME TypeOK, ArrivalsInv, NEW e \in Datagrams, process(e)
    PROVE  Accounts' /\ \A d \in Datagrams : Budget(d)'
  <1> DEFINE new == <<e, arrivals[e] + 1>>
  <1>1. /\ arrivals[e] \in Nat
        /\ \A d \in Datagrams : arrivals[d] \in Nat
        /\ \A d \in Datagrams : arrivals'[d] = IF d = e THEN arrivals[e] + 1 ELSE arrivals[d]
        /\ chunkQueue' = chunkQueue \cup {new}
        /\ bulk' = bulk
        /\ delivered' = delivered
        /\ chunks' = chunks
    BY DEF TypeOK, process, mapVars
  <1>2. \A c \in chunkQueue \cup bulk : c[1] \in Datagrams /\ c[2] \in Nat /\ c[2] <= arrivals[c[1]]
    <2>1. \A c \in chunkQueue \cup bulk : c \in Copies
      BY DEF TypeOK
    <2>2. \A c \in chunkQueue \cup bulk : c[1] \in Datagrams /\ c[2] \in 1..MaxCopies[c[1]]
      BY <2>1, CopyOfDatagram
    <2>3. \A d \in Datagrams : MaxCopies[d] \in Nat
      BY LimitsAssumption
    <2>4. QED
      BY <2>2, <2>3 DEF ArrivalsInv
  <1>3. new \notin chunkQueue \cup bulk
    <2>1. new[1] = e /\ new[2] = arrivals[e] + 1
      OBVIOUS
    <2>2. ~(arrivals[e] + 1 <= arrivals[e])
      BY <1>1
    <2>3. QED
      BY <1>2, <2>1, <2>2, Zenon
  <1>4. Accounts'
    <2>1. \A c \in chunkQueue' \cup bulk' : c[2] <= arrivals'[c[1]]
      <3> SUFFICES ASSUME NEW c \in chunkQueue' \cup bulk' PROVE c[2] <= arrivals'[c[1]]
        OBVIOUS
      <3>1. CASE c = new
        BY <1>1, <3>1
      <3>2. CASE c \in chunkQueue \cup bulk
        BY <1>1, <1>2, <3>2
      <3>3. QED
        BY <1>1, <3>1, <3>2
    <2>2. QED
      BY <1>1, <1>3, <2>1 DEF Accounts, ArrivalsInv
  <1>5. ASSUME NEW d \in Datagrams PROVE Budget(d)'
    <2>1. Uses(d)' = Uses(d) /\ Held(d)' = Held(d)
      BY <1>1 DEF Uses, Held
    <2>2. /\ Cardinality(Uses(d)) \in Nat
          /\ Cardinality(Waiting(d)) \in Nat
          /\ Held(d) \in 0..1
      BY CountsAreNat
    <2>3. /\ IsFiniteSet(Waiting(d))
          /\ Cardinality(Uses(d)) + Held(d) + Cardinality(Waiting(d)) <= arrivals[d]
      BY DEF ArrivalsInv
    <2>4. CASE d # e
      <3>1. Waiting(d)' = Waiting(d)
        BY <1>1, <2>4 DEF Waiting
      <3>2. QED
        BY <1>1, <2>1, <2>3, <2>4, <3>1 DEF Budget
    <2>5. CASE d = e
      <3>1. Waiting(d)' = Waiting(d) \cup {new}
        BY <1>1, <2>5 DEF Waiting
      <3>2. new \notin Waiting(d)
        BY <1>3 DEF Waiting
      <3>3. /\ IsFiniteSet(Waiting(d)')
            /\ Cardinality(Waiting(d)') = Cardinality(Waiting(d)) + 1
        BY <2>3, <3>1, <3>2, FS_AddElement
      <3>4. QED
        BY <1>1, <2>1, <2>2, <2>3, <2>5, <3>3 DEF Budget
    <2>6. QED
      BY <2>4, <2>5
  <1>6. QED
    BY <1>4, <1>5

\* The thread fetches a bulk: the arrivals only change places.
LEMMA ArrivalsDequeue ==
    ASSUME TypeOK, ArrivalsInv, try_dequeue_bulk
    PROVE  Accounts' /\ \A d \in Datagrams : Budget(d)'
  <1>1. /\ chunkQueue' \cup bulk' \subseteq chunkQueue \cup bulk
        /\ chunkQueue' \cap bulk' = {}
        /\ arrivals' = arrivals
        /\ delivered' = delivered
        /\ chunks' = chunks
    BY DEF try_dequeue_bulk, mapVars
  <1>2. Accounts'
    BY <1>1 DEF Accounts, ArrivalsInv
  <1>3. ASSUME NEW d \in Datagrams PROVE Budget(d)'
    <2>1. Uses(d)' = Uses(d) /\ Held(d)' = Held(d)
      BY <1>1 DEF Uses, Held
    <2>2. Waiting(d)' \in SUBSET Waiting(d)
      BY <1>1 DEF Waiting
    <2>3. /\ IsFiniteSet(Waiting(d))
          /\ Cardinality(Uses(d)) + Held(d) + Cardinality(Waiting(d)) <= arrivals[d]
      BY DEF ArrivalsInv
    <2>4. IsFiniteSet(Waiting(d)') /\ Cardinality(Waiting(d)') <= Cardinality(Waiting(d))
      BY <2>2, <2>3, FS_Subset
    <2>5. Cardinality(Waiting(d)') \in Nat
      BY <2>4, FS_CardinalityType
    <2>6. /\ Cardinality(Uses(d)) \in Nat
          /\ Cardinality(Waiting(d)) \in Nat
          /\ Held(d) \in 0..1
      BY CountsAreNat
    <2>7. arrivals[d] \in Nat
      BY DEF TypeOK
    <2>8. QED
      BY <1>1, <2>1, <2>3, <2>4, <2>5, <2>6, <2>7 DEF Budget
  <1>4. QED
    BY <1>2, <1>3

\* A chunk is rejected or stored: its arrival is spent, or the map holds it.
LEMMA ArrivalsStore ==
    ASSUME TypeOK, EntriesInv, ArrivalsInv, NEW c \in bulk,
           RejectOutOfRange(c) \/ RejectMismatch(c) \/ FirstChunk(c) \/ StoreChunk(c)
    PROVE  Accounts' /\ \A d \in Datagrams : Budget(d)'
  <1>1. Looks(c) /\ delivered' = delivered
    BY DEF RejectOutOfRange, RejectMismatch, FirstChunk, StoreChunk
  <1>2. Accounts'
    BY <1>1, LooksAccounts DEF ArrivalsInv
  <1>3. ASSUME NEW d \in Datagrams PROVE Budget(d)'
    <2>1. Uses(d)' = Uses(d) /\ arrivals' = arrivals
      BY <1>1 DEF Uses, Looks
    <2>2. /\ IsFiniteSet(Waiting(d)')
          /\ d # c[1] => Cardinality(Waiting(d)') = Cardinality(Waiting(d))
          /\ d = c[1] => Cardinality(Waiting(d)') = Cardinality(Waiting(d)) - 1
      BY <1>1, LooksWaiting
    <2>3. Held(d)' \in 0..1
      BY DEF Held
    <2>4. d # c[1] => Held(d)' <= Held(d)
      <3>1. CASE FirstChunk(c) \/ StoreChunk(c)
        BY <3>1, HeldAfterStore
      <3>2. CASE chunks' = chunks
        BY <3>2 DEF Held
      <3>3. QED
        BY <3>1, <3>2 DEF RejectOutOfRange, RejectMismatch, mapVars
    <2>5. /\ Cardinality(Uses(d)) \in Nat
          /\ Cardinality(Waiting(d)) \in Nat
          /\ Held(d) \in 0..1
      BY CountsAreNat
    <2>6. /\ Cardinality(Uses(d)) + Held(d) + Cardinality(Waiting(d)) <= arrivals[d]
          /\ arrivals[d] \in Nat
      BY DEF ArrivalsInv, TypeOK
    <2>7. QED
      BY <2>1, <2>2, <2>3, <2>4, <2>5, <2>6 DEF Budget
  <1>4. QED
    BY <1>2, <1>3

\* A message is handed on and its entry erased: what the map held is used.
LEMMA ArrivalsHandOn ==
    ASSUME TypeOK, EntriesInv, ArrivalsInv, NEW c \in bulk, LastChunk(c)
    PROVE  Accounts' /\ \A d \in Datagrams : Budget(d)'
  <1> DEFINE e == c[1]
             msg == <<Cardinality(delivered[e.id]) + 1, WithChunk(e)>>
  <1>1. Looks(c) /\ e \in Datagrams /\ e.id \in Ids /\ Erase(e.id)
    BY CopyOfDatagram, IdOfDatagram DEF TypeOK, LastChunk
  <1>2. /\ DOMAIN delivered' = Ids
        /\ \A i \in Ids : delivered'[i] =
              IF i = e.id THEN delivered[i] \cup {msg} ELSE delivered[i]
    BY <1>1 DEF LastChunk, ArrivalsInv
  <1>3. \A i \in Ids : chunks'[i] = IF i = e.id THEN NoChunks ELSE chunks[i]
    BY <1>1, EraseEffect
  <1>4. Accounts'
    <2>1. \A i \in Ids : IsFiniteSet(delivered'[i])
      <3> SUFFICES ASSUME NEW i \in Ids PROVE IsFiniteSet(delivered'[i])
        OBVIOUS
      <3>1. IsFiniteSet(delivered[i])
        BY DEF ArrivalsInv
      <3>2. IsFiniteSet(delivered[i] \cup {msg})
        BY <3>1, FS_AddElement
      <3>3. QED
        BY <1>2, <3>1, <3>2
    <2>2. QED
      BY <1>1, <1>2, <2>1, LooksAccounts
  <1>5. ASSUME NEW d \in Datagrams PROVE Budget(d)'
    <2>0. d.id \in Ids
      BY IdOfDatagram
    <2>1. /\ IsFiniteSet(Waiting(d)')
          /\ d # c[1] => Cardinality(Waiting(d)') = Cardinality(Waiting(d))
          /\ d = c[1] => Cardinality(Waiting(d)') = Cardinality(Waiting(d)) - 1
      BY <1>1, LooksWaiting
    <2>2. /\ Cardinality(Uses(d)) \in Nat
          /\ IsFiniteSet(Uses(d))
          /\ Cardinality(Waiting(d)) \in Nat
          /\ Held(d) \in 0..1
      BY CountsAreNat
    <2>3. /\ Cardinality(Uses(d)) + Held(d) + Cardinality(Waiting(d)) <= arrivals[d]
          /\ arrivals[d] \in Nat
          /\ arrivals' = arrivals
      BY <1>1 DEF ArrivalsInv, TypeOK, Looks
    <2>4. CASE d.id # e.id
      <3>1. Uses(d)' = Uses(d) /\ Held(d)' = Held(d)
        BY <1>2, <1>3, <2>0, <2>4 DEF Uses, Held
      <3>2. QED
        BY <2>1, <2>2, <2>3, <2>4, <3>1 DEF Budget
    <2>5. CASE d.id = e.id /\ d \notin {WithChunk(e)[k] : k \in DOMAIN WithChunk(e)}
      <3>1. Uses(d)' = Uses(d) /\ Held(d)' = 0
        BY <1>2, <1>3, <2>0, <2>5 DEF Uses, Held, NoChunks
      <3>2. d # e
        BY <2>5 DEF WithChunk
      <3>3. QED
        BY <2>1, <2>2, <2>3, <3>1, <3>2 DEF Budget
    <2>6. CASE d.id = e.id /\ d \in {WithChunk(e)[k] : k \in DOMAIN WithChunk(e)}
      <3>1. Uses(d)' = Uses(d) \cup {msg} /\ Held(d)' = 0
        BY <1>2, <1>3, <2>0, <2>6 DEF Uses, Held, NoChunks
      <3>2. /\ Cardinality(Uses(d)') \in Nat
            /\ Cardinality(Uses(d)') <= Cardinality(Uses(d)) + 1
        <4> DEFINE U == Uses(d)
        <4>1. IsFiniteSet(U)
          BY <2>2
        <4> HIDE DEF U, msg
        <4>2. Cardinality(U \cup {msg}) = IF msg \in U THEN Cardinality(U) ELSE Cardinality(U) + 1
          BY <4>1, FS_AddElement
        <4>3. QED
          BY <2>2, <3>1, <4>2 DEF U
      <3>3. d # e => Held(d) = 1
        BY <2>6 DEF WithChunk, Held
      <3>4. QED
        BY <2>1, <2>2, <2>3, <3>1, <3>2, <3>3 DEF Budget
    <2>7. QED
      BY <2>4, <2>5, <2>6
  <1>6. QED
    BY <1>4, <1>5

\* The sweep only gives up what the map held.
LEMMA ArrivalsSweep ==
    ASSUME TypeOK, EntriesInv, ArrivalsInv, Sweep
    PROVE  Accounts' /\ \A d \in Datagrams : Budget(d)'
  <1>1. /\ \A i \in Ids : chunks'[i] = NoChunks \/ chunks'[i] = chunks[i]
        /\ UNCHANGED <<arrivals, chunkQueue, bulk, delivered>>
    BY DEF Sweep
  <1>2. Accounts'
    BY <1>1 DEF Accounts, ArrivalsInv
  <1>3. ASSUME NEW d \in Datagrams PROVE Budget(d)'
    <2>1. Uses(d)' = Uses(d) /\ Waiting(d)' = Waiting(d)
      BY <1>1 DEF Uses, Waiting
    <2>2. Held(d)' \in 0..1 /\ Held(d)' <= Held(d)
      BY <1>1, IdOfDatagram DEF Held, NoChunks
    <2>3. /\ Cardinality(Uses(d)) \in Nat
          /\ Cardinality(Waiting(d)) \in Nat
          /\ Held(d) \in 0..1
      BY CountsAreNat
    <2>4. /\ IsFiniteSet(Waiting(d))
          /\ Cardinality(Uses(d)) + Held(d) + Cardinality(Waiting(d)) <= arrivals[d]
          /\ arrivals[d] \in Nat
          /\ arrivals' = arrivals
      BY <1>1 DEF ArrivalsInv, TypeOK
    <2>5. QED
      BY <2>1, <2>2, <2>3, <2>4 DEF Budget
  <1>4. QED
    BY <1>2, <1>3

\* Every step keeps the accounts.
LEMMA ArrivalsStep == TypeOK /\ EntriesInv /\ ArrivalsInv /\ [Next]_vars => ArrivalsInv'
  <1> SUFFICES ASSUME TypeOK, EntriesInv, ArrivalsInv, [Next]_vars PROVE ArrivalsInv'
    OBVIOUS
  <1> SUFFICES Accounts' /\ \A d \in Datagrams : Budget(d)'
    BY DEF ArrivalsInv, Accounts, Budget
  <1>1. CASE UNCHANGED <<arrivals, chunkQueue, bulk, chunks, delivered>>
    <2>1. \A d \in Datagrams :
             Uses(d)' = Uses(d) /\ Held(d)' = Held(d) /\ Waiting(d)' = Waiting(d)
      BY <1>1 DEF Uses, Held, Waiting
    <2>2. QED
      BY <1>1, <2>1 DEF ArrivalsInv, Accounts, Budget
  <1>2. ASSUME NEW d \in Datagrams, process(d)
        PROVE  Accounts' /\ \A e \in Datagrams : Budget(e)'
    BY <1>2, ArrivalsProcess
  <1>3. CASE try_dequeue_bulk
    BY <1>3, ArrivalsDequeue
  <1>4. ASSUME NEW c \in bulk,
               RejectOutOfRange(c) \/ RejectMismatch(c) \/ FirstChunk(c) \/ StoreChunk(c)
        PROVE  Accounts' /\ \A d \in Datagrams : Budget(d)'
    BY <1>4, ArrivalsStore
  <1>5. ASSUME NEW c \in bulk, LastChunk(c)
        PROVE  Accounts' /\ \A d \in Datagrams : Budget(d)'
    BY <1>5, ArrivalsHandOn
  <1>6. CASE Sweep
    BY <1>6, ArrivalsSweep
  <1>7. CASE Exit \/ Stop \/ StopIo \/ Tick \/ UNCHANGED vars
    BY <1>1, <1>7 DEF Exit, Stop, StopIo, Tick, vars, mapVars
  <1>8. QED
    BY <1>2, <1>3, <1>4, <1>5, <1>6, <1>7 DEF Next, ChunkThread

-----------------------------------------------------------------------------
(* The theorems *)

\* The inductive invariant holds in every reachable state.
LEMMA Inductive == Spec => []IInv
  <1>1. IInv /\ [Next]_vars => IInv'
    BY TypeStep, EntriesStep, ArrivalsStep, IntactStep DEF IInv
  <1>2. QED
    BY <1>1, InitIInv, PTL DEF Spec

\* The variables of the chunk thread keep their types; in particular an entry never
\* claims more than 128 chunks and a chunk number is never one of the sign-extended
\* ones (GelfInput.cpp:71).
THEOREM TypeCorrect == Spec => []TypeOK
  <1>1. IInv => TypeOK
    BY DEF IInv
  <1>2. QED
    BY <1>1, Inductive, PTL

\* Whatever the network loses, reorders and duplicates, and whatever senders write
\* into the headers, what GelfInput.cpp:94 hands to the input queue is a whole
\* message: the chunks of one id and one count, each at its own place.
THEOREM Intact == Spec => []ReassembledIntact
  <1>1. IInv => ReassembledIntact
    BY DEF IInv
  <1>2. QED
    BY <1>1, Inductive, PTL

\* Each message handed on uses up an arrival of each of its chunks, since the
\* entry is erased with it (GelfInput.cpp:117).
THEOREM UsedOnce == Spec => []NoChunkUsedTwice
  <1>1. IInv => NoChunkUsedTwice
    <2> SUFFICES ASSUME IInv, NEW d \in Datagrams PROVE Cardinality(Uses(d)) <= arrivals[d]
      BY DEF NoChunkUsedTwice, Uses
    <2>1. /\ Cardinality(Uses(d)) \in Nat
          /\ Cardinality(Waiting(d)) \in Nat
          /\ Held(d) \in 0..1
      BY CountsAreNat DEF IInv
    <2>2. /\ Cardinality(Uses(d)) + Held(d) + Cardinality(Waiting(d)) <= arrivals[d]
          /\ arrivals[d] \in Nat
      BY DEF IInv, ArrivalsInv, TypeOK
    <2>3. QED
      BY <2>1, <2>2
  <1>2. QED
    BY <1>1, Inductive, PTL

\* An entry with all of its chunks is not in the map, except that of a message of
\* one chunk, which GelfInput.cpp:119 makes and never completes.
THEOREM LeavesWhenComplete == Spec => []CompleteLeaves
  <1>1. IInv => CompleteLeaves
    BY DEF IInv
  <1>2. QED
    BY <1>1, Inductive, PTL
=============================================================================
