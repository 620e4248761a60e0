------------------------- MODULE MessageQueue_proofs -------------------------
(***************************************************************************)
(* Theorems about MessageQueue for any finite set of producers, any sizes  *)
(* and any strategy.  The inductive invariant has three parts beside the   *)
(* types: what a producer's program counter says about its batch           *)
(* (CallsInv), the room reserved by producers that passed the size check   *)
(* (RoomInv), and the fate of every offered message (FatesInv).            *)
(***************************************************************************)
EXTENDS MessageQueue, FiniteSetTheorems, TLAPS

\* A producer holds a batch exactly while it is inside a call.
CallsInv ==
    \A p \in Producers :
        /\ (pc[p] = "idle") => (count[p] = 0)
        /\ offered[p] + count[p] <= OfferBound
        /\ (pc[p] = "throttle") => (strategy = "THROTTLE")

\* The producers between the size check and the insertion.
Passed == {p \in Producers : pc[p] = "insert"}

\* Each of them has a whole batch reserved under the soft limit.
RoomInv == Cardinality(queue) + Cardinality(Passed) * BulkMax <= SoftCap

\* A message of a finished call is in exactly one place.
FatesInv ==
    /\ queue \cup taken \cup refused = Finished
    /\ queue \cap taken = {}
    /\ queue \cap refused = {}
    /\ taken \cap refused = {}

IInv == TypeOK /\ CallsInv /\ RoomInv /\ FatesInv /\ LossAccounting

-----------------------------------------------------------------------------
(* Arithmetic and cardinalities *)

\* One more holder of a batch costs one more batch (arithmetic of RoomInv).
LEMMA ReserveMonotone ==
    ASSUME NEW a \in Nat, NEW b \in Nat, a <= b
    PROVE  /\ a * BulkMax <= b * BulkMax
           /\ a * BulkMax \in Nat
           /\ b * BulkMax \in Nat
  BY SizeAssumption, Z3

\* Giving back one reserved batch (arithmetic of insert in MessageQueue.h:75).
LEMMA ReserveOneLess ==
    ASSUME NEW a \in Nat \ {0}
    PROVE  (a - 1) * BulkMax = a * BulkMax - BulkMax
  BY SizeAssumption, Z3

\* The messages are finitely many.
LEMMA ItemsFinite == IsFiniteSet(Items)
  <1>1. IsFiniteSet(1..OfferBound)
    BY FS_Interval, SizeAssumption
  <1>2. QED
    BY <1>1, FS_Product, ProducersAssumption DEF Items

\* A batch of k messages has k members, all of them new (MessageQueue.h:57).
LEMMA BatchSize ==
    ASSUME TypeOK, FatesInv, NEW p \in Producers, NEW k \in Nat,
           offered[p] + k <= OfferBound
    PROVE  /\ IsFiniteSet(Batch(p, k))
           /\ Cardinality(Batch(p, k)) = k
           /\ Batch(p, k) \subseteq Items
           /\ Batch(p, k) \cap (queue \cup taken \cup refused) = {}
  <1> DEFINE D == (offered[p] + 1)..(offered[p] + k)
             f == [i \in D |-> <<p, i>>]
  <1>1. offered[p] \in Nat
    BY DEF TypeOK
  <1>2. IsFiniteSet(D) /\ Cardinality(D) = k
    <2>1. offered[p] + 1 \in Int /\ offered[p] + k \in Int
      BY <1>1
    <2>2. /\ IsFiniteSet(D)
          /\ Cardinality(D) = IF offered[p] + 1 > offered[p] + k THEN 0
                              ELSE (offered[p] + k) - (offered[p] + 1) + 1
      BY <2>1, FS_Interval, Zenon
    <2>3. QED
      BY <1>1, <2>2
  <1>3. f \in Bijection(D, Batch(p, k))
    BY DEF Bijection, Injection, Surjection, IsInjective, Batch
  <1>4. ExistsBijection(D, Batch(p, k))
    BY <1>3 DEF ExistsBijection
  <1>5. IsFiniteSet(Batch(p, k)) /\ Cardinality(Batch(p, k)) = k
    BY <1>2, <1>4, FS_Bijection
  <1>6. Batch(p, k) \subseteq Items
    BY <1>1, SizeAssumption DEF Batch, Items
  <1>7. Batch(p, k) \cap Finished = {}
    BY <1>1 DEF Batch, Finished, Items
  <1>8. QED
    BY <1>5, <1>6, <1>7 DEF FatesInv

\* The places are finite and have natural cardinalities.
LEMMA PlacesFinite ==
    ASSUME TypeOK
    PROVE  /\ IsFiniteSet(queue) /\ Cardinality(queue) \in Nat
           /\ IsFiniteSet(refused) /\ Cardinality(refused) \in Nat
           /\ IsFiniteSet(Passed) /\ Cardinality(Passed) \in Nat
           /\ Cardinality(Passed) <= Cardinality(Producers)
           /\ Cardinality(Producers) \in Nat
  <1>1. queue \in SUBSET Items /\ refused \in SUBSET Items
    BY DEF TypeOK
  <1>2. IsFiniteSet(queue) /\ IsFiniteSet(refused)
    BY <1>1, ItemsFinite, FS_Subset
  <1>3. Passed \in SUBSET Producers
    BY DEF Passed
  <1>4. IsFiniteSet(Passed) /\ Cardinality(Passed) <= Cardinality(Producers)
    BY <1>3, ProducersAssumption, FS_Subset
  <1>5. QED
    BY <1>2, <1>4, ProducersAssumption, FS_CardinalityType

\* Disjoint finite sets add up.
LEMMA DisjointUnion ==
    ASSUME NEW S, NEW T, IsFiniteSet(S), IsFiniteSet(T), S \cap T = {}
    PROVE  /\ IsFiniteSet(S \cup T)
           /\ Cardinality(S \cup T) = Cardinality(S) + Cardinality(T)
  <1>1. Cardinality(S) \in Nat /\ Cardinality(T) \in Nat
    BY FS_CardinalityType
  <1>2. Cardinality(S \cap T) = 0
    BY FS_EmptySet
  <1>3. /\ IsFiniteSet(S \cup T)
        /\ Cardinality(S \cup T) =
              Cardinality(S) + Cardinality(T) - Cardinality(S \cap T)
    BY FS_Union
  <1>4. QED
    BY <1>1, <1>2, <1>3

-----------------------------------------------------------------------------
(* The inductive invariant *)

\* An empty queue with no caller (the constructor, MessageQueue.h:44-54)
\* satisfies the inductive invariant.
LEMMA InitIInv == Init => IInv
  <1> SUFFICES ASSUME Init PROVE IInv
    OBVIOUS
  <1>1. TypeOK
    BY SizeAssumption DEF Init, TypeOK, Items
  <1>2. CallsInv
    BY SizeAssumption DEF Init, CallsInv
  <1>3. RoomInv
    <2>1. Passed = {}
      BY DEF Init, Passed
    <2>2. Cardinality(queue) = 0 /\ Cardinality(Passed) = 0
      BY <2>1, FS_EmptySet DEF Init
    <2>3. Cardinality(Producers) \in Nat
      BY ProducersAssumption, FS_CardinalityType
    <2>4. Cardinality(Producers) * BulkMax \in Nat
      BY <2>3, ReserveMonotone
    <2> QED
      BY <2>2, <2>4, SizeAssumption DEF RoomInv, SoftCap
  <1>4. FatesInv
    BY DEF Init, FatesInv, Finished, Items
  <1>5. LossAccounting
    <2>1. Cardinality(refused) = 0
      BY FS_EmptySet DEF Init
    <2> QED
      BY <2>1 DEF Init, LossAccounting
  <1> QED
    BY <1>1, <1>2, <1>3, <1>4, <1>5 DEF IInv

\* Types and calls survive every step of a producer and every dequeue.
LEMMA NextType == TypeOK /\ CallsInv /\ [Next]_vars => TypeOK' /\ CallsInv'
  <1> SUFFICES ASSUME TypeOK, CallsInv, [Next]_vars
               PROVE  TypeOK' /\ CallsInv'
    OBVIOUS
  <1> USE SizeAssumption
  <1>0. ASSUME NEW p \in Producers, NEW k \in Nat, offered[p] + k <= OfferBound
        PROVE  Batch(p, k) \subseteq Items
    BY <1>0 DEF Batch, Items, TypeOK
  <1>1. ASSUME NEW p \in Producers, NEW k \in 1..BulkMax, enqueue_bulk_admit(p, k)
        PROVE  TypeOK' /\ CallsInv'
    BY <1>1 DEF enqueue_bulk_admit, Calls, TypeOK, CallsInv
  <1>2. ASSUME NEW p \in Producers, NEW k \in 1..BulkMax, enqueue_bulk_drop(p, k)
        PROVE  TypeOK' /\ CallsInv'
    BY <1>2, <1>0 DEF enqueue_bulk_drop, Calls, ReturnsFalse, TypeOK, CallsInv
  <1>3. ASSUME NEW p \in Producers, NEW k \in 1..BulkMax, enqueue_bulk_throttle(p, k)
        PROVE  TypeOK' /\ CallsInv'
    BY <1>3 DEF enqueue_bulk_throttle, Calls, TypeOK, CallsInv
  <1>4. ASSUME NEW p \in Producers, NEW k \in 1..BulkMax, enqueue_bulk_undefined(p, k)
        PROVE  TypeOK' /\ CallsInv'
    BY <1>4, <1>0 DEF enqueue_bulk_undefined, Calls, ReturnsFalse, TypeOK, CallsInv
  <1>5. ASSUME NEW p \in Producers, throttle_poll(p)
        PROVE  TypeOK' /\ CallsInv'
    BY <1>5 DEF throttle_poll, TypeOK, CallsInv
  <1>6. ASSUME NEW p \in Producers, insert(p)
        PROVE  TypeOK' /\ CallsInv'
    <2>1. Batch(p, count[p]) \subseteq Items
      BY <1>0 DEF TypeOK, CallsInv
    <2> QED
      BY <1>6, <2>1 DEF insert, TypeOK, CallsInv
  <1>7. ASSUME try_dequeue_bulk
        PROVE  TypeOK' /\ CallsInv'
    BY <1>7 DEF try_dequeue_bulk, Dequeuable, TypeOK, CallsInv
  <1>8. CASE UNCHANGED vars
    BY <1>8 DEF vars, TypeOK, CallsInv
  <1> QED
    BY <1>1, <1>2, <1>3, <1>4, <1>5, <1>6, <1>7, <1>8 DEF Next, Producer

\* Finishing a call of k messages finishes exactly its batch.
LEMMA FinishedGrows ==
    ASSUME TypeOK, FatesInv, NEW p \in Producers, NEW k \in Nat,
           offered[p] + k <= OfferBound,
           offered' = [offered EXCEPT ![p] = @ + k]
    PROVE  Finished' = Finished \cup Batch(p, k)
  <1> USE SizeAssumption
  <1>1. offered \in [Producers -> 0..OfferBound]
    BY DEF TypeOK
  <1>2. ASSUME NEW m \in Items
        PROVE  m \in Finished' <=> m \in Finished \cup Batch(p, k)
    <2>1. PICK q \in Producers, i \in 1..OfferBound : m = <<q, i>>
      BY DEF Items
    <2>2. CASE q = p
      <3>1. m \in Finished' <=> i <= offered[p] + k
        BY <1>1, <2>1, <2>2 DEF Finished, Items
      <3>2. m \in Finished <=> i <= offered[p]
        BY <1>1, <2>1, <2>2 DEF Finished, Items
      <3>3. m \in Batch(p, k) <=> i \in (offered[p] + 1)..(offered[p] + k)
        BY <2>1, <2>2 DEF Batch
      <3> QED
        BY <3>1, <3>2, <3>3, <1>1
    <2>3. CASE q # p
      <3>1. m \notin Batch(p, k)
        BY <2>1, <2>3 DEF Batch
      <3>2. m \in Finished' <=> m \in Finished
        BY <1>1, <2>1, <2>3 DEF Finished, Items
      <3> QED
        BY <3>1, <3>2
    <2> QED
      BY <2>2, <2>3
  <1>3. Batch(p, k) \subseteq Items
    BY BatchSize
  <1>4. Finished \subseteq Items /\ Finished' \subseteq Items
    BY DEF Finished, Items
  <1> QED
    BY <1>2, <1>3, <1>4

\* Every offered message keeps exactly one place.
LEMMA NextFates == IInv /\ [Next]_vars => FatesInv'
  <1> SUFFICES ASSUME IInv, [Next]_vars
               PROVE  FatesInv'
    OBVIOUS
  <1> USE SizeAssumption DEF IInv
  <1>1. ASSUME NEW p \in Producers, NEW k \in 1..BulkMax, Calls(p, k),
               ReturnsFalse(p, k), UNCHANGED <<queue, taken>>
        PROVE  FatesInv'
    <2>1. k \in Nat /\ offered[p] + k <= OfferBound
      BY <1>1 DEF Calls
    <2>2. Finished' = Finished \cup Batch(p, k)
      BY FinishedGrows, <1>1, <2>1 DEF ReturnsFalse
    <2>3. Batch(p, k) \cap (queue \cup taken \cup refused) = {}
      BY <2>1, BatchSize
    <2> QED
      BY <1>1, <2>2, <2>3 DEF FatesInv, ReturnsFalse
  <1>2. ASSUME NEW p \in Producers, insert(p)
        PROVE  FatesInv'
    <2>1. count[p] \in Nat /\ offered[p] + count[p] <= OfferBound
      BY DEF CallsInv, TypeOK
    <2>2. Finished' = Finished \cup Batch(p, count[p])
      BY FinishedGrows, <1>2, <2>1 DEF insert
    <2>3. Batch(p, count[p]) \cap (queue \cup taken \cup refused) = {}
      BY <2>1, BatchSize
    <2> QED
      BY <1>2, <2>2, <2>3 DEF FatesInv, insert
  <1>3. ASSUME try_dequeue_bulk
        PROVE  FatesInv'
    <2>1. PICK S \in SUBSET queue :
              /\ queue' = queue \ S
              /\ taken' = taken \cup S
              /\ UNCHANGED <<offered, refused>>
      BY <1>3 DEF try_dequeue_bulk, Dequeuable
    <2>2. Finished' = Finished
      BY <2>1 DEF Finished, Items
    <2> QED
      BY <2>1, <2>2 DEF FatesInv
  <1>4. ASSUME UNCHANGED <<queue, offered, refused, taken>>
        PROVE  FatesInv'
    BY <1>4 DEF FatesInv, Finished, Items
  <1> QED
    BY <1>1, <1>2, <1>3, <1>4
       DEF Next, Producer, vars, enqueue_bulk_admit, enqueue_bulk_drop,
           enqueue_bulk_throttle, enqueue_bulk_undefined, throttle_poll

\* A producer that passes the check reserves its batch; the insertion uses it.
LEMMA NextRoom == IInv /\ [Next]_vars => RoomInv'
  <1> SUFFICES ASSUME IInv, [Next]_vars
               PROVE  RoomInv'
    OBVIOUS
  <1> USE SizeAssumption DEF IInv
  <1> DEFINE q == Cardinality(queue)
             n == Cardinality(Passed)
             N == Cardinality(Producers)
  <1>0. /\ q \in Nat /\ n \in Nat /\ N \in Nat /\ n <= N
        /\ IsFiniteSet(queue) /\ IsFiniteSet(Passed)
        /\ n * BulkMax \in Nat /\ N * BulkMax \in Nat
    BY PlacesFinite, ReserveMonotone
  <1>1. /\ TypeOK' /\ CallsInv'
        /\ Cardinality(Passed') \in Nat
        /\ Cardinality(Passed') <= N
        /\ Cardinality(Passed') * BulkMax <= N * BulkMax
        /\ Cardinality(Passed') * BulkMax \in Nat
    <2>1. TypeOK' /\ CallsInv'
      BY NextType
    <2>2. Passed' \in SUBSET Producers
      BY DEF Passed
    <2>3. IsFiniteSet(Passed') /\ Cardinality(Passed') <= N
      BY <2>2, ProducersAssumption, FS_Subset
    <2>4. Cardinality(Passed') \in Nat
      BY <2>3, FS_CardinalityType
    <2> QED
      BY <1>0, <2>1, <2>3, <2>4, ReserveMonotone
  <1>2. ASSUME SeesRoom, queue' = queue
        PROVE  RoomInv'
    <2>1. q <= MaxQueueSize - 1 + Skew
      BY <1>0, <1>2 DEF SeesRoom, size_approx
    <2> QED
      BY <1>0, <1>1, <1>2, <2>1 DEF RoomInv, SoftCap
  <1>3. ASSUME NEW p \in Producers, insert(p)
        PROVE  RoomInv'
    <2>1. count[p] \in Nat /\ count[p] <= BulkMax /\ offered[p] + count[p] <= OfferBound
      BY DEF CallsInv, TypeOK
    <2>2. /\ IsFiniteSet(Batch(p, count[p]))
          /\ Cardinality(Batch(p, count[p])) = count[p]
          /\ Batch(p, count[p]) \cap queue = {}
      BY <2>1, BatchSize
    <2>3. Cardinality(queue') = q + count[p]
      BY <1>0, <1>3, <2>2, DisjointUnion DEF insert
    <2>4. Passed' = Passed \ {p} /\ p \in Passed
      BY <1>3 DEF insert, Passed, TypeOK
    <2>5. Cardinality(Passed') = n - 1
      BY <1>0, <2>4, FS_RemoveElement
    <2>6. n \in Nat \ {0}
      BY <1>0, <1>1, <2>5
    <2>7. Cardinality(Passed') * BulkMax = n * BulkMax - BulkMax
      BY <2>5, <2>6, ReserveOneLess
    <2>8. q + n * BulkMax <= SoftCap
      BY DEF RoomInv
    <2> HIDE DEF q, n, N
    <2>9. q + count[p] + (n * BulkMax - BulkMax) <= q + n * BulkMax
      BY <1>0, <2>1
    <2>10. SoftCap \in Int /\ SoftCap' = SoftCap
      BY <1>0 DEF SoftCap, N
    <2> QED
      BY <1>0, <2>1, <2>3, <2>7, <2>8, <2>9, <2>10 DEF RoomInv
  <1>4. ASSUME queue' \in SUBSET queue, Passed' = Passed
        PROVE  RoomInv'
    <2>1. Cardinality(queue') <= q
      BY <1>0, <1>4, FS_Subset
    <2>2. Cardinality(queue') \in Nat
      BY <1>0, <1>4, FS_Subset, FS_CardinalityType
    <2>3. SoftCap \in Int /\ SoftCap' = SoftCap
      BY <1>0 DEF SoftCap
    <2>4. q + n * BulkMax <= SoftCap
      BY DEF RoomInv
    <2> QED
      BY <1>0, <1>4, <2>1, <2>2, <2>3, <2>4 DEF RoomInv
  <1>5. ASSUME NEW p \in Producers, NEW k \in 1..BulkMax, enqueue_bulk_throttle(p, k)
        PROVE  RoomInv'
    <2>1. Passed' = Passed
      BY <1>5 DEF enqueue_bulk_throttle, Calls, Passed, TypeOK
    <2> QED
      BY <1>4, <1>5, <2>1 DEF enqueue_bulk_throttle
  <1>6. ASSUME UNCHANGED <<queue, pc>>
        PROVE  RoomInv'
    BY <1>4, <1>6 DEF Passed
  <1>7. ASSUME try_dequeue_bulk
        PROVE  RoomInv'
    <2>1. queue' \in SUBSET queue /\ Passed' = Passed
      BY <1>7 DEF try_dequeue_bulk, Dequeuable, Passed
    <2> QED
      BY <1>4, <2>1
  <1> QED
    BY <1>2, <1>3, <1>5, <1>6, <1>7
       DEF Next, Producer, vars, enqueue_bulk_admit, enqueue_bulk_drop,
           enqueue_bulk_undefined, throttle_poll

\* The drop counter grows with the refused messages.
LEMMA NextLoss == IInv /\ [Next]_vars => LossAccounting'
  <1> SUFFICES ASSUME IInv, [Next]_vars
               PROVE  LossAccounting'
    OBVIOUS
  <1> USE SizeAssumption DEF IInv
  <1>1. ASSUME NEW p \in Producers, NEW k \in 1..BulkMax, enqueue_bulk_drop(p, k)
        PROVE  LossAccounting'
    <2>1. k \in Nat /\ offered[p] + k <= OfferBound
      BY <1>1 DEF enqueue_bulk_drop, Calls
    <2>2. /\ IsFiniteSet(Batch(p, k))
          /\ Cardinality(Batch(p, k)) = k
          /\ refused \cap Batch(p, k) = {}
      BY <2>1, BatchSize
    <2>3. IsFiniteSet(refused)
      BY PlacesFinite
    <2>4. Cardinality(refused') = Cardinality(refused) + k
      BY <1>1, <2>2, <2>3, DisjointUnion DEF enqueue_bulk_drop, ReturnsFalse
    <2> QED
      BY <1>1, <2>4 DEF enqueue_bulk_drop, LossAccounting
  <1>2. ASSUME NEW p \in Producers, NEW k \in 1..BulkMax, enqueue_bulk_undefined(p, k)
        PROVE  LossAccounting'
    BY <1>2 DEF enqueue_bulk_undefined, LossAccounting
  <1>3. ASSUME UNCHANGED <<strategy, dropped, refused>>
        PROVE  LossAccounting'
    BY <1>3 DEF LossAccounting
  <1> QED
    BY <1>1, <1>2, <1>3
       DEF Next, Producer, vars, enqueue_bulk_admit, enqueue_bulk_throttle,
           throttle_poll, insert, try_dequeue_bulk

\* No step of a producer or a consumer disturbs the inductive invariant.
LEMMA NextIInv == IInv /\ [Next]_vars => IInv'
  BY NextType, NextFates, NextRoom, NextLoss DEF IInv

\* So it holds throughout every run of the queue.
LEMMA Invariance == Spec => []IInv
  BY InitIInv, NextIInv, PTL DEF Spec

-----------------------------------------------------------------------------
(* Theorems *)

\* The variables keep their types; in particular a producer's batch and its
\* position in enqueue_bulk never get out of range.
THEOREM TypeCorrect == Spec => []TypeOK
  BY Invariance, PTL DEF IInv

\* The check-then-insert race of MessageQueue.h:58/75 costs at most one batch
\* per producer, for any number of producers and any batch size.
THEOREM Overshoot == Spec => []OvershootBound
  <1>1. IInv => OvershootBound
    <2> SUFFICES ASSUME IInv PROVE OvershootBound
      OBVIOUS
    <2>1. /\ Cardinality(queue) \in Nat
          /\ Cardinality(Passed) \in Nat
          /\ Cardinality(Producers) \in Nat
      BY PlacesFinite DEF IInv
    <2>2. /\ Cardinality(Passed) * BulkMax \in Nat
          /\ Cardinality(Producers) * BulkMax \in Nat
      BY <2>1, ReserveMonotone
    <2> QED
      BY <2>1, <2>2, SizeAssumption DEF IInv, RoomInv, OvershootBound, SoftCap
  <1> QED
    BY <1>1, Invariance, PTL

\* m_dropped counts the messages lost under DROP and nothing is lost under
\* THROTTLE (MessageQueue.h:59-68).
THEOREM LossesCounted == Spec => []LossAccounting
  BY Invariance, PTL DEF IInv

\* The queue implements the bounded buffer of the soft limit: each step of a
\* producer or a consumer is a Put, a Refuse, a Take or no step at all.
THEOREM Refinement == Spec => ImplementsBoundedBuffer
  <1>1. Init => BB!Init
    BY DEF Init, BB!Init, Finished, Items
  <1>2. IInv /\ IInv' /\ [Next]_vars => [BB!Next]_(BB!vars)
    <2> SUFFICES ASSUME IInv, IInv', [Next]_vars
                 PROVE  [BB!Next]_(BB!vars)
      OBVIOUS
    <2> USE SizeAssumption DEF IInv
    <2>0. ASSUME NEW p \in Producers, NEW k \in Nat \ {0},
                 offered[p] + k <= OfferBound
          PROVE  Batch(p, k) \in SUBSET (Items \ Finished) /\ Batch(p, k) # {}
      <3>1. Batch(p, k) \subseteq Items
        BY <2>0, BatchSize
      <3>2. Batch(p, k) \cap (queue \cup taken \cup refused) = {}
        BY <2>0, BatchSize
      <3>3. offered[p] \in Nat
        BY DEF TypeOK
      <3>4. <<p, offered[p] + 1>> \in Batch(p, k)
        BY <2>0, <3>3 DEF Batch
      <3> QED
        BY <3>1, <3>2, <3>4 DEF FatesInv
    <2>1. ASSUME NEW p \in Producers, NEW k \in 1..BulkMax,
                 Calls(p, k), ReturnsFalse(p, k), strategy # "THROTTLE",
                 UNCHANGED <<strategy, queue, taken>>
          PROVE  BB!Refuse
      <3>1. k \in Nat \ {0} /\ offered[p] + k <= OfferBound
        BY <2>1 DEF Calls
      <3>2. Finished' = Finished \cup Batch(p, k)
        BY <2>1, <3>1, FinishedGrows DEF ReturnsFalse
      <3> QED
        BY <2>0, <2>1, <3>1, <3>2 DEF ReturnsFalse, BB!Refuse
    <2>2. ASSUME NEW p \in Producers, insert(p)
          PROVE  BB!Next \/ UNCHANGED BB!vars
      <3>1. count[p] \in Nat /\ offered[p] + count[p] <= OfferBound
        BY DEF TypeOK, CallsInv
      <3>2. Finished' = Finished \cup Batch(p, count[p])
        BY <2>2, <3>1, FinishedGrows DEF insert
      <3>3. CASE count[p] = 0
        <4>1. Batch(p, count[p]) = {}
          BY <3>3 DEF Batch, TypeOK
        <4> QED
          BY <2>2, <3>2, <4>1 DEF insert, BB!vars
      <3>4. CASE count[p] # 0
        <4>1. Batch(p, count[p]) \in SUBSET (Items \ Finished) /\ Batch(p, count[p]) # {}
          BY <2>0, <3>1, <3>4
        <4>2. Cardinality(queue') <= SoftCap
          <5>1. /\ Cardinality(queue') \in Nat
                /\ Cardinality(Passed') \in Nat
                /\ Cardinality(Passed') <= Cardinality(Producers)
            <6>1. queue' \in SUBSET Items /\ Passed' \in SUBSET Producers
              BY DEF TypeOK, Passed
            <6>2. /\ IsFiniteSet(queue') /\ IsFiniteSet(Passed')
                  /\ Cardinality(Passed') <= Cardinality(Producers)
              BY <6>1, ItemsFinite, ProducersAssumption, FS_Subset
            <6> QED
              BY <6>2, FS_CardinalityType
          <5>2. Cardinality(Producers) \in Nat
            BY ProducersAssumption, FS_CardinalityType
          <5>3. /\ Cardinality(Passed') * BulkMax \in Nat
                /\ Cardinality(Producers) * BulkMax \in Nat
            BY <5>1, <5>2, ReserveMonotone
          <5> QED
            BY <5>1, <5>2, <5>3 DEF RoomInv, SoftCap
        <4>3. BB!Cardinality(queue') = Cardinality(queue')
          BY DEF BB!Cardinality, Cardinality
        <4>4. BB!Put
          BY <2>2, <3>2, <4>1, <4>2, <4>3 DEF insert, BB!Put
        <4> QED
          BY <4>4 DEF BB!Next
      <3> QED
        BY <3>3, <3>4
    <2>3. ASSUME try_dequeue_bulk
          PROVE  BB!Take
      BY <2>3 DEF try_dequeue_bulk, Dequeuable, BB!Take, Finished, Items
    <2>4. ASSUME UNCHANGED <<strategy, offered, queue, taken, refused>>
          PROVE  UNCHANGED BB!vars
      BY <2>4 DEF BB!vars, Finished, Items
    <2> QED
      BY <2>1, <2>2, <2>3, <2>4
         DEF Next, Producer, vars, BB!Next, enqueue_bulk_admit,
             enqueue_bulk_drop, enqueue_bulk_throttle, enqueue_bulk_undefined,
             throttle_poll
  <1> QED
    BY <1>1, <1>2, Invariance, PTL DEF Spec, ImplementsBoundedBuffer, BB!Spec
=============================================================================
