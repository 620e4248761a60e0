---------------------------- MODULE Inputs_proofs ----------------------------
(***************************************************************************)
(* Theorems about the TCP, UDP and journal inputs for any number of        *)
(* threads and connections, any streams and datagrams and a journal of any *)
(* length.                                                                 *)
(*                                                                         *)
(* That the records of a connection are the frames of its stream, in       *)
(* order, needs FramesInv: they are as many as the delimiters consumed,    *)
(* and one more while a handler is in enqueue.  That a UDP input reorders  *)
(* and loses nothing it received needs UdpInv: at any moment a datagram is *)
(* the older the further it has come.                                      *)
(*                                                                         *)
(* That a TCP input loses at most one thread per reset connection needs    *)
(* BusyInv: the strand keeps a connection from being handled twice at a    *)
(* time, so a handler that returns never revives a connection that is      *)
(* lost.  That the reader of the journal leaves nothing unread needs       *)
(* ReaderInv: whatever it has not read yet is announced by a change it has *)
(* not been asked about.                                                   *)
(***************************************************************************)
EXTENDS Inputs, FiniteSetTheorems, WellFoundedInduction, TLAPS

BusyInv ==
    /\ alive \subseteq Threads
    /\ DOMAIN peer = Conns /\ DOMAIN conn = Conns
    /\ busy \in [Threads -> Conns \cup {Nobody}]
    /\ \A t \in Threads : busy[t] # Nobody => conn[busy[t]] = "handling"
    /\ \A t, u \in Threads : busy[t] = busy[u] /\ busy[t] # Nobody => t = u

\* The connections whose reset has cost the program a session, or a session and a thread.
LostToReset == {c \in Conns : peer[c] = "reset" /\ conn[c] = "lost"}

TcpInv == BusyInv /\ ThreadsLostToResets

ReaderInv ==
    /\ entries \in Nat /\ cursor \in Nat /\ first \in Nat
    /\ cursor <= entries
    /\ reader \in ReaderStates
    /\ reader \in {"tail", "previous"} => journalOffered = << >>
    /\ reader = "previous" => cursor = entries \/ "append" \in changes
    /\ reader \in {"waiting", "reading"} => first <= cursor
    /\ reader = "waiting" /\ answer \notin {"INVALIDATE", "error"} =>
          cursor = entries \/ "append" \in changes

JournalInv == ReaderInv /\ EntriesInOrder

-----------------------------------------------------------------------------
(* The TCP input *)

\* Every connection is handled by one thread at a time.
LEMMA BusyStep == BusyInv /\ [Next]_vars => BusyInv'
  <1> SUFFICES ASSUME BusyInv, [Next]_vars PROVE BusyInv'
    OBVIOUS
  <1> USE ConnsAssumption DEF BusyInv
  <1>1. ASSUME NEW c \in Conns, Hangup(c) PROVE BusyInv'
    BY <1>1 DEF Hangup, ioVars
  <1>2. ASSUME NEW c \in Conns, NEW n, Arrive(c, n) PROVE BusyInv'
    BY <1>2 DEF Arrive, ioVars
  <1>3. ASSUME NEW t \in Threads, enqueue_returns(t) PROVE BusyInv'
    BY <1>3 DEF enqueue_returns, ioVars
  <1>4. ASSUME NEW t \in Threads, NEW c \in Conns, handle_accept(t, c) PROVE BusyInv'
    BY <1>4 DEF handle_accept, ioVars
  <1>5. ASSUME NEW t \in Threads, NEW c \in Conns, handle_read(t, c) PROVE BusyInv'
    <2>1. CASE peer[c] # "reset"
      BY <1>5, <2>1 DEF handle_read, process, Free, ioVars
    <2>2. CASE peer[c] = "reset"
      BY <1>5, <2>2 DEF handle_read, process, ThreadEnds
    <2> QED
      BY <2>1, <2>2
  <1>6. ASSUME NEW t \in Threads, NEW c \in Conns, handle_read_error(t, c) PROVE BusyInv'
    BY <1>6 DEF handle_read_error, ioVars
  <1>7. CASE UdpStep \/ JournalStep \/ StopStep \/ UNCHANGED vars
    BY <1>7 DEF UdpStep, JournalStep, StopStep, stopImpl, tcpVars, ioVars, vars
  <1>8. QED
    BY <1>1, <1>2, <1>3, <1>4, <1>5, <1>6, <1>7 DEF Next, TcpStep, TcpNext

\* The two finite sets that the property counts.
LEMMA Counted ==
    /\ IsFiniteSet(Threads \ alive) /\ IsFiniteSet(LostToReset)
    /\ IsFiniteSet((Threads \ alive)') /\ IsFiniteSet(LostToReset')
  <1>1. Threads \ alive \subseteq Threads /\ LostToReset \subseteq Conns
    BY DEF LostToReset
  <1>2. (Threads \ alive)' \subseteq Threads /\ LostToReset' \subseteq Conns
    BY DEF LostToReset
  <1>3. QED
    BY <1>1, <1>2, ThreadsAssumption, ConnsAssumption, FS_Subset

\* A step that ends no thread gives back no lost connection.
LEMMA NoThreadEnds ==
    ASSUME ThreadsLostToResets, alive' = alive, LostToReset \subseteq LostToReset'
    PROVE  ThreadsLostToResets'
  <1> DEFINE d == Cardinality(Threads \ alive)
             l == Cardinality(LostToReset)
             m == Cardinality(LostToReset')
  <1>1. d \in Nat /\ l \in Nat /\ m \in Nat
    BY Counted, FS_CardinalityType
  <1>2. l <= m
    BY Counted, FS_Subset
  <1>3. d <= l
    BY DEF ThreadsLostToResets, LostToReset
  <1>4. ThreadsLostToResets' <=> d <= m
    BY DEF ThreadsLostToResets, LostToReset
  <1> HIDE DEF d, l, m
  <1>5. QED
    BY <1>1, <1>2, <1>3, <1>4

\* A thread that ends takes a connection with it.
LEMMA ThreadAndConnEnd ==
    ASSUME ThreadsLostToResets, NEW t \in Threads, t \in alive, NEW c, c \notin LostToReset,
           alive' = alive \ {t}, LostToReset' = LostToReset \cup {c}
    PROVE  ThreadsLostToResets'
  <1> DEFINE d == Cardinality(Threads \ alive)
             l == Cardinality(LostToReset)
  <1>1. d \in Nat /\ l \in Nat
    BY Counted, FS_CardinalityType
  <1>2. (Threads \ alive)' = (Threads \ alive) \cup {t} /\ t \notin Threads \ alive
    OBVIOUS
  <1>3. Cardinality((Threads \ alive)') = d + 1
    BY <1>2, Counted, FS_AddElement
  <1>4. Cardinality(LostToReset') = l + 1
    BY Counted, FS_AddElement
  <1>5. d <= l
    BY DEF ThreadsLostToResets, LostToReset
  <1>6. ThreadsLostToResets' <=> Cardinality((Threads \ alive)') <= Cardinality(LostToReset')
    BY DEF ThreadsLostToResets, LostToReset
  <1> HIDE DEF d, l
  <1>7. QED
    BY <1>1, <1>3, <1>4, <1>5, <1>6

\* Every step keeps the account of the threads.
LEMMA LostStep == BusyInv /\ ThreadsLostToResets /\ [Next]_vars => ThreadsLostToResets'
  <1> SUFFICES ASSUME BusyInv, ThreadsLostToResets, [Next]_vars PROVE ThreadsLostToResets'
    OBVIOUS
  <1> USE DEF BusyInv, LostToReset
  <1>1. ASSUME NEW c \in Conns, Hangup(c) PROVE ThreadsLostToResets'
    BY <1>1, NoThreadEnds DEF Hangup, ioVars
  <1>2. ASSUME NEW c \in Conns, NEW n, Arrive(c, n) PROVE ThreadsLostToResets'
    BY <1>2, NoThreadEnds DEF Arrive, ioVars
  <1>3. ASSUME NEW t \in Threads, enqueue_returns(t) PROVE ThreadsLostToResets'
    BY <1>3, NoThreadEnds DEF enqueue_returns, ioVars
  <1>4. ASSUME NEW t \in Threads, NEW c \in Conns, handle_accept(t, c) PROVE ThreadsLostToResets'
    BY <1>4, NoThreadEnds DEF handle_accept, ioVars
  <1>5. ASSUME NEW t \in Threads, NEW c \in Conns, handle_read(t, c) PROVE ThreadsLostToResets'
    <2>1. CASE peer[c] # "reset"
      BY <1>5, <2>1, NoThreadEnds DEF handle_read, process, ioVars
    <2>2. CASE peer[c] = "reset"
      <3>1. c \notin LostToReset /\ LostToReset' = LostToReset \cup {c}
        BY <1>5, <2>2 DEF handle_read, process
      <3>2. t \in alive /\ alive' = alive \ {t}
        BY <1>5, <2>2 DEF handle_read, process, ThreadEnds, Free, Runs
      <3> QED
        BY <3>1, <3>2, ThreadAndConnEnd
    <2> QED
      BY <2>1, <2>2
  <1>6. ASSUME NEW t \in Threads, NEW c \in Conns, handle_read_error(t, c) PROVE ThreadsLostToResets'
    BY <1>6, NoThreadEnds DEF handle_read_error, ioVars
  <1>7. CASE UdpStep \/ JournalStep \/ StopStep \/ UNCHANGED vars
    BY <1>7, NoThreadEnds DEF UdpStep, JournalStep, StopStep, stopImpl, tcpVars, ioVars, vars
  <1>8. QED
    BY <1>1, <1>2, <1>3, <1>4, <1>5, <1>6, <1>7 DEF Next, TcpStep, TcpNext

\* The input starts with all its threads.
LEMMA TcpInit0 == Init => TcpInv
  <1> SUFFICES ASSUME Init PROVE TcpInv
    OBVIOUS
  <1>1. BusyInv
    BY DEF Init, TcpInit, startImpl, BusyInv
  <1>2. Threads \ alive = {} /\ Cardinality({}) = 0
    BY FS_EmptySet DEF Init, startImpl
  <1>3. Cardinality(LostToReset) \in Nat
    BY Counted, FS_CardinalityType
  <1>4. ThreadsLostToResets
    BY <1>2, <1>3 DEF ThreadsLostToResets, LostToReset
  <1>5. QED
    BY <1>1, <1>4 DEF TcpInv

-----------------------------------------------------------------------------
(* The frames of a stream *)

\* A nonempty set of natural numbers has a least element.
LEMMA LeastOf ==
    ASSUME NEW T, T \subseteq Nat, T # {}
    PROVE  \E x \in T : \A y \in T : x <= y
  <1> DEFINE R == OpToRel(<, Nat)
  <1>1. IsWellFoundedOn(R, Nat)
    BY NatLessThanWellFounded
  <1>2. \A x, y \in Nat : y < x => <<y, x>> \in R
    BY DEF OpToRel
  <1> HIDE DEF R
  <1>3. PICK x \in T : \A y \in T : ~(<<y, x>> \in R)
    BY <1>1, WFMin
  <1>4. ASSUME NEW y \in T PROVE x <= y
    <2>1. x \in Nat /\ y \in Nat /\ ~(<<y, x>> \in R)
      BY <1>3
    <2> QED
      BY <1>2, <2>1
  <1> QED
    BY <1>4

\* The ends of the frames are finitely many numbers.
LEMMA EndsFinite ==
    ASSUME NEW s, Len(s) \in Nat
    PROVE  /\ Ends(s) \subseteq 1..Len(s)
           /\ IsFiniteSet(Ends(s)) /\ Cardinality(Ends(s)) \in Nat
           /\ \A n : /\ EndsUpTo(s, n) \subseteq Ends(s)
                     /\ IsFiniteSet(EndsUpTo(s, n))
                     /\ Cardinality(EndsUpTo(s, n)) \in Nat
                     /\ Cardinality(EndsUpTo(s, n)) <= Cardinality(Ends(s))
  <1>1. Ends(s) \subseteq 1..Len(s) /\ \A n : EndsUpTo(s, n) \subseteq Ends(s)
    BY DEF Ends, EndsUpTo
  <1>2. IsFiniteSet(1..Len(s))
    BY FS_Interval
  <1>3. IsFiniteSet(Ends(s))
    BY <1>1, <1>2, FS_Subset
  <1>4. QED
    BY <1>1, <1>3, FS_Subset, FS_CardinalityType

\* From one end to the next the count grows by one.
LEMMA NextEnd ==
    ASSUME NEW s, Len(s) \in Nat, NEW n \in Nat, NEW e \in Ends(s), n < e,
           \A i \in Ends(s) : ~(n < i /\ i < e)
    PROVE  Cardinality(EndsUpTo(s, e)) = Cardinality(EndsUpTo(s, n)) + 1
  <1>1. \A i \in Ends(s) : i \in Nat
    BY EndsFinite
  <1>2. EndsUpTo(s, e) = EndsUpTo(s, n) \cup {e} /\ e \notin EndsUpTo(s, n)
    BY <1>1 DEF EndsUpTo
  <1>3. QED
    BY <1>2, EndsFinite, FS_AddElement

\* Two ends have different counts, so that a count determines its end.
LEMMA FrameEndIs ==
    ASSUME NEW s, Len(s) \in Nat, NEW e \in Ends(s)
    PROVE  /\ Cardinality(EndsUpTo(s, e)) \in 1..Cardinality(Ends(s))
           /\ FrameEnd(s, Cardinality(EndsUpTo(s, e))) = e
  <1> DEFINE Count(i) == Cardinality(EndsUpTo(s, i))
  <1>1. \A i \in Ends(s) : i \in Nat /\ i \in EndsUpTo(s, i)
    BY EndsFinite DEF EndsUpTo
  <1>2. ASSUME NEW i \in Ends(s), NEW j \in Ends(s), i < j PROVE Count(i) # Count(j)
    <2>1. EndsUpTo(s, i) \subseteq EndsUpTo(s, j)
      BY <1>1, <1>2 DEF EndsUpTo
    <2>2. j \in EndsUpTo(s, j) /\ j \notin EndsUpTo(s, i)
      BY <1>1, <1>2 DEF EndsUpTo
    <2>3. EndsUpTo(s, i) # EndsUpTo(s, j)
      BY <2>2
    <2> QED
      BY <2>1, <2>3, EndsFinite, FS_Subset
  <1>3. Count(e) \in Nat /\ Count(e) <= Cardinality(Ends(s)) /\ Count(e) # 0
    BY <1>1, EndsFinite, FS_EmptySet
  <1>4. \A i \in Ends(s) : Count(i) = Count(e) => i = e
    BY <1>1, <1>2
  <1>5. FrameEnd(s, Count(e)) = CHOOSE i \in Ends(s) : Count(i) = Count(e)
    BY <1>3 DEF FrameEnd
  <1>6. Count(e) \in 1..Cardinality(Ends(s))
    BY <1>3, EndsFinite
  <1> HIDE DEF Count
  <1>7. FrameEnd(s, Count(e)) = e
    BY <1>4, <1>5
  <1> QED
    BY <1>6, <1>7 DEF Count

-----------------------------------------------------------------------------
(* The records of a TCP connection *)

\* The k-th frame of a stream.
Frame(s, k) == SubSeq(s, FrameEnd(s, k - 1) + 1, FrameEnd(s, k) - 1)

\* The frame after the m-th.
LEMMA FrameAfter ==
    ASSUME NEW s, NEW m \in Nat
    PROVE  Frame(s, m + 1) = SubSeq(s, FrameEnd(s, m) + 1, FrameEnd(s, m + 1) - 1)
  <1>1. (m + 1) - 1 = m
    OBVIOUS
  <1>2. QED
    BY <1>1, Zenon DEF Frame

\* What was consumed of a stream ends with a frame.
Consumed(c) == Cardinality(EndsUpTo(stream[c], taken[c]))

\* The records of c are its first frames: those consumed and, while a handler is in
\* enqueue, the one in front of the buffer.
InStep(c) ==
    /\ arrived[c] \in 0..Len(stream[c]) /\ taken[c] \in 0..arrived[c]
    /\ taken[c] = 0 \/ taken[c] \in Ends(stream[c])
    /\ offered[c] \in Seq(Seq(Range(stream[c])))
    /\ conn[c] # "handling" => Len(offered[c]) = Consumed(c)
    /\ conn[c] = "handling" => HasFrame(c) /\ Len(offered[c]) = Consumed(c) + 1
    /\ Len(offered[c]) <= Cardinality(Ends(stream[c]))
    /\ \A k \in 1..Len(offered[c]) : offered[c][k] = Frame(stream[c], k)

FramesInv ==
    /\ stream \in [Conns -> Streams]
    /\ DOMAIN arrived = Conns /\ DOMAIN taken = Conns /\ DOMAIN offered = Conns
    /\ \A c \in Conns : InStep(c)

\* A stream is a sequence.
LEMMA StreamSeq ==
    ASSUME NEW c \in Conns, stream \in [Conns -> Streams]
    PROVE  stream[c] \in Seq(Range(stream[c])) /\ Len(stream[c]) \in Nat
  BY StreamsAssumption

\* The elements of a stretch of a sequence, and the beginning of one.
LEMMA Stretch ==
    ASSUME NEW S, NEW s \in Seq(S), NEW a \in Nat, NEW b \in Nat, a <= b, b <= Len(s)
    PROVE  /\ SubSeq(s, a + 1, b) \in Seq(S) /\ Len(SubSeq(s, a + 1, b)) = b - a
           /\ \A i \in 1..(b - a) : SubSeq(s, a + 1, b)[i] = s[a + i]
           /\ \A n \in 0..(b - a) :
                 SubSeq(SubSeq(s, a + 1, b), 1, n) = SubSeq(s, a + 1, a + n)
  <1> DEFINE q == SubSeq(s, a + 1, b)
  <1>1. q \in Seq(S) /\ Len(q) = b - a
    OBVIOUS
  <1>2. \A i \in 1..(b - a) : q[i] = s[a + i]
    OBVIOUS
  <1>3. ASSUME NEW n \in 0..(b - a) PROVE SubSeq(q, 1, n) = SubSeq(s, a + 1, a + n)
    <2> DEFINE u == SubSeq(q, 1, n)
               v == SubSeq(s, a + 1, a + n)
    <2> HIDE DEF q
    <2>1. u \in Seq(S) /\ Len(u) = n /\ \A i \in 1..n : u[i] = q[i]
      BY <1>1
    <2>2. v \in Seq(S) /\ Len(v) = n /\ \A i \in 1..n : v[i] = s[a + i]
      OBVIOUS
    <2> HIDE DEF u, v
    <2>3. \A i \in 1..n : i \in 1..(b - a)
      OBVIOUS
    <2>4. \A i \in 1..n : u[i] = v[i]
      BY <1>2, <2>1, <2>2, <2>3
    <2>5. u = v
      BY <2>1, <2>2, <2>4
    <2> QED
      BY <2>5 DEF u, v
  <1> QED
    BY <1>1, <1>2, <1>3

\* The buffer is a stretch of the stream.
LEMMA BufferOf ==
    ASSUME NEW c \in Conns, stream \in [Conns -> Streams],
           arrived[c] \in 0..Len(stream[c]), taken[c] \in 0..arrived[c]
    PROVE  /\ Buffer(c) \in Seq(Range(stream[c]))
           /\ Len(Buffer(c)) = arrived[c] - taken[c]
           /\ \A i \in 1..(arrived[c] - taken[c]) : Buffer(c)[i] = stream[c][taken[c] + i]
           /\ \A n \in 0..(arrived[c] - taken[c]) :
                 SubSeq(Buffer(c), 1, n) = SubSeq(stream[c], taken[c] + 1, taken[c] + n)
  <1>1. /\ stream[c] \in Seq(Range(stream[c])) /\ arrived[c] \in Nat /\ taken[c] \in Nat
        /\ taken[c] <= arrived[c] /\ arrived[c] <= Len(stream[c])
    BY StreamSeq
  <1> DEFINE s == stream[c]
             a == taken[c]
             b == arrived[c]
  <1>2. Buffer(c) = SubSeq(s, a + 1, b)
    BY DEF Buffer
  <1> HIDE DEF s, a, b
  <1>0. s \in Seq(Range(s)) /\ a \in Nat /\ b \in Nat /\ a <= b /\ b <= Len(s)
    BY <1>1 DEF s, a, b
  <1>3. /\ SubSeq(s, a + 1, b) \in Seq(Range(s)) /\ Len(SubSeq(s, a + 1, b)) = b - a
        /\ \A i \in 1..(b - a) : SubSeq(s, a + 1, b)[i] = s[a + i]
        /\ \A n \in 0..(b - a) :
              SubSeq(SubSeq(s, a + 1, b), 1, n) = SubSeq(s, a + 1, a + n)
    BY <1>0, Stretch
  <1> QED
    BY <1>2, <1>3, Zenon DEF s, a, b

\* A buffer with a delimiter has a first one: the end of the frame after those consumed.
LEMMA FirstFrame ==
    ASSUME NEW c \in Conns, stream \in [Conns -> Streams], InStep(c), HasFrame(c)
    PROVE  LET n == FrameLength(c)
               s == stream[c]
               m == Consumed(c)
           IN /\ n \in 1..(arrived[c] - taken[c])
              /\ taken[c] + n \in Ends(s)
              /\ m \in Nat /\ Cardinality(EndsUpTo(s, taken[c] + n)) = m + 1
              /\ m + 1 <= Cardinality(Ends(s))
              /\ SubSeq(Buffer(c), 1, n - 1) = Frame(s, m + 1)
              /\ SubSeq(Buffer(c), 1, n - 1) \in Seq(Range(s))
  <1> DEFINE n == FrameLength(c)
             s == stream[c]
             m == Consumed(c)
             len == arrived[c] - taken[c]
             Nuls == {i \in 1..len : Buffer(c)[i] = NUL}
  <1>1. /\ arrived[c] \in Nat /\ taken[c] \in Nat /\ len \in Nat
        /\ taken[c] + len <= Len(s) /\ Len(s) \in Nat
    BY StreamSeq DEF InStep
  <1>2. /\ Buffer(c) \in Seq(Range(s)) /\ Len(Buffer(c)) = len
        /\ \A i \in 1..len : Buffer(c)[i] = s[taken[c] + i]
        /\ \A i \in 0..len : SubSeq(Buffer(c), 1, i) = SubSeq(s, taken[c] + 1, taken[c] + i)
    BY BufferOf DEF InStep
  <1>3. Nuls # {} /\ Nuls \subseteq Nat
    BY <1>1, <1>2 DEF HasFrame, Range
  <1>4. PICK x \in Nuls : \A y \in Nuls : x <= y
    BY <1>3, LeastOf
  <1>5. \A i \in 1..(x - 1) : Buffer(c)[i] # NUL
    BY <1>1, <1>4
  <1>6. n \in 1..len /\ Buffer(c)[n] = NUL /\ \A i \in 1..(n - 1) : Buffer(c)[i] # NUL
    BY <1>2, <1>4, <1>5 DEF FrameLength
  <1> HIDE DEF n, len, Nuls
  <1>7. taken[c] + n \in Ends(s)
    <2>1. taken[c] + n \in 1..Len(s) /\ s[taken[c] + n] = NUL
      BY <1>1, <1>2, <1>6
    <2> QED
      BY <2>1 DEF Ends
  <1>8. ASSUME NEW i \in Ends(s), taken[c] < i, i < taken[c] + n PROVE FALSE
    <2>1. i \in Nat /\ s[i] = NUL
      BY <1>8 DEF Ends
    <2>2. i - taken[c] \in 1..(n - 1) /\ i - taken[c] \in 1..len /\ taken[c] + (i - taken[c]) = i
      BY <1>1, <1>6, <1>8, <2>1
    <2> QED
      BY <1>2, <1>6, <2>1, <2>2
  <1>9. Cardinality(EndsUpTo(s, taken[c] + n)) = m + 1
    <2>1. taken[c] \in Nat /\ taken[c] < taken[c] + n
      BY <1>1, <1>6
    <2> QED
      BY <1>1, <1>7, <1>8, <2>1, NextEnd DEF Consumed
  <1>10. m \in Nat /\ m + 1 <= Cardinality(Ends(s)) /\ FrameEnd(s, m + 1) = taken[c] + n
    BY <1>1, <1>7, <1>9, FrameEndIs, EndsFinite DEF Consumed
  <1>11. FrameEnd(s, m) = taken[c]
    <2>1. CASE taken[c] = 0
      <3>1. EndsUpTo(s, 0) = {}
        BY <1>1 DEF EndsUpTo, Ends
      <3> QED
        BY <2>1, <3>1, FS_EmptySet DEF Consumed, FrameEnd
    <2>2. CASE taken[c] \in Ends(s)
      BY <1>1, <2>2, FrameEndIs DEF Consumed
    <2> QED
      BY <2>1, <2>2 DEF InStep
  <1>12. SubSeq(Buffer(c), 1, n - 1) = Frame(s, m + 1)
    <2>1. n - 1 \in 0..len /\ taken[c] + (n - 1) = (taken[c] + n) - 1
      BY <1>1, <1>6
    <2>2. SubSeq(Buffer(c), 1, n - 1) = SubSeq(s, taken[c] + 1, (taken[c] + n) - 1)
      BY <1>2, <2>1
    <2>3. Frame(s, m + 1) = SubSeq(s, FrameEnd(s, m) + 1, FrameEnd(s, m + 1) - 1)
      BY <1>10, FrameAfter
    <2> QED
      BY <1>10, <1>11, <2>2, <2>3, Zenon
  <1>13. SubSeq(Buffer(c), 1, n - 1) \in Seq(Range(s))
    BY <1>1, <1>2, <1>6
  <1> QED
    BY <1>6, <1>7, <1>9, <1>10, <1>12, <1>13 DEF n, len

\* What a step leaves alone stays in step.
LEMMA StaysInStep ==
    ASSUME NEW c \in Conns, InStep(c), stream' = stream, arrived'[c] = arrived[c],
           taken'[c] = taken[c], offered'[c] = offered[c],
           conn'[c] = "handling" <=> conn[c] = "handling"
    PROVE  InStep(c)'
  BY DEF InStep, Consumed, HasFrame, Buffer

\* Every step keeps the records of every connection in step with its stream.
LEMMA FramesStep == BusyInv /\ FramesInv /\ [Next]_vars => FramesInv'
  <1> SUFFICES ASSUME BusyInv, FramesInv, [Next]_vars PROVE FramesInv'
    OBVIOUS
  <1>0. /\ stream \in [Conns -> Streams]
        /\ DOMAIN arrived = Conns /\ DOMAIN taken = Conns /\ DOMAIN offered = Conns
        /\ \A d \in Conns : InStep(d)
        /\ DOMAIN conn = Conns
    BY DEF FramesInv, BusyInv
  <1>1. ASSUME NEW c \in Conns, Hangup(c) PROVE FramesInv'
    BY <1>0, <1>1, StaysInStep DEF FramesInv, Hangup
  <1>2. ASSUME NEW c \in Conns, NEW n, Arrive(c, n) PROVE FramesInv'
    <2>1. /\ stream' = stream /\ taken' = taken /\ offered' = offered /\ conn' = conn
          /\ arrived' = [arrived EXCEPT ![c] = @ + n]
          /\ conn[c] = "read" /\ n \in 1..(Len(stream[c]) - arrived[c])
      BY <1>2 DEF Arrive
    <2>2. ASSUME NEW d \in Conns, d # c PROVE InStep(d)'
      BY <1>0, <2>1, <2>2, StaysInStep
    <2>3. arrived'[c] \in 0..Len(stream[c]) /\ taken[c] \in 0..arrived'[c]
      BY <1>0, <2>1, StreamSeq DEF InStep
    <2>4. InStep(c)'
      BY <1>0, <2>1, <2>3 DEF InStep, Consumed
    <2> QED
      BY <1>0, <2>1, <2>2, <2>4 DEF FramesInv
  <1>3. ASSUME NEW t \in Threads, enqueue_returns(t) PROVE FramesInv'
    <2>0. PICK c \in Conns : c = busy[t]
      BY <1>3 DEF enqueue_returns, BusyInv
    <2> DEFINE n == FrameLength(c)
    <2>1. /\ c \in Conns /\ conn[c] = "handling"
          /\ stream' = stream /\ arrived' = arrived /\ offered' = offered
          /\ taken' = [taken EXCEPT ![c] = @ + n]
          /\ conn' = [conn EXCEPT ![c] = "read"]
      BY <1>3, <2>0 DEF enqueue_returns, BusyInv
    <2> HIDE DEF n
    <2>2. ASSUME NEW d \in Conns, d # c PROVE InStep(d)'
      BY <1>0, <2>1, <2>2, StaysInStep
    <2>3. /\ n \in 1..(arrived[c] - taken[c])
          /\ taken[c] + n \in Ends(stream[c])
          /\ Cardinality(EndsUpTo(stream[c], taken[c] + n)) = Consumed(c) + 1
      BY <1>0, <2>1, FirstFrame DEF InStep, n
    <2>4. arrived[c] \in 0..Len(stream[c]) /\ taken[c] + n \in 0..arrived[c]
      BY <1>0, <2>1, <2>3, StreamSeq DEF InStep
    <2>5. taken'[c] = taken[c] + n /\ conn'[c] = "read"
      BY <1>0, <2>1
    <2>6. Len(offered[c]) = Consumed(c)' /\ Len(offered[c]) = Consumed(c) + 1
      BY <1>0, <2>1, <2>3, <2>5 DEF InStep, Consumed
    <2>7. InStep(c)'
      BY <1>0, <2>1, <2>3, <2>4, <2>5, <2>6 DEF InStep
    <2> QED
      BY <1>0, <2>1, <2>2, <2>7 DEF FramesInv
  <1>4. ASSUME NEW t \in Threads, NEW c \in Conns, handle_accept(t, c) PROVE FramesInv'
    BY <1>0, <1>4, StaysInStep DEF FramesInv, handle_accept
  <1>5. ASSUME NEW t \in Threads, NEW c \in Conns, handle_read(t, c) PROVE FramesInv'
    <2>1. /\ conn[c] = "read" /\ HasFrame(c)
          /\ stream' = stream /\ arrived' = arrived /\ taken' = taken
      BY <1>5 DEF handle_read
    <2>2. CASE peer[c] = "reset"
      BY <1>0, <1>5, <2>1, <2>2, StaysInStep DEF FramesInv, handle_read, process
    <2>3. CASE peer[c] # "reset"
      <3> DEFINE f == SubSeq(Buffer(c), 1, FrameLength(c) - 1)
                 m == Consumed(c)
                 s == stream[c]
      <3>1. /\ offered' = [offered EXCEPT ![c] = Append(@, f)]
            /\ conn' = [conn EXCEPT ![c] = "handling"]
        BY <1>5, <2>3 DEF handle_read, process
      <3>2. /\ m \in Nat /\ m + 1 <= Cardinality(Ends(s))
            /\ f = Frame(s, m + 1) /\ f \in Seq(Range(s))
        BY <1>0, <2>1, FirstFrame
      <3> HIDE DEF f
      <3>3. ASSUME NEW d \in Conns, d # c PROVE InStep(d)'
        BY <1>0, <2>1, <3>1, <3>3, StaysInStep
      <3>4. /\ offered[c] \in Seq(Seq(Range(s))) /\ Len(offered[c]) = m
            /\ \A k \in 1..m : offered[c][k] = Frame(s, k)
        BY <1>0, <2>1 DEF InStep
      <3>5. offered'[c] = Append(offered[c], f) /\ conn'[c] = "handling"
        BY <1>0, <3>1
      <3>6. /\ offered'[c] \in Seq(Seq(Range(s))) /\ Len(offered'[c]) = m + 1
            /\ \A k \in 1..(m + 1) : offered'[c][k] = Frame(s, k)
        BY <3>2, <3>4, <3>5
      <3>7. m' = m /\ HasFrame(c)'
        BY <2>1 DEF Consumed, HasFrame, Buffer
      <3> HIDE DEF m
      <3>8. InStep(c)'
        BY <1>0, <2>1, <3>2, <3>5, <3>6, <3>7 DEF InStep, m
      <3> QED
        BY <1>0, <2>1, <3>1, <3>3, <3>8 DEF FramesInv
    <2> QED
      BY <2>2, <2>3
  <1>6. ASSUME NEW t \in Threads, NEW c \in Conns, handle_read_error(t, c) PROVE FramesInv'
    BY <1>0, <1>6, StaysInStep DEF FramesInv, handle_read_error
  <1>7. CASE UdpStep \/ JournalStep \/ StopStep \/ UNCHANGED vars
    <2>1. /\ stream' = stream /\ arrived' = arrived /\ taken' = taken
          /\ conn' = conn /\ offered' = offered
      BY <1>7 DEF UdpStep, JournalStep, StopStep, tcpVars, vars
    <2> QED
      BY <1>0, <2>1, StaysInStep DEF FramesInv
  <1>8. QED
    BY <1>1, <1>2, <1>3, <1>4, <1>5, <1>6, <1>7 DEF Next, TcpStep, TcpNext

\* At the start nothing has arrived and nothing was offered.
LEMMA FramesInit == Init => FramesInv
  <1> SUFFICES ASSUME Init, NEW c \in Conns PROVE InStep(c)
    BY DEF FramesInv, Init, TcpInit
  <1>1. /\ stream \in [Conns -> Streams] /\ Len(stream[c]) \in Nat
        /\ arrived[c] = 0 /\ taken[c] = 0 /\ conn[c] = "backlog" /\ offered[c] = <<>>
    BY StreamSeq DEF Init, TcpInit
  <1>2. EndsUpTo(stream[c], 0) = {}
    BY <1>1 DEF EndsUpTo, Ends
  <1>3. Consumed(c) = 0 /\ Cardinality(Ends(stream[c])) \in Nat
    BY <1>1, <1>2, FS_EmptySet, EndsFinite DEF Consumed
  <1> QED
    BY <1>1, <1>3 DEF InStep

\* Records that are the first frames one by one are a prefix of the frames.
LEMMA FramesArePrefix == FramesInv => FramesInOrder
  <1> SUFFICES ASSUME FramesInv, NEW c \in Conns
               PROVE  IsPrefix(offered[c], Frames(stream[c]))
    BY DEF FramesInOrder
  <1> DEFINE s == stream[c]
             o == offered[c]
             n == Cardinality(Ends(s))
             F == Frames(s)
  <1>1. Len(s) \in Nat /\ s \in Seq(Range(s))
    BY StreamSeq DEF FramesInv
  <1>2. n \in Nat
    BY <1>1, EndsFinite
  <1>3. /\ o \in Seq(Seq(Range(s))) /\ Len(o) <= n
        /\ \A k \in 1..Len(o) : o[k] = Frame(s, k)
    BY DEF FramesInv, InStep
  <1>4. F = [k \in 1..n |-> Frame(s, k)]
    BY DEF Frames, Frame
  <1> HIDE DEF o, n, F, s
  <1>5. F \in Seq({Frame(s, k) : k \in 1..n}) /\ Len(F) = n /\ \A k \in 1..n : F[k] = Frame(s, k)
    BY <1>2, <1>4
  <1>6. Len(o) \in Nat
    BY <1>3
  <1>7. SubSeq(o, 1, Len(o)) = SubSeq(F, 1, Len(o))
    <2> DEFINE u == SubSeq(o, 1, Len(o))
               v == SubSeq(F, 1, Len(o))
    <2>1. u = [k \in 1..Len(o) |-> o[k]]
      BY <1>3, <1>6
    <2>2. v = [k \in 1..Len(o) |-> F[k]]
      BY <1>2, <1>3, <1>5, <1>6
    <2>3. \A k \in 1..Len(o) : o[k] = F[k]
      BY <1>2, <1>3, <1>5, <1>6
    <2> QED
      BY <2>1, <2>2, <2>3
  <1> QED
    BY <1>3, <1>5, <1>7 DEF IsPrefix, o, F, s

-----------------------------------------------------------------------------
(* The UDP input *)

Datagrams == 1..Len(Sizes)

UdpShape ==
    /\ next \in Nat \ {0}
    /\ armed \in BOOLEAN
    /\ inbox \in Seq(Datagrams)
    /\ strand \in Seq({"receive", "process"} \X Datagrams)
    /\ received \in Seq(Datagrams)
    /\ udpOffered \in Seq(Datagrams \X Nat)

\* A datagram is older the further it has come: those received, the one whose handler
\* is in the strand, those in the socket, those to come.  At most one handler is in the
\* strand, and none while a receive is outstanding.
Older ==
    /\ \A i \in DOMAIN inbox : inbox[i] < next
    /\ \A i, j \in DOMAIN inbox : i < j => inbox[i] < inbox[j]
    /\ \A i \in DOMAIN strand : strand[i][1] = "receive" =>
          /\ ~armed /\ strand[i][2] < next
          /\ \A j \in DOMAIN strand : strand[j][1] = "receive" => i = j
          /\ \A j \in DOMAIN inbox : strand[i][2] < inbox[j]
          /\ \A j \in DOMAIN received : received[j] < strand[i][2]
    /\ \A i \in DOMAIN received : /\ received[i] < next
                                  /\ \A j \in DOMAIN inbox : received[i] < inbox[j]
    /\ \A i, j \in DOMAIN received : i < j => received[i] < received[j]

\* A datagram received that is not empty was offered or waits, and nothing else did.
Accounted ==
    /\ \A i \in DOMAIN udpOffered : /\ udpOffered[i][1] \in Kept
                                    /\ udpOffered[i] = Cut(udpOffered[i][1])
    /\ \A i \in Waiting : strand[i][2] \in Kept
    /\ \A d \in Kept : \/ \E i \in DOMAIN udpOffered : udpOffered[i][1] = d
                       \/ \E i \in Waiting : strand[i][2] = d

\* The datagrams offered are older than those that wait, and both are in order.
OldestFirst ==
    /\ \A i, j \in DOMAIN udpOffered : i < j => udpOffered[i][1] < udpOffered[j][1]
    /\ \A i, j \in Waiting : i < j => strand[i][2] < strand[j][2]
    /\ \A i \in DOMAIN udpOffered, j \in Waiting : udpOffered[i][1] < strand[j][2]

UdpInv == UdpShape /\ Older /\ Accounted /\ OldestFirst

\* The rest of a sequence.
LEMMA TailOf ==
    ASSUME NEW S, NEW s \in Seq(S), s # <<>>
    PROVE  /\ Tail(s) \in Seq(S) /\ Len(s) \in Nat \ {0} /\ Len(Tail(s)) = Len(s) - 1
           /\ DOMAIN s = 1..Len(s) /\ DOMAIN Tail(s) = 1..(Len(s) - 1)
           /\ Head(s) = s[1] /\ Head(s) \in S
           /\ \A i \in 1..(Len(s) - 1) : Tail(s)[i] = s[i + 1]
  OBVIOUS

\* A sequence with one more element.
LEMMA AppendOf ==
    ASSUME NEW S, NEW s \in Seq(S), NEW x \in S
    PROVE  /\ Append(s, x) \in Seq(S) /\ Len(s) \in Nat
           /\ DOMAIN s = 1..Len(s) /\ DOMAIN Append(s, x) = 1..(Len(s) + 1)
           /\ Append(s, x)[Len(s) + 1] = x
           /\ \A i \in 1..Len(s) : Append(s, x)[i] = s[i]
  OBVIOUS

\* The network: a datagram to come is younger than all others.
LEMMA NetworkStep == UdpInv /\ Network => UdpInv'
  <1> SUFFICES ASSUME UdpInv, Network PROVE UdpInv'
    OBVIOUS
  <1>1. /\ armed' = armed /\ strand' = strand /\ received' = received
        /\ udpOffered' = udpOffered /\ next' = next + 1
        /\ inbox' = inbox \/ inbox' = Append(inbox, next)
        /\ next \in Datagrams /\ next \in Nat
    BY UdpAssumption DEF Network, UdpInv, UdpShape, Datagrams
  <1>2. Accounted' /\ OldestFirst'
    BY <1>1 DEF UdpInv, Accounted, OldestFirst, Kept, Waiting
  <1>3. CASE inbox' = inbox
    <2>1. UdpShape'
      BY <1>1, <1>3 DEF UdpInv, UdpShape
    <2>2. /\ \A i \in DOMAIN inbox : inbox[i] \in Nat
          /\ \A i \in DOMAIN strand : strand[i][2] \in Nat
          /\ \A i \in DOMAIN received : received[i] \in Nat
      BY SMTT(60), UdpAssumption DEF UdpInv, UdpShape, Datagrams
    <2>3. Older'
      BY <1>1, <1>3, <2>2 DEF UdpInv, Older
    <2> QED
      BY <1>2, <2>1, <2>3 DEF UdpInv
  <1>4. CASE inbox' = Append(inbox, next)
    <2>1. /\ inbox' \in Seq(Datagrams) /\ Len(inbox) \in Nat
          /\ DOMAIN inbox = 1..Len(inbox) /\ DOMAIN inbox' = 1..(Len(inbox) + 1)
          /\ inbox'[Len(inbox) + 1] = next
          /\ \A i \in 1..Len(inbox) : inbox'[i] = inbox[i]
      BY <1>1, <1>4, AppendOf DEF UdpInv, UdpShape
    <2>2. UdpShape'
      BY <1>1, <2>1 DEF UdpInv, UdpShape
    <2>3. \A i \in DOMAIN inbox' : i = Len(inbox) + 1 \/ i \in DOMAIN inbox
      BY <2>1
    <2>4. /\ \A i \in DOMAIN inbox : inbox[i] \in Nat
          /\ \A i \in DOMAIN strand : strand[i][2] \in Nat
          /\ \A i \in DOMAIN received : received[i] \in Nat
      BY SMTT(60), UdpAssumption DEF UdpInv, UdpShape, Datagrams
    <2>5. Older'
      BY <1>1, <2>1, <2>3, <2>4 DEF UdpInv, Older
    <2> QED
      BY <1>2, <2>2, <2>5 DEF UdpInv
  <1> QED
    BY <1>1, <1>3, <1>4

\* The receive completes: the oldest datagram of the socket moves to the strand.
LEMMA CompletionStep == UdpInv /\ Completion => UdpInv'
  <1> SUFFICES ASSUME UdpInv, Completion PROVE UdpInv'
    OBVIOUS
  <1> DEFINE d == Head(inbox)
             n == Len(strand)
             S == {"receive", "process"} \X Datagrams
  <1>1. /\ armed = TRUE /\ armed' = FALSE /\ received' = received
        /\ udpOffered' = udpOffered /\ next' = next
        /\ inbox # <<>> /\ inbox' = Tail(inbox)
        /\ strand' = Append(strand, <<"receive", d>>)
    BY DEF Completion, UdpInv, UdpShape
  <1>2. /\ inbox' \in Seq(Datagrams) /\ Len(inbox) \in Nat \ {0}
        /\ DOMAIN inbox = 1..Len(inbox) /\ DOMAIN inbox' = 1..(Len(inbox) - 1)
        /\ d = inbox[1] /\ d \in Datagrams
        /\ \A i \in 1..(Len(inbox) - 1) : inbox'[i] = inbox[i + 1]
    BY <1>1, TailOf DEF UdpInv, UdpShape
  <1>3. strand \in Seq(S) /\ <<"receive", d>> \in S
    BY <1>2 DEF UdpInv, UdpShape
  <1>4. /\ strand' \in Seq(S) /\ n \in Nat
        /\ DOMAIN strand = 1..n /\ DOMAIN strand' = 1..(n + 1)
        /\ strand'[n + 1] = <<"receive", d>>
        /\ \A i \in 1..n : strand'[i] = strand[i]
    BY <1>1, <1>3, AppendOf
  <1>5. UdpShape'
    BY <1>1, <1>2, <1>4 DEF UdpInv, UdpShape
  <1> HIDE DEF d, n, S
  <1>6. \A i \in DOMAIN strand' : i = n + 1 \/ i \in DOMAIN strand
    BY <1>4
  <1>7. /\ strand'[n + 1][1] = "receive" /\ strand'[n + 1][2] = d
        /\ \A i \in DOMAIN strand : strand[i][1] # "receive"
    BY <1>1, <1>4 DEF UdpInv, Older
  <1>8. Waiting' = Waiting /\ \A i \in Waiting : i \in DOMAIN strand /\ strand'[i] = strand[i]
    BY <1>4, <1>6, <1>7 DEF Waiting
  <1>9. Kept' = Kept
    BY <1>1 DEF Kept
  <1>10. Accounted' /\ OldestFirst'
    <2>1. Accounted'
      <3>1. \A i \in DOMAIN udpOffered' : /\ udpOffered'[i][1] \in Kept'
                                          /\ udpOffered'[i] = Cut(udpOffered'[i][1])
        BY <1>1, <1>9 DEF UdpInv, Accounted
      <3>2. \A i \in Waiting' : strand'[i][2] \in Kept'
        BY <1>8, <1>9 DEF UdpInv, Accounted
      <3>3. ASSUME NEW e \in Kept'
            PROVE  \/ \E i \in DOMAIN udpOffered' : udpOffered'[i][1] = e
                   \/ \E i \in Waiting' : strand'[i][2] = e
        <4>1. CASE \E i \in DOMAIN udpOffered : udpOffered[i][1] = e
          BY <1>1, <4>1
        <4>2. CASE \E i \in Waiting : strand[i][2] = e
          BY <1>8, <4>2
        <4> QED
          BY <1>9, <4>1, <4>2 DEF UdpInv, Accounted
      <3> QED
        BY <3>1, <3>2, <3>3 DEF Accounted
    <2>2. OldestFirst'
      BY <1>1, <1>8 DEF UdpInv, OldestFirst
    <2> QED
      BY <2>1, <2>2
  <1>11. \A i \in DOMAIN inbox' : /\ i \in DOMAIN inbox /\ i + 1 \in DOMAIN inbox
                                  /\ inbox'[i] = inbox[i + 1] /\ 1 < i + 1
                                  /\ 1 \in DOMAIN inbox /\ i \in Nat
    BY <1>2
  <1>12. \A i \in DOMAIN inbox' : d < inbox'[i]
    BY <1>2, <1>11 DEF UdpInv, Older
  <1>13. d < next /\ \A j \in DOMAIN received : received[j] < d
    BY <1>2 DEF UdpInv, Older
  <1>14. Older'
    <2>1. \A i, j \in DOMAIN inbox' : i < j => inbox'[i] < inbox'[j]
      BY <1>11 DEF UdpInv, Older
    <2>2. \A i \in DOMAIN strand' : strand'[i][1] = "receive" => i = n + 1
      BY <1>4, <1>6, <1>7
    <2> QED
      BY <1>1, <1>7, <1>11, <1>12, <1>13, <2>1, <2>2 DEF UdpInv, Older
  <1> QED
    BY <1>5, <1>10, <1>14 DEF UdpInv

\* handle_receive: the work is posted behind what waits already, for the youngest of
\* the datagrams received, and the strand holds no other handler.
LEMMA ReceiveStep == UdpInv /\ handle_receive => UdpInv'
  <1> SUFFICES ASSUME UdpInv, handle_receive PROVE UdpInv'
    OBVIOUS
  <1> DEFINE d == Head(strand)[2]
             n == Len(strand)
             m == Len(received)
             S == {"receive", "process"} \X Datagrams
             r == Tail(strand)
  <1>1. /\ armed' = TRUE /\ inbox' = inbox /\ udpOffered' = udpOffered /\ next' = next
        /\ strand # <<>> /\ Head(strand)[1] = "receive"
        /\ received' = Append(received, d)
        /\ strand' = IF Sizes[d] > 0 THEN Append(r, <<"process", d>>) ELSE r
    BY DEF handle_receive
  <1>2. /\ r \in Seq(S) /\ n \in Nat \ {0} /\ Len(r) = n - 1
        /\ DOMAIN strand = 1..n /\ DOMAIN r = 1..(n - 1)
        /\ Head(strand) = strand[1] /\ Head(strand) \in S
        /\ \A i \in 1..(n - 1) : r[i] = strand[i + 1]
    BY <1>1, TailOf DEF UdpInv, UdpShape
  <1>3. d \in Datagrams /\ strand[1][1] = "receive" /\ strand[1][2] = d /\ d \in Nat
    BY <1>1, <1>2, UdpAssumption DEF Datagrams
  <1>4. /\ received' \in Seq(Datagrams) /\ m \in Nat
        /\ DOMAIN received = 1..m /\ DOMAIN received' = 1..(m + 1)
        /\ received'[m + 1] = d
        /\ \A i \in 1..m : received'[i] = received[i]
    BY <1>1, <1>3, AppendOf DEF UdpInv, UdpShape
  <1> HIDE DEF d, n, m, r
  <1>5. \A i \in 1..(n - 1) : r[i] \in S /\ r[i][1] # "receive"
    <2>1. ASSUME NEW i \in 1..(n - 1), r[i][1] = "receive" PROVE FALSE
      <3>1. /\ i + 1 \in DOMAIN strand /\ 1 \in DOMAIN strand /\ i + 1 # 1
            /\ strand[i + 1][1] = "receive"
        BY <1>2, <2>1
      <3> QED
        BY <1>3, <3>1 DEF UdpInv, Older
    <2> QED
      BY <1>2, <2>1
  <1>6. \A i \in 1..(n - 1) : r[i][1] = "process"
    BY <1>5
  <1>7. /\ strand' \in Seq(S)
        /\ Sizes[d] > 0 => /\ DOMAIN strand' = 1..n /\ strand'[n] = <<"process", d>>
                           /\ \A i \in 1..(n - 1) : strand'[i] = r[i]
        /\ ~(Sizes[d] > 0) => DOMAIN strand' = 1..(n - 1) /\ strand' = r
    <2>1. CASE Sizes[d] > 0
      <3>1. <<"process", d>> \in S /\ strand' = Append(r, <<"process", d>>)
        BY <1>1, <1>3, <2>1
      <3>2. /\ strand' \in Seq(S) /\ DOMAIN strand' = 1..(Len(r) + 1)
            /\ strand'[Len(r) + 1] = <<"process", d>>
            /\ \A i \in 1..Len(r) : strand'[i] = r[i]
        BY <1>2, <3>1, AppendOf
      <3>3. Len(r) + 1 = n
        BY <1>2
      <3> QED
        BY <1>2, <2>1, <3>2, <3>3
    <2> QED
      BY <1>1, <1>2, <2>1
  <1>8. UdpShape'
    BY <1>1, <1>4, <1>7 DEF UdpInv, UdpShape
  <1>9. \A i \in DOMAIN strand' : strand'[i][1] = "process"
    BY <1>2, <1>6, <1>7
  <1>10. \A i \in Waiting : /\ i - 1 \in Waiting' /\ strand'[i - 1] = strand[i]
                            /\ i - 1 \in 1..(n - 1)
    <2>1. ASSUME NEW i \in Waiting PROVE i - 1 \in 1..(n - 1) /\ r[i - 1] = strand[i]
      <3>1. i \in 1..n /\ i # 1
        BY <1>2, <1>3 DEF Waiting
      <3>2. i - 1 \in 1..(n - 1) /\ (i - 1) + 1 = i
        BY <1>2, <3>1
      <3> QED
        BY <1>2, <3>2
    <2>2. \A i \in 1..(n - 1) : i \in DOMAIN strand' /\ strand'[i] = r[i]
      BY <1>2, <1>7
    <2> QED
      BY <1>9, <2>1, <2>2 DEF Waiting
  <1>11. \A i \in Waiting' : \/ i \in Nat /\ i < n /\ i + 1 \in Waiting /\ strand'[i] = strand[i + 1]
                             \/ i = n /\ strand'[i][2] = d /\ Sizes[d] > 0
    <2> SUFFICES ASSUME NEW i \in Waiting', ~(i = n /\ Sizes[d] > 0)
                 PROVE  i \in Nat /\ i < n /\ i + 1 \in Waiting /\ strand'[i] = strand[i + 1]
      BY <1>7
    <2>1. i \in 1..(n - 1) /\ strand'[i] = r[i]
      BY <1>2, <1>7 DEF Waiting
    <2>2. i + 1 \in 1..n /\ strand[i + 1] = r[i] /\ r[i][1] = "process"
      BY <1>2, <1>6, <2>1
    <2> QED
      BY <1>2, <2>1, <2>2 DEF Waiting
  <1>12. Sizes[d] > 0 => n \in Waiting' /\ strand'[n][2] = d
    BY <1>2, <1>7, <1>9 DEF Waiting
  <1>13. Range(received)' = Range(received) \cup {d}
    BY <1>4 DEF Range
  <1>14. Kept' = IF Sizes[d] > 0 THEN Kept \cup {d} ELSE Kept
    BY <1>13 DEF Kept
  <1>15. /\ \A j \in DOMAIN received : received[j] < d
         /\ \A j \in DOMAIN inbox : d < inbox[j]
         /\ d < next
    BY <1>2, <1>3 DEF UdpInv, Older
  <1>16. \A e \in Kept : e < d /\ e \in Nat
    BY <1>15, UdpAssumption DEF Kept, Range, UdpInv, UdpShape, Datagrams
  <1>17. Older'
    <2>1. \A i \in DOMAIN received' : i = m + 1 \/ (i \in DOMAIN received /\ i < m + 1)
      BY <1>4
    <2> QED
      BY <1>1, <1>4, <1>9, <1>15, <2>1 DEF UdpInv, Older
  <1>18. Accounted'
    <2>1. \A i \in DOMAIN udpOffered' : /\ udpOffered'[i][1] \in Kept'
                                        /\ udpOffered'[i] = Cut(udpOffered'[i][1])
      BY <1>1, <1>14 DEF UdpInv, Accounted
    <2>2. \A i \in Waiting' : strand'[i][2] \in Kept'
      BY <1>11, <1>14 DEF UdpInv, Accounted
    <2>3. ASSUME NEW e \in Kept'
          PROVE  \/ \E i \in DOMAIN udpOffered' : udpOffered'[i][1] = e
                 \/ \E i \in Waiting' : strand'[i][2] = e
      <3>1. CASE e = d /\ Sizes[d] > 0
        BY <1>12, <3>1
      <3>2. CASE \E i \in DOMAIN udpOffered : udpOffered[i][1] = e
        BY <1>1, <3>2
      <3>3. CASE \E i \in Waiting : strand[i][2] = e
        BY <1>10, <3>3
      <3> QED
        BY <1>14, <3>1, <3>2, <3>3 DEF UdpInv, Accounted
    <2> QED
      BY <2>1, <2>2, <2>3 DEF Accounted
  <1>19. OldestFirst'
    <2>1. ASSUME NEW i \in Waiting', NEW j \in Waiting', i < j
          PROVE  strand'[i][2] < strand'[j][2]
      <3>1. j \in Nat /\ j <= n /\ i # n
        BY <1>2, <1>11, <2>1
      <3>2. i \in Nat /\ i + 1 \in Waiting /\ strand'[i] = strand[i + 1]
        BY <1>11, <3>1
      <3>3. CASE j = n /\ strand'[j][2] = d
        BY <1>16, <3>2, <3>3 DEF UdpInv, Accounted
      <3>4. CASE j + 1 \in Waiting /\ strand'[j] = strand[j + 1]
        BY <2>1, <3>1, <3>2, <3>4 DEF UdpInv, OldestFirst
      <3> QED
        BY <1>11, <3>3, <3>4
    <2>2. ASSUME NEW i \in DOMAIN udpOffered, NEW j \in Waiting'
          PROVE  udpOffered[i][1] < strand'[j][2]
      BY <1>11, <1>16 DEF UdpInv, Accounted, OldestFirst
    <2>3. \A i, j \in DOMAIN udpOffered : i < j => udpOffered[i][1] < udpOffered[j][1]
      BY DEF UdpInv, OldestFirst
    <2> QED
      BY <1>1, <2>1, <2>2, <2>3 DEF OldestFirst
  <1> QED
    BY <1>8, <1>17, <1>18, <1>19 DEF UdpInv

\* What Cut makes of a datagram.
LEMMA CutOf ==
    ASSUME NEW d \in Datagrams
    PROVE  Cut(d) \in Datagrams \X Nat /\ Cut(d)[1] = d
  BY UdpAssumption DEF Cut, Datagrams

\* udp_process: the oldest of the datagrams that wait is offered.
LEMMA ProcessStep == UdpInv /\ udp_process => UdpInv'
  <1> SUFFICES ASSUME UdpInv, udp_process PROVE UdpInv'
    OBVIOUS
  <1> DEFINE d == Head(strand)[2]
             n == Len(strand)
             m == Len(udpOffered)
             S == {"receive", "process"} \X Datagrams
  <1>1. /\ armed' = armed /\ inbox' = inbox /\ next' = next /\ received' = received
        /\ strand # <<>> /\ Head(strand)[1] = "process" /\ strand' = Tail(strand)
        /\ udpOffered' = Append(udpOffered, Cut(d))
    BY DEF udp_process
  <1>2. /\ strand' \in Seq(S) /\ n \in Nat \ {0}
        /\ DOMAIN strand = 1..n /\ DOMAIN strand' = 1..(n - 1)
        /\ Head(strand) = strand[1] /\ Head(strand) \in S
        /\ \A i \in 1..(n - 1) : strand'[i] = strand[i + 1]
    BY <1>1, TailOf DEF UdpInv, UdpShape
  <1>3. d \in Datagrams /\ strand[1][1] = "process" /\ strand[1][2] = d
    BY <1>1, <1>2
  <1>4. Cut(d) \in Datagrams \X Nat /\ Cut(d)[1] = d
    BY <1>3, CutOf
  <1>5. /\ udpOffered' \in Seq(Datagrams \X Nat) /\ m \in Nat
        /\ DOMAIN udpOffered = 1..m /\ DOMAIN udpOffered' = 1..(m + 1)
        /\ udpOffered'[m + 1] = Cut(d)
        /\ \A i \in 1..m : udpOffered'[i] = udpOffered[i]
    BY <1>1, <1>4, AppendOf DEF UdpInv, UdpShape
  <1>6. UdpShape'
    BY <1>1, <1>2, <1>5 DEF UdpInv, UdpShape
  <1> HIDE DEF d, n, m
  <1>7. \A i \in DOMAIN strand' : /\ i \in Nat /\ i + 1 \in DOMAIN strand
                                  /\ strand'[i] = strand[i + 1]
    BY <1>2
  <1>8. 1 \in Waiting /\ \A i \in Waiting' : i + 1 \in Waiting /\ i \in Nat /\ strand'[i] = strand[i + 1]
                                             /\ 1 < i + 1
    BY <1>2, <1>3, <1>7 DEF Waiting
  <1>9. \A i \in Waiting : i # 1 => i - 1 \in Waiting' /\ strand'[i - 1] = strand[i]
    <2>1. ASSUME NEW i \in Waiting, i # 1 PROVE i - 1 \in DOMAIN strand' /\ (i - 1) + 1 = i
      BY <1>2, <2>1 DEF Waiting
    <2> QED
      BY <1>7, <2>1 DEF Waiting
  <1>10. Kept' = Kept /\ d \in Kept
    BY <1>1, <1>3, <1>8 DEF Kept, UdpInv, Accounted
  <1>11. \A i \in DOMAIN udpOffered' : i = m + 1 \/ (i \in DOMAIN udpOffered /\ i < m + 1
                                                     /\ udpOffered'[i] = udpOffered[i])
    BY <1>5
  <1>12. Older'
    <2>1. ASSUME NEW i \in DOMAIN strand', NEW j \in DOMAIN strand', i + 1 = j + 1 PROVE i = j
      BY <1>7, <2>1
    <2> QED
      BY <1>1, <1>7, <2>1 DEF UdpInv, Older
  <1>13. Accounted'
    <2>1. \A i \in DOMAIN udpOffered' : /\ udpOffered'[i][1] \in Kept'
                                        /\ udpOffered'[i] = Cut(udpOffered'[i][1])
      BY <1>4, <1>5, <1>10, <1>11 DEF UdpInv, Accounted
    <2>2. \A i \in Waiting' : strand'[i][2] \in Kept'
      BY <1>8, <1>10 DEF UdpInv, Accounted
    <2>3. ASSUME NEW e \in Kept'
          PROVE  \/ \E i \in DOMAIN udpOffered' : udpOffered'[i][1] = e
                 \/ \E i \in Waiting' : strand'[i][2] = e
      <3>1. CASE e = d
        <4>1. m + 1 \in DOMAIN udpOffered' /\ udpOffered'[m + 1][1] = e
          BY <1>4, <1>5, <3>1
        <4> QED
          BY <4>1
      <3>2. CASE \E i \in DOMAIN udpOffered : udpOffered[i][1] = e
        <4>1. \A i \in DOMAIN udpOffered : /\ i \in DOMAIN udpOffered'
                                           /\ udpOffered'[i] = udpOffered[i]
          BY <1>5
        <4> QED
          BY <3>2, <4>1
      <3>3. CASE e # d /\ \E i \in Waiting : strand[i][2] = e
        BY <1>3, <1>9, <3>3
      <3> QED
        BY <1>10, <3>1, <3>2, <3>3 DEF UdpInv, Accounted
    <2> QED
      BY <2>1, <2>2, <2>3 DEF Accounted
  <1>14. OldestFirst'
    <2>1. ASSUME NEW i \in Waiting', NEW j \in Waiting', i < j
          PROVE  strand'[i][2] < strand'[j][2]
      BY <1>8, <2>1 DEF UdpInv, OldestFirst
    <2>2. ASSUME NEW i \in DOMAIN udpOffered', NEW j \in Waiting'
          PROVE  udpOffered'[i][1] < strand'[j][2]
      BY <1>3, <1>4, <1>5, <1>8, <1>11 DEF UdpInv, OldestFirst
    <2>3. ASSUME NEW i \in DOMAIN udpOffered', NEW j \in DOMAIN udpOffered', i < j
          PROVE  udpOffered'[i][1] < udpOffered'[j][1]
      <3>1. i \in DOMAIN udpOffered /\ udpOffered'[i] = udpOffered[i]
        BY <1>5, <1>11, <2>3
      <3>2. CASE j = m + 1
        BY <1>3, <1>4, <1>5, <1>8, <3>1, <3>2 DEF UdpInv, OldestFirst
      <3>3. CASE j \in DOMAIN udpOffered /\ udpOffered'[j] = udpOffered[j]
        BY <2>3, <3>1, <3>3 DEF UdpInv, OldestFirst
      <3> QED
        BY <1>11, <3>2, <3>3
    <2> QED
      BY <2>1, <2>2, <2>3 DEF OldestFirst
  <1> QED
    BY <1>6, <1>12, <1>13, <1>14 DEF UdpInv

\* A step that leaves the UDP input alone keeps its invariant.
LEMMA UdpUnchanged == UdpInv /\ UNCHANGED udpVars => UdpInv'
  BY DEF UdpInv, udpVars, UdpShape, Older, Accounted, OldestFirst, Kept, Waiting

LEMMA UdpInvStep == UdpInv /\ [Next]_vars => UdpInv'
  <1>1. TcpStep \/ JournalStep \/ StopStep \/ UNCHANGED vars => UNCHANGED udpVars
    BY DEF TcpStep, JournalStep, StopStep, vars
  <1>2. QED
    BY <1>1, NetworkStep, CompletionStep, ReceiveStep, ProcessStep, UdpUnchanged
    DEF Next, UdpStep, UdpNext

LEMMA UdpInit0 == Init => UdpInv
  BY UdpAssumption DEF Init, UdpInit, UdpInv, UdpShape, Older, Accounted, OldestFirst,
                       Kept, Waiting, Range

\* What is accounted for and in order is what was received, in order.
LEMMA UdpInOrder == UdpInv => DatagramsInOrder
  <1> SUFFICES ASSUME UdpInv PROVE DatagramsInOrder
    OBVIOUS
  <1>1. {udpOffered[i] : i \in DOMAIN udpOffered} \cup {Cut(strand[i][2]) : i \in Waiting}
            = {Cut(d) : d \in Kept}
    <2>1. ASSUME NEW d \in Kept
          PROVE  Cut(d) \in {udpOffered[i] : i \in DOMAIN udpOffered}
                                \cup {Cut(strand[i][2]) : i \in Waiting}
      BY DEF UdpInv, Accounted
    <2>2. \A i \in DOMAIN udpOffered : udpOffered[i] \in {Cut(d) : d \in Kept}
      BY DEF UdpInv, Accounted
    <2>3. \A i \in Waiting : Cut(strand[i][2]) \in {Cut(d) : d \in Kept}
      BY DEF UdpInv, Accounted
    <2> QED
      BY <2>1, <2>2, <2>3
  <1>2. QED
    BY <1>1 DEF DatagramsInOrder, UdpInv, Older, OldestFirst

-----------------------------------------------------------------------------
(* The journal input *)

\* A step of another input, or of none, is nothing to the reader.
LEMMA OtherSteps ==
    TcpStep \/ UdpStep \/ StopStep \/ UNCHANGED vars => UNCHANGED journalVars
  BY DEF TcpStep, UdpStep, StopStep, vars

\* The reader follows the journal.
LEMMA ReaderStep == ReaderInv /\ [Next]_vars => ReaderInv'
  <1> SUFFICES ASSUME ReaderInv, [Next]_vars PROVE ReaderInv'
    OBVIOUS
  <1> USE DEF ReaderInv, ReaderStates
  <1>1. CASE Append_entry
    BY <1>1 DEF Append_entry
  <1>2. CASE Rotate
    BY <1>2 DEF Rotate
  <1>3. CASE SeekPrevious
    BY <1>3 DEF SeekPrevious
  <1>4. CASE SeekNext
    BY <1>4 DEF SeekNext
  <1>5. CASE journal_receive
    BY <1>5 DEF journal_receive, sd_journal_process
  <1>6. CASE read_journal
    BY <1>6 DEF read_journal
  <1>7. CASE read_journal_ends
    BY <1>7 DEF read_journal_ends
  <1>8. CASE UNCHANGED journalVars
    BY <1>8 DEF journalVars
  <1>9. QED
    BY <1>1, <1>2, <1>3, <1>4, <1>5, <1>6, <1>7, <1>8, OtherSteps DEF Next, JournalStep, JournalNext

\* Each turn of read_journal offers the next entry.
LEMMA EntriesStep == ReaderInv /\ EntriesInOrder /\ [Next]_vars => EntriesInOrder'
  <1> SUFFICES ASSUME ReaderInv, EntriesInOrder, [Next]_vars PROVE EntriesInOrder'
    OBVIOUS
  <1>1. CASE SeekNext
    BY <1>1 DEF SeekNext, ReaderInv, EntriesInOrder
  <1>2. CASE read_journal
    <2>1. /\ journalOffered = [i \in 1..(cursor - first) |-> first + i]
          /\ journalOffered' = Append(journalOffered, cursor + 1)
          /\ cursor' = cursor + 1 /\ first' = first
          /\ cursor \in Nat /\ first \in Nat /\ first <= cursor
      BY <1>2 DEF read_journal, OfferEntry, EntriesInOrder, ReaderInv
    <2>2. journalOffered \in Seq(Nat) /\ Len(journalOffered) = cursor - first
      BY <2>1
    <2>3. Append(journalOffered, cursor + 1) = [i \in 1..(cursor + 1 - first) |-> first + i]
      BY <2>1, <2>2
    <2> QED
      BY <2>1, <2>3 DEF EntriesInOrder
  <1>3. CASE Append_entry \/ Rotate \/ SeekPrevious
    BY <1>3 DEF Append_entry, Rotate, SeekPrevious, EntriesInOrder
  <1>4. CASE journal_receive \/ read_journal_ends
    BY <1>4 DEF journal_receive, read_journal_ends, EntriesInOrder
  <1>5. CASE UNCHANGED journalVars
    BY <1>5 DEF journalVars, EntriesInOrder
  <1>6. QED
    BY <1>1, <1>2, <1>3, <1>4, <1>5, OtherSteps DEF Next, JournalStep, JournalNext

-----------------------------------------------------------------------------
(* The theorems *)

\* A TCP input loses a thread only to a connection that its peer reset while a frame
\* was in the buffer (remote_endpoint() throws), and each connection costs one at most,
\* whatever the other connections and the other threads do.
THEOREM OneThreadPerReset == Spec => []ThreadsLostToResets
  <1>1. TcpInv /\ [Next]_vars => TcpInv'
    BY BusyStep, LostStep DEF TcpInv
  <1>2. QED
    BY <1>1, TcpInit0, PTL DEF Spec, TcpInv

\* The inductive invariant of the reader holds in every reachable state.
LEMMA JournalInductive == Spec => []JournalInv
  <1>1. Init => JournalInv
    BY JournalAssumption DEF Init, JournalInit, JournalInv, ReaderInv, ReaderStates, EntriesInOrder
  <1>2. JournalInv /\ [Next]_vars => JournalInv'
    BY ReaderStep, EntriesStep DEF JournalInv
  <1>3. QED
    BY <1>1, <1>2, PTL DEF Spec

\* However appends and rotations interleave with the reader's calls, also with those
\* of its constructor, a reader that waits with no change left to be told of has read
\* the whole journal, unless the last answer was INVALIDATE or a read failed.
THEOREM WaitingReaderHasReadAll == Spec => []NothingLeftUnread
  <1>1. JournalInv => NothingLeftUnread
    BY DEF JournalInv, ReaderInv, NothingLeftUnread
  <1>2. QED
    BY <1>1, JournalInductive, PTL

\* The journal input offers the entries after the place its constructor chose, in
\* order, none twice and none left out.
THEOREM JournalInOrder == Spec => []EntriesInOrder
  BY JournalInductive, PTL DEF JournalInv

\* Whatever its kind, and however its threads interleave with the network, the peers and
\* the journal, an input offers to its queue what its source sent it, whole, in the
\* order of the source and once: the NUL-delimited frames of every TCP connection
\* however the stream was cut on its way, the datagrams received that are not empty,
\* though the work on one is posted and the next received before it runs, and the
\* entries of the journal.
THEOREM InputsInOrder == Spec => []OfferedInOrder
  <1> DEFINE Inv == TcpInv /\ FramesInv /\ UdpInv
  <1>1. Init => Inv
    BY TcpInit0, FramesInit, UdpInit0
  <1>2. Inv /\ [Next]_vars => Inv'
    BY BusyStep, LostStep, FramesStep, UdpInvStep DEF TcpInv
  <1>3. Inv /\ JournalInv => OfferedInOrder
    BY FramesArePrefix, UdpInOrder DEF OfferedInOrder, JournalInv
  <1>4. QED
    BY <1>1, <1>2, <1>3, JournalInductive, PTL DEF Spec
=============================================================================
