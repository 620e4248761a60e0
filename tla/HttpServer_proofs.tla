-------------------------- MODULE HttpServer_proofs --------------------------
(***************************************************************************)
(* Theorems about HttpServer for any number of clients and whatever they   *)
(* send.                                                                   *)
(*                                                                         *)
(* Connections: the inductive invariant says what the manager and the      *)
(* sockets look like before stop_all (ServedInv, which goes on holding     *)
(* while the main thread is in the middle of its stop) and after it        *)
(* (StoppedInv).                                                           *)
(*                                                                         *)
(* Answers: SegmentsInv says that the parser of a connection is where one  *)
(* read of all that arrived would have left it.  What it is right about    *)
(* then is a matter of the parser alone: Where says what each of its       *)
(* states means for the characters read so far, every move keeps it, and   *)
(* a state has a move for the next character of any request.  The decoder  *)
(* of the URI is compared with PathOf in the same way, from the end back.  *)
(***************************************************************************)
EXTENDS HttpServer, FiniteSetTheorems, SequenceTheorems, WellFoundedInduction, TLAPS

\* The part of TypeOK that is about connections.
ConnTypes ==
    /\ op \in [Conns -> Operations]
    /\ socket \in [Conns -> {"none", "open", "closed"}]
    /\ connections \subseteq Conns
    /\ io \in IoStates
    /\ stopping \in StopStates

\* The thread is in a handler that is about to call the manager for c.
Starts(c) == io.call = "start" /\ io.conn = c
Stops(c) == io.call = "stop" /\ io.conn = c

\* Until stop_all: a connection is served, or about to be started or stopped, or not
\* in the set.
ServedInv ==
    stopping \in {"no", "service", "acceptor"} =>
        \A c \in Conns :
            /\ op[c] \in {"read", "write"} <=> c \in connections /\ ~Stops(c)
            /\ socket[c] = "open" <=> c \in connections \/ Starts(c)
            /\ Stops(c) => c \in connections
            /\ Starts(c) => op[c] = "none"

\* After stop_all: whatever is open was started too late.
StoppedInv ==
    stopping = "done" =>
        /\ \A c \in Conns : socket[c] = "open" <=> c \in connections \/ Starts(c)
        /\ io.call = "start" => connections = {}
        /\ \A c, d \in connections : c = d

IInv == ConnTypes /\ ServedInv /\ StoppedInv

-----------------------------------------------------------------------------
\* The server starts without connections.
LEMMA InitIInv == Init => IInv
  <1> SUFFICES ASSUME Init PROVE IInv
    OBVIOUS
  <1>1. ConnTypes
    BY DEF Init, ConnTypes, Operations, IoStates, StopStates
  <1>2. ServedInv /\ StoppedInv
    BY DEF Init, ServedInv, StoppedInv, Starts, Stops, Idle
  <1>3. QED
    BY <1>1, <1>2 DEF IInv

\* What the calls of the server's thread look like.
LEMMA IoCalls ==
    ASSUME ConnTypes
    PROVE  /\ io = Idle => io.call = "none"
           /\ io = Ended => io.call = "ended"
           /\ io.call \in {"start", "stop"} => io.conn \in Conns
           /\ \A k \in {"start", "stop"}, c \in Conns :
                 /\ [call |-> k, conn |-> c] \in IoStates
                 /\ [call |-> k, conn |-> c].call = k
                 /\ [call |-> k, conn |-> c].conn = c
           /\ Idle \in IoStates /\ Idle.call = "none"
           /\ Ended \in IoStates /\ Ended.call = "ended"
  BY DEF ConnTypes, IoStates, Idle, Ended

\* Every step keeps the types.
LEMMA TypesStep == ConnTypes /\ [Next]_vars => ConnTypes'
  <1> SUFFICES ASSUME ConnTypes, [Next]_vars PROVE ConnTypes'
    OBVIOUS
  <1> USE DEF ConnTypes, Operations, StopStates
  <1>1. ASSUME NEW c \in Conns, AcceptDone(c) PROVE ConnTypes'
    BY <1>1, IoCalls DEF AcceptDone
  <1>2. ASSUME NEW c \in Conns, ReadFailed(c) \/ WriteDone(c) PROVE ConnTypes'
    BY <1>2, IoCalls DEF ReadFailed, WriteDone
  <1>3. ASSUME NEW c \in Conns, NEW n, ReadDone(c, n) PROVE ConnTypes'
    BY <1>3 DEF ReadDone
  <1>4. CASE ManagerStart \/ ManagerStop \/ RunReturns
    BY <1>4, IoCalls DEF ManagerStart, ManagerStop, RunReturns
  <1>5. CASE StopService \/ CloseAcceptor \/ StopAll \/ StopAllRaces
    BY <1>5, IoCalls DEF StopService, CloseAcceptor, StopAll, StopAllRaces
  <1>6. CASE UNCHANGED vars
    BY <1>6 DEF vars
  <1>7. QED
    BY <1>1, <1>2, <1>3, <1>4, <1>5, <1>6 DEF Next

\* Every handler keeps the set of connections and the sockets in step.
LEMMA ServedStep == IInv /\ [Next]_vars => ServedInv'
  <1> SUFFICES ASSUME IInv, [Next]_vars PROVE ServedInv'
    OBVIOUS
  <1>0. ConnTypes
    BY DEF IInv
  <1> USE DEF IInv, ConnTypes, ServedInv, Starts, Stops
  <1>1. ASSUME NEW c \in Conns, AcceptDone(c) PROVE ServedInv'
    BY <1>0, <1>1, IoCalls DEF AcceptDone, Serving
  <1>2. ASSUME NEW c \in Conns, ReadFailed(c) \/ WriteDone(c) PROVE ServedInv'
    BY <1>0, <1>2, IoCalls DEF ReadFailed, WriteDone, Serving
  <1>3. ASSUME NEW c \in Conns, NEW n, ReadDone(c, n) PROVE ServedInv'
    BY <1>0, <1>3, IoCalls DEF ReadDone, ReadCompletes, Serving
  <1>4. CASE ManagerStart
    BY <1>0, <1>4, IoCalls DEF ManagerStart
  <1>5. CASE ManagerStop
    BY <1>0, <1>5, IoCalls DEF ManagerStop
  <1>6. CASE RunReturns
    BY <1>0, <1>6, IoCalls DEF RunReturns
  <1>7. CASE StopService \/ CloseAcceptor \/ StopAll \/ StopAllRaces
    BY <1>7 DEF StopService, CloseAcceptor, StopAll, StopAllRaces
  <1>8. CASE UNCHANGED vars
    BY <1>8 DEF vars
  <1>9. QED
    BY <1>1, <1>2, <1>3, <1>4, <1>5, <1>6, <1>7, <1>8 DEF Next

\* stop_all closes what it finds; what a handler starts later stays alone.
LEMMA StoppedStep == IInv /\ [Next]_vars => StoppedInv'
  <1> SUFFICES ASSUME IInv, [Next]_vars PROVE StoppedInv'
    OBVIOUS
  <1>0. ConnTypes
    BY DEF IInv
  <1> USE DEF IInv, ConnTypes, StoppedInv, Starts
  <1>1. ASSUME NEW c \in Conns, AcceptDone(c) \/ ReadFailed(c) \/ WriteDone(c) PROVE StoppedInv'
    BY <1>1 DEF AcceptDone, ReadFailed, WriteDone, Serving
  <1>2. ASSUME NEW c \in Conns, NEW n, ReadDone(c, n) PROVE StoppedInv'
    BY <1>2 DEF ReadDone, ReadCompletes, Serving
  <1>3. CASE ManagerStart
    BY <1>0, <1>3, IoCalls DEF ManagerStart
  <1>4. CASE ManagerStop
    BY <1>0, <1>4, IoCalls DEF ManagerStop
  <1>5. CASE RunReturns
    BY <1>0, <1>5, IoCalls DEF RunReturns
  <1>6. CASE StopAll
    BY <1>0, <1>6, IoCalls DEF StopAll, ServedInv, Stops
  <1>7. CASE StopService \/ CloseAcceptor \/ StopAllRaces
    BY <1>7 DEF StopService, CloseAcceptor, StopAllRaces
  <1>8. CASE UNCHANGED vars
    BY <1>8 DEF vars
  <1>9. QED
    BY <1>1, <1>2, <1>3, <1>4, <1>5, <1>6, <1>7, <1>8 DEF Next

-----------------------------------------------------------------------------
(* The parser *)

\* The states the parser goes through from p on, when it is fed s.
IsRun(p, s, f) ==
    /\ f = [i \in 0..Len(s) |-> f[i]]
    /\ f[0] = p
    /\ \A i \in 1..Len(s) : f[i] = Advance(f[i - 1], s[i])

\* A set of numbers that has 0, and with each number below n the next, has all up to n.
LEMMA UpTo ==
    ASSUME NEW n \in Nat, NEW T, 0 \in T, \A i \in 0..(n - 1) : i \in T => i + 1 \in T
    PROVE  \A i \in 0..n : i \in T
  <1> DEFINE U == {i \in 0..n : i \notin T}
             R == OpToRel(<, Nat)
  <1> SUFFICES ASSUME U # {} PROVE FALSE
    OBVIOUS
  <1>1. IsWellFoundedOn(R, Nat)
    BY NatLessThanWellFounded
  <1>2. \A x, y \in Nat : y < x => <<y, x>> \in R
    BY DEF OpToRel
  <1> HIDE DEF R
  <1>3. U \subseteq Nat
    OBVIOUS
  <1>4. PICK x \in U : \A y \in U : ~(<<y, x>> \in R)
    BY <1>1, <1>3, WFMin
  <1>5. x \in 0..n /\ x # 0 /\ x \notin T
    OBVIOUS
  <1>6. x - 1 \in 0..(n - 1) /\ x - 1 \in 0..n /\ (x - 1) + 1 = x /\ x - 1 < x
    BY <1>5
  <1>7. x - 1 \in T
    <2>1. <<x - 1, x>> \in R
      BY <1>2, <1>3, <1>6
    <2>2. x - 1 \notin U
      BY <1>4, <2>1
    <2> QED
      BY <1>6, <2>2
  <1> QED
    BY <1>5, <1>6, <1>7

\* There is such a run, and parse gives its end.
LEMMA ParseIsRun ==
    ASSUME NEW p, NEW s \in Seq(Chars)
    PROVE  \E f : IsRun(p, s, f) /\ parse(p, s) = f[Len(s)]
  <1> DEFINE n == Len(s)
             Holds(g) == g = [i \in 0..n |-> IF i = 0 THEN p ELSE Advance(g[i - 1], s[i])]
             T == {i \in 0..n : \E f : /\ f[0] = p
                                       /\ \A j \in 1..i : f[j] = Advance(f[j - 1], s[j])}
  <1>1. n \in Nat
    OBVIOUS
  <1>2. 0 \in T
    <2> DEFINE f == [i \in {0} |-> p]
    <2>1. f[0] = p /\ \A j \in 1..0 : f[j] = Advance(f[j - 1], s[j])
      OBVIOUS
    <2> HIDE DEF f
    <2>2. 0 \in 0..n
      BY <1>1
    <2> QED
      BY <2>1, <2>2, Zenon
  <1> HIDE DEF n
  <1>3. ASSUME NEW i \in 0..(n - 1), i \in T PROVE i + 1 \in T
    <2>1. PICK f : f[0] = p /\ \A j \in 1..i : f[j] = Advance(f[j - 1], s[j])
      BY <1>3
    <2> DEFINE g == [j \in 0..(i + 1) |-> IF j = i + 1 THEN Advance(f[i], s[i + 1]) ELSE f[j]]
    <2>2. g[0] = p /\ g[i + 1] = Advance(f[i], s[i + 1]) /\ \A j \in 0..i : g[j] = f[j]
      BY <2>1
    <2> HIDE DEF g
    <2>3. ASSUME NEW j \in 1..(i + 1) PROVE g[j] = Advance(g[j - 1], s[j])
      <3>1. CASE j = i + 1
        <4>1. j - 1 = i /\ i \in 0..i
          BY <3>1
        <4> QED
          BY <2>2, <3>1, <4>1
      <3>2. CASE j # i + 1
        <4>1. j \in 1..i /\ j \in 0..i /\ j - 1 \in 0..i
          BY <3>2
        <4> QED
          BY <2>1, <2>2, <4>1
      <3> QED
        BY <3>1, <3>2
    <2>4. i + 1 \in 0..n
      BY <1>1
    <2> QED
      BY <2>2, <2>3, <2>4
  <1>4. n \in T
    <2>1. \A i \in 0..n : i \in T
      <3> HIDE DEF T
      <3> QED
        BY <1>1, <1>2, <1>3, UpTo
    <2>2. n \in 0..n
      BY <1>1
    <2> QED
      BY <2>1, <2>2, Zenon
  <1>5. PICK f : f[0] = p /\ \A j \in 1..n : f[j] = Advance(f[j - 1], s[j])
    BY <1>4
  <1>6. \E g : Holds(g)
    <2> DEFINE g == [i \in 0..n |-> f[i]]
    <2>1. \A i \in 0..n : g[i] = f[i]
      OBVIOUS
    <2>2. \A i \in 0..n : g[i] = IF i = 0 THEN p ELSE Advance(g[i - 1], s[i])
      <3> HIDE DEF g
      <3>1. ASSUME NEW i \in 0..n PROVE i = 0 \/ (i \in 1..n /\ i - 1 \in 0..n)
        BY <1>1
      <3> QED
        BY <1>5, <2>1, <3>1
    <2>3. g = [i \in 0..n |-> g[i]]
      OBVIOUS
    <2> HIDE DEF g
    <2>4. Holds(g)
      BY <2>2, <2>3
    <2> QED
      BY <2>4
  <1> DEFINE after == CHOOSE g : Holds(g)
  <1>7. Holds(after)
    <2> HIDE DEF Holds
    <2> QED
      BY <1>6
  <1>8. parse(p, s) = after[n]
    BY DEF parse, n
  <1> HIDE DEF after
  <1>9. IsRun(p, s, after)
    <2>1. \A i \in 0..n : after[i] = IF i = 0 THEN p ELSE Advance(after[i - 1], s[i])
      BY <1>7
    <2>2. 0 \in 0..n /\ \A i \in 1..n : i \in 0..n /\ i # 0
      BY <1>1
    <2>3. after = [i \in 0..n |-> after[i]]
      BY <1>7
    <2> QED
      BY <2>1, <2>2, <2>3 DEF IsRun, n
  <1> QED
    BY <1>8, <1>9 DEF n

\* The parser is deterministic: what it was fed alike it has done alike.
LEMMA SameRun ==
    ASSUME NEW p, NEW s \in Seq(Chars), NEW t \in Seq(Chars), NEW f, NEW g,
           IsRun(p, s, f), IsRun(p, t, g), Len(s) <= Len(t),
           \A i \in 1..Len(s) : s[i] = t[i]
    PROVE  \A i \in 0..Len(s) : f[i] = g[i]
  <1> DEFINE n == Len(s)
             T == {i \in 0..n : f[i] = g[i]}
  <1>1. n \in Nat /\ \A i \in 1..n : i \in 1..Len(t)
    OBVIOUS
  <1>2. 0 \in T
    BY <1>1 DEF IsRun
  <1>3. ASSUME NEW i \in 0..(n - 1), i \in T PROVE i + 1 \in T
    <2>1. i + 1 \in 1..n /\ (i + 1) - 1 = i /\ i + 1 \in 0..n
      BY <1>1
    <2>2. f[i + 1] = Advance(f[i], s[i + 1]) /\ g[i + 1] = Advance(g[i], t[i + 1])
      BY <1>1, <2>1 DEF IsRun
    <2> QED
      BY <1>3, <2>1, <2>2
  <1> QED
    <2> HIDE DEF T
    <2>1. \A i \in 0..n : i \in T
      BY <1>1, <1>2, <1>3, UpTo
    <2> QED
      BY <2>1 DEF T

\* Two segments are parsed as one.
LEMMA TwoSegments ==
    ASSUME NEW p, NEW s \in Seq(Chars), NEW t \in Seq(Chars)
    PROVE  parse(parse(p, s), t) = parse(p, s \o t)
  <1> DEFINE m == Len(s)
             n == Len(t)
  <1>0. PICK st : st = s \o t
    OBVIOUS
  <1>1. PICK f : IsRun(p, s, f) /\ parse(p, s) = f[m]
    BY ParseIsRun
  <1>2. PICK g : IsRun(f[m], t, g) /\ parse(f[m], t) = g[n]
    BY ParseIsRun
  <1>3. st \in Seq(Chars) /\ Len(st) = m + n /\ m \in Nat /\ n \in Nat
        /\ (\A i \in 1..m : st[i] = s[i]) /\ (\A i \in 1..n : st[m + i] = t[i])
    BY <1>0
  <1> HIDE DEF m, n
  <1>4. PICK h : IsRun(p, st, h) /\ parse(p, st) = h[Len(st)]
    BY <1>3, ParseIsRun
  <1>5. f[m] = h[m]
    <2>1. Len(s) <= Len(st) /\ \A i \in 1..Len(s) : s[i] = st[i]
      BY <1>3 DEF m
    <2>2. IsRun(p, s, f) /\ IsRun(p, st, h) /\ st \in Seq(Chars)
      BY <1>1, <1>3, <1>4
    <2>3. \A i \in 0..Len(s) : f[i] = h[i]
      BY <2>1, <2>2, SameRun
    <2> QED
      BY <1>3, <2>3 DEF m
  <1>6. h[m + n] = g[n]
    <2> DEFINE T == {i \in 0..n : g[i] = h[m + i]}
    <2>1. 0 \in T
      BY <1>2, <1>3, <1>5 DEF IsRun
    <2>2. ASSUME NEW i \in 0..(n - 1), i \in T PROVE i + 1 \in T
      <3>1. /\ i + 1 \in 1..n /\ (i + 1) - 1 = i /\ i + 1 \in 0..n
            /\ m + (i + 1) \in 1..(m + n) /\ (m + (i + 1)) - 1 = m + i
        BY <1>3
      <3>2. g[i + 1] = Advance(g[i], t[i + 1])
        BY <1>2, <3>1 DEF IsRun, n
      <3>3. h[m + (i + 1)] = Advance(h[m + i], st[m + (i + 1)])
        BY <1>3, <1>4, <3>1 DEF IsRun
      <3> QED
        BY <1>3, <2>2, <3>1, <3>2, <3>3
    <2> HIDE DEF T
    <2>3. n \in T
      <3>1. \A i \in 0..n : i \in T
        BY <1>3, <2>1, <2>2, UpTo
      <3> QED
        BY <1>3, <3>1
    <2> QED
      BY <2>3 DEF T
  <1> QED
    BY <1>1, <1>2, <1>3, <1>4, <1>6, <1>0 DEF m, n

\* Nothing was fed to it yet.
LEMMA NothingParsed ==
    parse(NewParser, <<>>) = NewParser
  <1>1. <<>> \in Seq(Chars) /\ Len(<<>>) = 0
    OBVIOUS
  <1>2. PICK f : IsRun(NewParser, <<>>, f) /\ parse(NewParser, <<>>) = f[0]
    BY <1>1, ParseIsRun
  <1> QED
    BY <1>2 DEF IsRun

-----------------------------------------------------------------------------
(* Segments *)

Received(c) == SubSeq(stream[c], 1, arrived[c])

\* The reply for what the parser says.
AnswerTo(p) ==
    CASE p.result = "good" -> to_buffers(handle_request(p.uri))
      [] p.result = "bad" -> to_buffers(stock_reply(400))
      [] OTHER -> <<>>

StreamTypes ==
    /\ stream \in [Conns -> Seq(Chars)]
    /\ arrived \in [Conns -> Nat] /\ \A c \in Conns : arrived[c] <= Len(stream[c])
    /\ parser = [c \in Conns |-> parser[c]]
    /\ reply = [c \in Conns |-> reply[c]]

\* The parser is where it would be had all come at once, and the reply is its answer.
SegmentsInv ==
    \A c \in Conns :
        /\ parser[c] = parse(NewParser, Received(c))
        /\ reply[c] # <<>> => reply[c] = AnswerTo(parser[c])
        /\ op[c] = "read" => parser[c].result = "indeterminate"
        /\ op[c] = "backlog" \/ Starts(c) => parser[c] = NewParser

\* The characters of two reads, one after the other.
LEMMA NextSegment ==
    ASSUME NEW s \in Seq(Chars), NEW a \in Nat, NEW n \in Nat, a + n <= Len(s)
    PROVE  /\ SubSeq(s, 1, a) \in Seq(Chars) /\ SubSeq(s, a + 1, a + n) \in Seq(Chars)
           /\ SubSeq(s, 1, a) \o SubSeq(s, a + 1, a + n) = SubSeq(s, 1, a + n)
  <1>1. PICK u : u = SubSeq(s, 1, a)
    OBVIOUS
  <1>2. PICK v : v = SubSeq(s, a + 1, a + n)
    OBVIOUS
  <1>3. PICK w : w = SubSeq(s, 1, a + n)
    OBVIOUS
  <1>4. /\ u \in Seq(Chars) /\ Len(u) = a /\ \A i \in 1..a : u[i] = s[i]
    BY <1>1
  <1>5. /\ v \in Seq(Chars) /\ Len(v) = n /\ \A i \in 1..n : v[i] = s[a + i]
    <2>1. v = [i \in 1..n |-> s[a + i]]
      BY <1>2
    <2>2. \A i \in 1..n : s[a + i] \in Chars
      OBVIOUS
    <2> QED
      BY <2>1, <2>2
  <1>6. /\ w \in Seq(Chars) /\ Len(w) = a + n /\ \A i \in 1..(a + n) : w[i] = s[i]
    BY <1>3
  <1>7. /\ u \o v \in Seq(Chars) /\ Len(u \o v) = a + n
        /\ \A i \in 1..(a + n) : (u \o v)[i] = s[i]
    <2>1. u \o v \in Seq(Chars) /\ Len(u \o v) = a + n
      BY <1>4, <1>5, ConcatProperties
    <2>2. ASSUME NEW i \in 1..(a + n) PROVE (u \o v)[i] = s[i]
      <3>1. CASE i <= a
        BY <1>4, <1>5, <3>1
      <3>2. CASE ~(i <= a)
        <4>1. i - a \in 1..n /\ a + (i - a) = i
          BY <3>2
        <4>2. (u \o v)[i] = v[i - a]
          BY <1>4, <1>5, <3>2
        <4> QED
          BY <1>5, <4>1, <4>2
      <3> QED
        BY <3>1, <3>2
    <2> QED
      BY <2>1, <2>2
  <1>8. u \o v = w
    BY <1>6, <1>7, SeqEqual
  <1> QED
    BY <1>1, <1>2, <1>3, <1>4, <1>5, <1>8

\* Nothing has been read or parsed at the start.
LEMMA InitSegments == Init => StreamTypes /\ SegmentsInv
  <1> SUFFICES ASSUME Init PROVE StreamTypes /\ SegmentsInv
    OBVIOUS
  <1>1. StreamTypes
    BY SentAssumption DEF Init, StreamTypes
  <1>2. ASSUME NEW c \in Conns PROVE Received(c) = <<>>
    BY <1>1 DEF Init, Received, StreamTypes
  <1>3. SegmentsInv
    BY <1>2, NothingParsed DEF Init, SegmentsInv, NewParser
  <1> QED
    BY <1>1, <1>3

\* Every handler keeps the parser where one read of everything would have left it.
LEMMA SegmentsStep == ConnTypes /\ StreamTypes /\ SegmentsInv /\ [Next]_vars
                      => StreamTypes' /\ SegmentsInv'
  <1> SUFFICES ASSUME ConnTypes, StreamTypes, SegmentsInv, [Next]_vars
               PROVE  StreamTypes' /\ SegmentsInv'
    OBVIOUS
  <1>1. ASSUME NEW c \in Conns, NEW n, ReadDone(c, n) PROVE StreamTypes' /\ SegmentsInv'
    <2>1. PICK p : p = parse(parser[c], SubSeq(stream[c], arrived[c] + 1, arrived[c] + n))
      OBVIOUS
    <2>2. /\ n \in 1..(Len(stream[c]) - arrived[c]) /\ op[c] = "read" /\ io = Idle
          /\ arrived' = [arrived EXCEPT ![c] = arrived[c] + n]
          /\ parser' = [parser EXCEPT ![c] = p]
          /\ reply' = [reply EXCEPT ![c] = AnswerTo(p)]
          /\ op' = [op EXCEPT ![c] = IF p.result = "indeterminate" THEN "read" ELSE "write"]
          /\ stream' = stream /\ io' = io
      BY <1>1, <2>1 DEF ReadDone, ReadCompletes, Serving, AnswerTo
    <2>3. stream[c] \in Seq(Chars) /\ arrived[c] \in Nat /\ Len(stream[c]) \in Nat
          /\ n \in Nat /\ arrived[c] + n <= Len(stream[c])
      BY <2>2 DEF StreamTypes
    <2>4. StreamTypes'
      <3>1. arrived' \in [Conns -> Nat] /\ \A d \in Conns : arrived'[d] <= Len(stream'[d])
        <4>1. arrived[c] + n \in Nat
          BY <2>3
        <4> QED
          BY <2>2, <2>3, <4>1 DEF StreamTypes
      <3>2. /\ parser' = [d \in Conns |-> parser'[d]]
            /\ reply' = [d \in Conns |-> reply'[d]]
        BY <2>2 DEF StreamTypes
      <3> QED
        BY <2>2, <3>1, <3>2 DEF StreamTypes
    <2>5. /\ arrived'[c] = arrived[c] + n /\ parser'[c] = p /\ reply'[c] = AnswerTo(p)
          /\ op'[c] = (IF p.result = "indeterminate" THEN "read" ELSE "write")
          /\ \A d \in Conns \ {c} : /\ arrived'[d] = arrived[d] /\ parser'[d] = parser[d]
                                    /\ reply'[d] = reply[d] /\ op'[d] = op[d]
      BY <2>2 DEF StreamTypes, ConnTypes
    <2>6. p = parse(NewParser, SubSeq(stream[c], 1, arrived[c] + n))
      <3>1. parser[c] = parse(NewParser, SubSeq(stream[c], 1, arrived[c]))
        BY DEF SegmentsInv, Received
      <3>2. PICK u \in Seq(Chars) : u = SubSeq(stream[c], 1, arrived[c])
        BY <2>3, NextSegment
      <3>3. PICK v \in Seq(Chars) : v = SubSeq(stream[c], arrived[c] + 1, arrived[c] + n)
        BY <2>3, NextSegment
      <3>4. u \o v = SubSeq(stream[c], 1, arrived[c] + n)
        BY <2>3, <3>2, <3>3, NextSegment
      <3>5. parse(parse(NewParser, u), v) = parse(NewParser, u \o v)
        BY TwoSegments
      <3> QED
        BY <2>1, <3>1, <3>2, <3>3, <3>4, <3>5
    <2>7. ~Starts(c)'
      BY <2>2 DEF Starts, Idle
    <2>8. \A d \in Conns : Starts(d)' <=> Starts(d)
      BY <2>2 DEF Starts
    <2>9. SegmentsInv'
      BY <2>2, <2>5, <2>6, <2>7, <2>8 DEF SegmentsInv, Received
    <2> QED
      BY <2>4, <2>9
  <1>2. ASSUME UNCHANGED <<stream, arrived, parser>>,
               reply' = [c \in Conns |-> reply'[c]],
               \A c \in Conns : /\ reply'[c] = reply[c] \/ reply'[c] = <<>>
                                /\ op'[c] = "read" => op[c] = "read" \/ Starts(c)
                                /\ op'[c] = "backlog" => op[c] = "backlog"
                                /\ Starts(c)' => op[c] = "backlog" \/ Starts(c)
        PROVE  StreamTypes' /\ SegmentsInv'
    <2>1. StreamTypes'
      BY <1>2 DEF StreamTypes
    <2>2. NewParser.result = "indeterminate"
      BY DEF NewParser
    <2>3. \A c \in Conns : Received(c)' = Received(c)
      BY <1>2 DEF Received
    <2>4. SegmentsInv'
      BY <1>2, <2>2, <2>3 DEF SegmentsInv
    <2> QED
      BY <2>1, <2>4
  <1>3. ASSUME NEW c \in Conns, AcceptDone(c) PROVE StreamTypes' /\ SegmentsInv'
    BY <1>2, <1>3, IoCalls DEF AcceptDone, clientVars, ConnTypes, StreamTypes, Starts, Serving
  <1>4. ASSUME NEW c \in Conns, ReadFailed(c) PROVE StreamTypes' /\ SegmentsInv'
    BY <1>2, <1>4 DEF ReadFailed, clientVars, ConnTypes, StreamTypes, Starts
  <1>5. ASSUME NEW c \in Conns, WriteDone(c) PROVE StreamTypes' /\ SegmentsInv'
    BY <1>2, <1>5 DEF WriteDone, ConnTypes, StreamTypes, Starts
  <1>6. CASE ManagerStart
    BY <1>2, <1>6, IoCalls DEF ManagerStart, clientVars, ConnTypes, StreamTypes, Starts
  <1>7. CASE ManagerStop \/ RunReturns
    BY <1>2, <1>7, IoCalls DEF ManagerStop, RunReturns, clientVars, ConnTypes, StreamTypes, Starts
  <1>8. CASE StopService \/ CloseAcceptor \/ StopAll \/ StopAllRaces
    BY <1>2, <1>8, IoCalls DEF StopService, CloseAcceptor, StopAll, StopAllRaces, clientVars,
       ConnTypes, StreamTypes, Starts
  <1>9. CASE UNCHANGED vars
    BY <1>2, <1>9 DEF vars, StreamTypes, Starts
  <1> QED
    BY <1>1, <1>3, <1>4, <1>5, <1>6, <1>7, <1>8, <1>9 DEF Next

-----------------------------------------------------------------------------
(* The parser and the grammar *)

\* Characters that end a class are not in it.
LEMMA Classes ==
    /\ \A x \in Token : x \notin {" ", "TAB", ":", "CR", "LF"}
    /\ \A x \in NotCtl : x \notin {"TAB", "CR", "LF"}
    /\ \A x \in Digits : x \notin {".", "CR", "LF", " "}
  BY DEF Token, NotCtl, Digits, Chars, Letters, TSpecials, Ctls, NotAscii

UriChars == NotCtl \ {" "}
Blanks == {" ", "TAB"}

\* The character ch takes the parser p to the state y.
Edge(p, ch, y) == \E m \in Moves(p) : ch \in m[1] /\ m[2] = y

\* A state with one move.
LEMMA OneEdge ==
    ASSUME NEW p, NEW ch, NEW y, NEW A, NEW a, Moves(p) = {<<A, a>>}
    PROVE  Edge(p, ch, y) <=> ch \in A /\ y = a
  BY DEF Edge

\* The two tables, read as edges.
LEMMA Edges ==
    ASSUME NEW p, NEW ch, NEW y
    PROVE  /\ p.state = "method_start" =>
                (Edge(p, ch, y) <=> ch \in Token /\ y = "method")
           /\ p.state = "method" =>
                (Edge(p, ch, y) <=> \/ ch \in {" "} /\ y = "uri"
                                    \/ ch \in Token /\ y = "method")
           /\ p.state = "uri" =>
                (Edge(p, ch, y) <=> \/ ch \in {" "} /\ y = "http_version_h"
                                    \/ ch \in UriChars /\ y = "uri")
           /\ p.state = "http_version_h" =>
                (Edge(p, ch, y) <=> ch \in {"H"} /\ y = "http_version_t_1")
           /\ p.state = "http_version_t_1" =>
                (Edge(p, ch, y) <=> ch \in {"T"} /\ y = "http_version_t_2")
           /\ p.state = "http_version_t_2" =>
                (Edge(p, ch, y) <=> ch \in {"T"} /\ y = "http_version_p")
           /\ p.state = "http_version_p" =>
                (Edge(p, ch, y) <=> ch \in {"P"} /\ y = "http_version_slash")
           /\ p.state = "http_version_slash" =>
                (Edge(p, ch, y) <=> ch \in {"/"} /\ y = "http_version_major_start")
           /\ p.state = "http_version_major_start" =>
                (Edge(p, ch, y) <=> ch \in Digits /\ y = "http_version_major")
           /\ p.state = "http_version_major" =>
                (Edge(p, ch, y) <=> \/ ch \in {"."} /\ y = "http_version_minor_start"
                                    \/ ch \in Digits /\ y = "http_version_major")
           /\ p.state = "http_version_minor_start" =>
                (Edge(p, ch, y) <=> ch \in Digits /\ y = "http_version_minor")
           /\ p.state = "http_version_minor" =>
                (Edge(p, ch, y) <=> \/ ch \in {"CR"} /\ y = "expecting_newline_1"
                                    \/ ch \in Digits /\ y = "http_version_minor")
           /\ p.state = "expecting_newline_1" =>
                (Edge(p, ch, y) <=> ch \in {"LF"} /\ y = "header_line_start")
           /\ p.state = "header_line_start" =>
                (Edge(p, ch, y) <=> \/ ch \in {"CR"} /\ y = "expecting_newline_3"
                                    \/ ch \in Token /\ y = "header_name"
                                    \/ ch \in (IF p.anyHeader THEN Blanks ELSE {}) /\ y = "header_lws")
           /\ p.state = "header_lws" =>
                (Edge(p, ch, y) <=> \/ ch \in {"CR"} /\ y = "expecting_newline_2"
                                    \/ ch \in Blanks /\ y = "header_lws"
                                    \/ ch \in UriChars /\ y = "header_value")
           /\ p.state = "header_name" =>
                (Edge(p, ch, y) <=> \/ ch \in {":"} /\ y = "space_before_header_value"
                                    \/ ch \in Token /\ y = "header_name")
           /\ p.state = "space_before_header_value" =>
                (Edge(p, ch, y) <=> ch \in {" "} /\ y = "header_value")
           /\ p.state = "header_value" =>
                (Edge(p, ch, y) <=> \/ ch \in {"CR"} /\ y = "expecting_newline_2"
                                    \/ ch \in NotCtl /\ y = "header_value")
           /\ p.state = "expecting_newline_2" =>
                (Edge(p, ch, y) <=> ch \in {"LF"} /\ y = "header_line_start")
           /\ p.state = "expecting_newline_3" =>
                (Edge(p, ch, y) <=> ch \in {"LF"} /\ y = "done")
  <1>1. DOMAIN RequestLineMoves =
           {"method_start", "method", "uri", "http_version_h", "http_version_t_1",
            "http_version_t_2", "http_version_p", "http_version_slash",
            "http_version_major_start", "http_version_major", "http_version_minor_start",
            "http_version_minor", "expecting_newline_1"}
    BY DEF RequestLineMoves
  <1>2. ASSUME NEW x \in DOMAIN RequestLineMoves, p.state = x PROVE Moves(p) = RequestLineMoves[x]
    BY <1>2 DEF Moves
  <1>3. ASSUME NEW x, x \notin DOMAIN RequestLineMoves, p.state = x
        PROVE  Moves(p) = HeaderMoves(p.anyHeader)[x]
    BY <1>3 DEF Moves
  <1>4. CASE p.state = "method_start"
    <2>1. Moves(p) = RequestLineMoves["method_start"]
      BY <1>1, <1>4, <1>2
    <2>2. Moves(p) = {<<Token, "method">>}
      BY <2>1 DEF RequestLineMoves
    <2>3. Edge(p, ch, y) <=> ch \in Token /\ y = "method"
      BY <2>2 DEF Edge
    <2> QED
      BY <1>4, <2>3
  <1>5. CASE p.state = "method"
    <2>1. Moves(p) = RequestLineMoves["method"]
      BY <1>1, <1>5, <1>2
    <2>2. Moves(p) = {<<{" "}, "uri">>, <<Token, "method">>}
      BY <2>1 DEF RequestLineMoves
    <2>3. Edge(p, ch, y) <=> (ch \in {" "} /\ y = "uri") \/ (ch \in Token /\ y = "method")
      <3>1. PICK A : A = {" "}
        OBVIOUS
      <3>2. Moves(p) = {<<A, "uri">>, <<Token, "method">>}
        BY <2>2, <3>1
      <3>3. Edge(p, ch, y) <=> (ch \in A /\ y = "uri") \/ (ch \in Token /\ y = "method")
        BY <3>2 DEF Edge
      <3> QED
        BY <3>1, <3>3
    <2> QED
      BY <1>5, <2>3
  <1>6. CASE p.state = "uri"
    <2>1. Moves(p) = RequestLineMoves["uri"]
      BY <1>1, <1>6, <1>2
    <2>2. Moves(p) = {<<{" "}, "http_version_h">>, <<UriChars, "uri">>}
      BY <2>1 DEF RequestLineMoves, UriChars
    <2>3. Edge(p, ch, y) <=> (ch \in {" "} /\ y = "http_version_h") \/ (ch \in UriChars /\ y = "uri")
      <3>1. PICK A : A = {" "}
        OBVIOUS
      <3>2. Moves(p) = {<<A, "http_version_h">>, <<UriChars, "uri">>}
        BY <2>2, <3>1
      <3>3. Edge(p, ch, y) <=> (ch \in A /\ y = "http_version_h") \/ (ch \in UriChars /\ y = "uri")
        BY <3>2 DEF Edge
      <3> QED
        BY <3>1, <3>3
    <2> QED
      BY <1>6, <2>3
  <1>7. CASE p.state = "http_version_h"
    <2>1. Moves(p) = RequestLineMoves["http_version_h"]
      BY <1>1, <1>7, <1>2
    <2>2. Moves(p) = {<<{"H"}, "http_version_t_1">>}
      BY <2>1 DEF RequestLineMoves
    <2>3. Edge(p, ch, y) <=> ch \in {"H"} /\ y = "http_version_t_1"
      BY <2>2 DEF Edge
    <2> QED
      BY <1>7, <2>3
  <1>8. CASE p.state = "http_version_t_1"
    <2>1. Moves(p) = RequestLineMoves["http_version_t_1"]
      BY <1>1, <1>8, <1>2
    <2>2. Moves(p) = {<<{"T"}, "http_version_t_2">>}
      BY <2>1 DEF RequestLineMoves
    <2>3. Edge(p, ch, y) <=> ch \in {"T"} /\ y = "http_version_t_2"
      BY <2>2 DEF Edge
    <2> QED
      BY <1>8, <2>3
  <1>9. CASE p.state = "http_version_t_2"
    <2>1. Moves(p) = RequestLineMoves["http_version_t_2"]
      BY <1>1, <1>9, <1>2
    <2>2. Moves(p) = {<<{"T"}, "http_version_p">>}
      BY <2>1 DEF RequestLineMoves
    <2>3. Edge(p, ch, y) <=> ch \in {"T"} /\ y = "http_version_p"
      BY <2>2 DEF Edge
    <2> QED
      BY <1>9, <2>3
  <1>10. CASE p.state = "http_version_p"
    <2>1. Moves(p) = RequestLineMoves["http_version_p"]
      BY <1>1, <1>10, <1>2
    <2>2. Moves(p) = {<<{"P"}, "http_version_slash">>}
      BY <2>1 DEF RequestLineMoves
    <2>3. Edge(p, ch, y) <=> ch \in {"P"} /\ y = "http_version_slash"
      BY <2>2 DEF Edge
    <2> QED
      BY <1>10, <2>3
  <1>11. CASE p.state = "http_version_slash"
    <2>1. Moves(p) = RequestLineMoves["http_version_slash"]
      BY <1>1, <1>11, <1>2
    <2>2. Moves(p) = {<<{"/"}, "http_version_major_start">>}
      BY <2>1 DEF RequestLineMoves
    <2>3. Edge(p, ch, y) <=> ch \in {"/"} /\ y = "http_version_major_start"
      BY <2>2 DEF Edge
    <2> QED
      BY <1>11, <2>3
  <1>12. CASE p.state = "http_version_major_start"
    <2>1. Moves(p) = RequestLineMoves["http_version_major_start"]
      BY <1>1, <1>12, <1>2
    <2>2. Moves(p) = {<<Digits, "http_version_major">>}
      BY <2>1 DEF RequestLineMoves
    <2>3. Edge(p, ch, y) <=> ch \in Digits /\ y = "http_version_major"
      BY <2>2 DEF Edge
    <2> QED
      BY <1>12, <2>3
  <1>13. CASE p.state = "http_version_major"
    <2>1. Moves(p) = RequestLineMoves["http_version_major"]
      BY <1>1, <1>13, <1>2
    <2>2. Moves(p) = {<<{"."}, "http_version_minor_start">>, <<Digits, "http_version_major">>}
      BY <2>1 DEF RequestLineMoves
    <2>3. Edge(p, ch, y) <=> (ch \in {"."} /\ y = "http_version_minor_start") \/ (ch \in Digits /\ y = "http_version_major")
      BY <2>2 DEF Edge
    <2> QED
      BY <1>13, <2>3
  <1>14. CASE p.state = "http_version_minor_start"
    <2>1. Moves(p) = RequestLineMoves["http_version_minor_start"]
      BY <1>1, <1>14, <1>2
    <2>2. Moves(p) = {<<Digits, "http_version_minor">>}
      BY <2>1 DEF RequestLineMoves
    <2>3. Edge(p, ch, y) <=> ch \in Digits /\ y = "http_version_minor"
      BY <2>2 DEF Edge
    <2> QED
      BY <1>14, <2>3
  <1>15. CASE p.state = "http_version_minor"
    <2>1. Moves(p) = RequestLineMoves["http_version_minor"]
      BY <1>1, <1>15, <1>2
    <2>2. Moves(p) = {<<{"CR"}, "expecting_newline_1">>, <<Digits, "http_version_minor">>}
      BY <2>1 DEF RequestLineMoves
    <2>3. Edge(p, ch, y) <=> (ch \in {"CR"} /\ y = "expecting_newline_1") \/ (ch \in Digits /\ y = "http_version_minor")
      BY <2>2 DEF Edge
    <2> QED
      BY <1>15, <2>3
  <1>16. CASE p.state = "expecting_newline_1"
    <2>1. Moves(p) = RequestLineMoves["expecting_newline_1"]
      BY <1>1, <1>16, <1>2
    <2>2. Moves(p) = {<<{"LF"}, "header_line_start">>}
      BY <2>1 DEF RequestLineMoves
    <2>3. Edge(p, ch, y) <=> ch \in {"LF"} /\ y = "header_line_start"
      BY <2>2 DEF Edge
    <2> QED
      BY <1>16, <2>3
  <1>17. CASE p.state = "header_line_start"
    <2>1. Moves(p) = HeaderMoves(p.anyHeader)["header_line_start"]
      BY <1>1, <1>17, <1>3
    <2>2. Moves(p) = {<<{"CR"}, "expecting_newline_3">>, <<Token, "header_name">>, <<IF p.anyHeader THEN Blanks ELSE {}, "header_lws">>}
      BY <2>1 DEF HeaderMoves, Blanks
    <2>3. Edge(p, ch, y) <=> (ch \in {"CR"} /\ y = "expecting_newline_3") \/ (ch \in Token /\ y = "header_name") \/ (ch \in (IF p.anyHeader THEN Blanks ELSE {}) /\ y = "header_lws")
      BY <2>2 DEF Edge
    <2> QED
      BY <1>17, <2>3
  <1>18. CASE p.state = "header_lws"
    <2>1. Moves(p) = HeaderMoves(p.anyHeader)["header_lws"]
      BY <1>1, <1>18, <1>3
    <2>2. Moves(p) = {<<{"CR"}, "expecting_newline_2">>, <<Blanks, "header_lws">>, <<UriChars, "header_value">>}
      BY <2>1 DEF HeaderMoves, Blanks, UriChars
    <2>3. Edge(p, ch, y) <=> (ch \in {"CR"} /\ y = "expecting_newline_2") \/ (ch \in Blanks /\ y = "header_lws") \/ (ch \in UriChars /\ y = "header_value")
      BY <2>2 DEF Edge
    <2> QED
      BY <1>18, <2>3
  <1>19. CASE p.state = "header_name"
    <2>1. Moves(p) = HeaderMoves(p.anyHeader)["header_name"]
      BY <1>1, <1>19, <1>3
    <2>2. Moves(p) = {<<{":"}, "space_before_header_value">>, <<Token, "header_name">>}
      BY <2>1 DEF HeaderMoves
    <2>3. Edge(p, ch, y) <=> (ch \in {":"} /\ y = "space_before_header_value") \/ (ch \in Token /\ y = "header_name")
      BY <2>2 DEF Edge
    <2> QED
      BY <1>19, <2>3
  <1>20. CASE p.state = "space_before_header_value"
    <2>1. Moves(p) = HeaderMoves(p.anyHeader)["space_before_header_value"]
      BY <1>1, <1>20, <1>3
    <2>2. Moves(p) = {<<{" "}, "header_value">>}
      BY <2>1 DEF HeaderMoves
    <2>3. Edge(p, ch, y) <=> ch \in {" "} /\ y = "header_value"
      BY <2>2, OneEdge
    <2> QED
      BY <1>20, <2>3
  <1>21. CASE p.state = "header_value"
    <2>1. Moves(p) = HeaderMoves(p.anyHeader)["header_value"]
      BY <1>1, <1>21, <1>3
    <2>2. Moves(p) = {<<{"CR"}, "expecting_newline_2">>, <<NotCtl, "header_value">>}
      BY <2>1 DEF HeaderMoves
    <2>3. Edge(p, ch, y) <=> (ch \in {"CR"} /\ y = "expecting_newline_2") \/ (ch \in NotCtl /\ y = "header_value")
      BY <2>2 DEF Edge
    <2> QED
      BY <1>21, <2>3
  <1>22. CASE p.state = "expecting_newline_2"
    <2>1. Moves(p) = HeaderMoves(p.anyHeader)["expecting_newline_2"]
      BY <1>1, <1>22, <1>3
    <2>2. Moves(p) = {<<{"LF"}, "header_line_start">>}
      BY <2>1 DEF HeaderMoves
    <2>3. Edge(p, ch, y) <=> ch \in {"LF"} /\ y = "header_line_start"
      BY <2>2 DEF Edge
    <2> QED
      BY <1>22, <2>3
  <1>23. CASE p.state = "expecting_newline_3"
    <2>1. Moves(p) = HeaderMoves(p.anyHeader)["expecting_newline_3"]
      BY <1>1, <1>23, <1>3
    <2>2. Moves(p) = {<<{"LF"}, "done">>}
      BY <2>1 DEF HeaderMoves
    <2>3. Edge(p, ch, y) <=> ch \in {"LF"} /\ y = "done"
      BY <2>2 DEF Edge
    <2> QED
      BY <1>23, <2>3
  <1> QED
    BY <1>4, <1>5, <1>6, <1>7, <1>8, <1>9, <1>10, <1>11, <1>12, <1>13, <1>14, <1>15, <1>16, <1>17, <1>18, <1>19, <1>20, <1>21, <1>22, <1>23

\* The lines that have ended by m are good.
GoodUpTo(s, m) == \A b \in 1..m : \A a \in 1..b : IsLine(s, a, b) => IsGoodLine(s, a, b)

\* The i-th character is in the line that began at a, or is the end of the line before.
InLine(s, a, i) ==
    /\ a \in 1..(i + 1)
    /\ a = 1 \/ s[a - 1] = "LF"
    /\ \A k \in a..i : s[k] # "LF"
    /\ GoodUpTo(s, a - 1)

AllIn(s, a, b, S) == \A k \in a..b : s[k] \in S

\* The space at h ends the method; the URI up to i.
UriUpTo(s, h, i, uri) ==
    /\ s[h] = " " /\ AllIn(s, 1, h - 1, Token) /\ AllIn(s, h + 1, i, UriChars)
    /\ uri = SubSeq(s, h + 1, i)

\* The space at j ends the URI.
UriRead(s, j, uri) == s[j] = " " /\ \E h \in 2..(j - 1) : UriUpTo(s, h, j - 1, uri)

\* The first m characters of "HTTP/" follow the URI.
HttpRead(s, j, m) ==
    /\ m > 0 => s[j + 1] = "H"
    /\ m > 1 => s[j + 2] = "T"
    /\ m > 2 => s[j + 3] = "T"
    /\ m > 3 => s[j + 4] = "P"
    /\ m > 4 => s[j + 5] = "/"

\* The version up to i, its point at d.
VersionRead(s, j, d, i) ==
    /\ HttpRead(s, j, 5)
    /\ d > j + 6 /\ d <= i /\ s[d] = "."
    /\ AllIn(s, j + 6, d - 1, Digits) /\ AllIn(s, d + 1, i, Digits)

\* What each state of the parser says of the request line.
MethodAt(s, i, p) ==
    \/ p.state = "method_start" /\ i = 0
    \/ p.state = "method" /\ i > 0 /\ AllIn(s, 1, i, Token)

UriAt(s, i, p) == p.state = "uri" /\ \E h \in 2..i : UriUpTo(s, h, i, p.uri)

HttpAt(s, j, i, p) ==
    \/ p.state = "http_version_h" /\ i = j
    \/ p.state = "http_version_t_1" /\ i = j + 1 /\ HttpRead(s, j, 1)
    \/ p.state = "http_version_t_2" /\ i = j + 2 /\ HttpRead(s, j, 2)
    \/ p.state = "http_version_p" /\ i = j + 3 /\ HttpRead(s, j, 3)
    \/ p.state = "http_version_slash" /\ i = j + 4 /\ HttpRead(s, j, 4)
    \/ p.state = "http_version_major_start" /\ i = j + 5 /\ HttpRead(s, j, 5)

NumbersAt(s, j, i, p) ==
    \/ /\ p.state = "http_version_major" /\ i > j + 5
       /\ HttpRead(s, j, 5) /\ AllIn(s, j + 6, i, Digits)
    \/ p.state = "http_version_minor_start" /\ VersionRead(s, j, i, i)
    \/ p.state = "http_version_minor" /\ \E d \in 1..(i - 1) : VersionRead(s, j, d, i)
    \/ /\ p.state = "expecting_newline_1" /\ s[i] = "CR"
       /\ \E d \in 1..(i - 2) : VersionRead(s, j, d, i - 1)

RequestLineAt(s, i, p) ==
    \/ p.uri = <<>> /\ MethodAt(s, i, p)
    \/ UriAt(s, i, p)
    \/ \E j \in 1..i : UriRead(s, j, p.uri) /\ (HttpAt(s, j, i, p) \/ NumbersAt(s, j, i, p))

\* A line before the one that begins at a was a header.
Later(s, a) == \E k \in 1..(a - 2) : s[k] = "LF"

\* A line that continues a header has come to its text.
TextAt(s, a, i) ==
    \E c \in a..(i - 1) :
        AllIn(s, a, c, Blanks) /\ s[c + 1] # " " /\ AllIn(s, c + 1, i, NotCtl)

\* What each state says of a header line.
HeaderAt(s, a, i, p) ==
    \/ p.state = "header_name" /\ i >= a /\ AllIn(s, a, i, Token)
    \/ /\ p.state = "space_before_header_value" /\ i > a /\ s[i] = ":"
       /\ AllIn(s, a, i - 1, Token)
    \/ p.state = "header_value" /\ IsHeader(s, a, i)

ContinuationAt(s, a, i, p) ==
    /\ Later(s, a)
    /\ \/ p.state = "header_lws" /\ i >= a /\ AllIn(s, a, i, Blanks)
       \/ p.state = "header_value" /\ TextAt(s, a, i)

HeaderEndAt(s, a, i, p) ==
    /\ p.state = "expecting_newline_2" /\ s[i] = "CR" /\ i > a
    /\ IsHeader(s, a, i - 1) \/ (Later(s, a) /\ IsContinuation(s, a, i - 1))

LineStartAt(s, a, i, p) ==
    /\ p.state = "header_line_start" /\ i = a - 1
    /\ p.anyHeader \in BOOLEAN /\ (p.anyHeader = TRUE <=> Later(s, a))

LastLineAt(s, a, i, p) == p.state = "expecting_newline_3" /\ i = a /\ s[i] = "CR"

HeadersAt(s, a, i, p) ==
    \/ LineStartAt(s, a, i, p)
    \/ LastLineAt(s, a, i, p)
    \/ p.anyHeader = TRUE /\ (\/ HeaderAt(s, a, i, p)
                              \/ ContinuationAt(s, a, i, p)
                              \/ HeaderEndAt(s, a, i, p))

IsParser(p) ==
    p = [state |-> p.state, uri |-> p.uri, anyHeader |-> p.anyHeader, result |-> p.result]

\* Where the parser is after i characters without a verdict.
Where(s, i, p) ==
    /\ IsParser(p) /\ p.result = "indeterminate"
    /\ \/ p.anyHeader = FALSE /\ InLine(s, 1, i) /\ RequestLineAt(s, i, p)
       \/ /\ \E j \in 1..i : UriRead(s, j, p.uri)
          /\ \E a \in 2..(i + 1) : InLine(s, a, i) /\ HeadersAt(s, a, i, p)

\* The parser p takes the character ch and becomes q.
Takes(p, ch, q) ==
    /\ IsParser(q) /\ Edge(p, ch, q.state)
    /\ q.uri = IF p.state = "uri" /\ q.state = "uri" THEN Append(p.uri, ch) ELSE p.uri
    /\ q.anyHeader = (p.anyHeader \/ (p.state = "header_line_start" /\ q.state = "header_name"))
    /\ q.result = IF q.state = "done" THEN "good" ELSE "indeterminate"

\* The ranges that grow by one character.
LEMMA OneMore ==
    ASSUME NEW s, NEW a \in Int, NEW i \in Int, NEW S
    PROVE  /\ AllIn(s, a, i, S) /\ s[i + 1] \in S => AllIn(s, a, i + 1, S)
           /\ i < a => AllIn(s, a, i, S)
  BY DEF AllIn

\* A character that is not a line feed stays in the line.
LEMMA SameLine ==
    ASSUME NEW s, NEW i \in Nat, NEW a \in Nat, InLine(s, a, i), s[i + 1] # "LF"
    PROVE  InLine(s, a, i + 1)
  <1>1. \A k \in a..(i + 1) : k \in a..i \/ k = i + 1
    OBVIOUS
  <1>2. a \in 1..((i + 1) + 1)
    BY DEF InLine
  <1> QED
    BY <1>1, <1>2 DEF InLine

\* The line feed of a good line begins the next.
LEMMA EndOfLine ==
    ASSUME NEW s, NEW i \in Nat, NEW a \in Nat, InLine(s, a, i), s[i + 1] = "LF",
           IsGoodLine(s, a, i + 1)
    PROVE  InLine(s, i + 2, i + 1)
  <1>1. ASSUME NEW b \in 1..(i + 1), NEW c \in 1..b, IsLine(s, c, b)
        PROVE  IsGoodLine(s, c, b)
    <2>1. CASE b \in 1..(a - 1)
      BY <1>1, <2>1 DEF InLine, GoodUpTo
    <2>2. CASE b \in a..i
      BY <1>1, <2>2 DEF InLine, IsLine
    <2>3. CASE b = i + 1
      <3>1. ~(c < a)
        <4> SUFFICES ASSUME c < a PROVE FALSE
          OBVIOUS
        <4>1. a - 1 \in c..(b - 1) /\ s[a - 1] = "LF"
          BY <2>3 DEF InLine
        <4> QED
          BY <1>1, <4>1 DEF IsLine
      <3>2. ~(c > a)
        <4> SUFFICES ASSUME c > a PROVE FALSE
          OBVIOUS
        <4>1. c - 1 \in a..i /\ s[c - 1] = "LF"
          BY <1>1, <2>3 DEF InLine, IsLine
        <4> QED
          BY <4>1 DEF InLine
      <3>3. c = a
        BY <3>1, <3>2
      <3> QED
        BY <2>3, <3>3
    <2>4. a \in 1..(i + 1)
      BY DEF InLine
    <2> QED
      BY <2>1, <2>2, <2>3, <2>4
  <1>2. GoodUpTo(s, (i + 2) - 1)
    <2>1. (i + 2) - 1 = i + 1
      OBVIOUS
    <2> QED
      BY <1>1, <2>1 DEF GoodUpTo
  <1> QED
    BY <1>2 DEF InLine

\* A character takes the parser along a move of its state, or the request is bad.
LEMMA ConsumeMoves ==
    ASSUME NEW p, NEW ch, IsParser(p)
    PROVE  \/ consume(p, ch).result = "bad" /\ \A y : ~Edge(p, ch, y)
           \/ Takes(p, ch, consume(p, ch))
  <1> DEFINE to == {m[2] : m \in {m \in Moves(p) : ch \in m[1]}}
  <1>1. CASE to = {}
    <2>1. \A y : ~Edge(p, ch, y)
      BY <1>1 DEF Edge
    <2>2. consume(p, ch) = [p EXCEPT !.result = "bad"]
      BY <1>1 DEF consume
    <2>3. [p EXCEPT !.result = "bad"].result = "bad"
      BY DEF IsParser
    <2> QED
      BY <2>1, <2>2, <2>3
  <1>2. CASE to # {}
    <2>1. PICK y : y = CHOOSE x \in to : TRUE
      OBVIOUS
    <2>2. y \in to
      <3> HIDE DEF to
      <3> QED
        BY <1>2, <2>1
    <2>3. Edge(p, ch, y)
      BY <2>2 DEF Edge
    <2>4. consume(p, ch) =
             [state     |-> y,
              uri       |-> IF p.state = "uri" /\ y = "uri" THEN Append(p.uri, ch) ELSE p.uri,
              anyHeader |-> p.anyHeader \/ (p.state = "header_line_start" /\ y = "header_name"),
              result    |-> IF y = "done" THEN "good" ELSE "indeterminate"]
      BY <1>2, <2>1, Zenon DEF consume
    <2>5. PICK q : q = consume(p, ch)
      OBVIOUS
    <2>6. Takes(p, ch, q)
      BY <2>3, <2>4, <2>5 DEF Takes, IsParser
    <2> QED
      BY <2>5, <2>6
  <1> QED
    BY <1>1, <1>2

\* What it leaves as it was.
LEMMA Kept ==
    ASSUME NEW p, NEW ch, NEW q, Takes(p, ch, q), p.anyHeader \in BOOLEAN
    PROVE  /\ IsParser(q) /\ Edge(p, ch, q.state)
           /\ q.state # "done" => q.result = "indeterminate"
           /\ q.state # "uri" \/ p.state # "uri" => q.uri = p.uri
           /\ p.state # "header_line_start" \/ q.state # "header_name" => q.anyHeader = p.anyHeader
  BY DEF Takes

-----------------------------------------------------------------------------
(* Every move leads to the place its state stands for *)

\* A character of the method, or the space after it.
LEMMA MethodStep ==
    ASSUME NEW s \in Seq(Chars), NEW i \in 0..(Len(s) - 1), NEW p, NEW q,
           p.anyHeader = FALSE, p.uri = <<>>, MethodAt(s, i, p), Takes(p, s[i + 1], q)
    PROVE  s[i + 1] # "LF" /\ q.result = "indeterminate" /\ q.anyHeader = FALSE
           /\ RequestLineAt(s, i + 1, q)
  <1>0. PICK ch : ch = s[i + 1]
    OBVIOUS
  <1>e. Edge(p, ch, q.state)
    BY <1>0 DEF Takes
  <1>1. CASE p.state = "method_start" /\ i = 0
    <2>1. ch \in Token /\ q.state = "method"
      BY <1>e, <1>1, Edges
    <2>2. q.uri = <<>> /\ q.anyHeader = FALSE /\ q.result = "indeterminate"
      BY <1>1, <2>1, Kept
    <2>3. AllIn(s, 1, i + 1, Token) /\ i + 1 > 0
      BY <1>0, <1>1, <2>1 DEF AllIn
    <2> QED
      BY <1>0, <2>1, <2>2, <2>3, Classes DEF RequestLineAt, MethodAt
  <1>2. CASE p.state = "method" /\ i > 0 /\ AllIn(s, 1, i, Token)
    <2>1. \/ ch \in {" "} /\ q.state = "uri"
          \/ ch \in Token /\ q.state = "method"
      BY <1>e, <1>2, Edges
    <2>2. q.uri = <<>> /\ q.anyHeader = FALSE /\ q.result = "indeterminate"
      BY <1>2, <2>1, Kept
    <2>3. CASE ch \in {" "} /\ q.state = "uri"
      <3>1. /\ i + 1 \in 2..(i + 1) /\ SubSeq(s, (i + 1) + 1, i + 1) = <<>> /\ (i + 1) - 1 = i
            /\ AllIn(s, (i + 1) + 1, i + 1, UriChars)
        <4>1. i + 1 \in 2..(i + 1) /\ (i + 1) - 1 = i
          BY <1>2
        <4>2. (i + 1) + 1 \in Int /\ i + 1 \in Int /\ i + 1 < (i + 1) + 1
          OBVIOUS
        <4>3. SubSeq(s, (i + 1) + 1, i + 1) = <<>>
          BY <4>2, SubSeqEmpty
        <4>4. AllIn(s, (i + 1) + 1, i + 1, UriChars)
          BY <4>2 DEF AllIn
        <4> QED
          BY <4>1, <4>3, <4>4
      <3>2. UriUpTo(s, i + 1, i + 1, q.uri)
        BY <1>0, <1>2, <2>2, <2>3, <3>1 DEF UriUpTo
      <3> QED
        BY <1>0, <2>2, <2>3, <3>1, <3>2 DEF RequestLineAt, UriAt
    <2>4. CASE ch \in Token /\ q.state = "method"
      <3>1. AllIn(s, 1, i + 1, Token) /\ i + 1 > 0
        BY <1>0, <1>2, <2>4, OneMore
      <3> QED
        BY <1>0, <2>2, <2>4, <3>1, Classes DEF RequestLineAt, MethodAt
    <2> QED
      BY <2>1, <2>3, <2>4
  <1> QED
    BY <1>1, <1>2 DEF MethodAt

\* A character of the URI, or the space after it.
LEMMA UriStep ==
    ASSUME NEW s \in Seq(Chars), NEW i \in 0..(Len(s) - 1), NEW p, NEW q,
           p.anyHeader = FALSE, UriAt(s, i, p), Takes(p, s[i + 1], q)
    PROVE  s[i + 1] # "LF" /\ q.result = "indeterminate" /\ q.anyHeader = FALSE
           /\ RequestLineAt(s, i + 1, q)
  <1>0. PICK ch : ch = s[i + 1]
    OBVIOUS
  <1>e. Edge(p, ch, q.state)
    BY <1>0 DEF Takes
  <1>1. PICK h \in 2..i : UriUpTo(s, h, i, p.uri)
    BY DEF UriAt
  <1>2. \/ ch \in {" "} /\ q.state = "http_version_h"
        \/ ch \in UriChars /\ q.state = "uri"
    BY <1>e, Edges DEF UriAt
  <1>3. q.anyHeader = FALSE /\ q.result = "indeterminate"
    BY <1>2, Kept
  <1>4. CASE ch \in {" "} /\ q.state = "http_version_h"
    <2>1. q.uri = p.uri
      BY <1>4, Kept
    <2>2. (i + 1) - 1 = i /\ i + 1 \in 1..(i + 1)
      OBVIOUS
    <2>3. UriRead(s, i + 1, q.uri)
      BY <1>0, <1>1, <1>4, <2>1, <2>2 DEF UriRead
    <2>4. HttpAt(s, i + 1, i + 1, q)
      BY <1>4 DEF HttpAt
    <2> QED
      BY <1>0, <1>3, <1>4, <2>2, <2>3, <2>4 DEF RequestLineAt
  <1>5. CASE ch \in UriChars /\ q.state = "uri"
    <2>1. q.uri = Append(p.uri, s[i + 1])
      BY <1>5 DEF Takes, UriAt
    <2>2. AllIn(s, h + 1, i + 1, UriChars)
      <3>1. AllIn(s, h + 1, i, UriChars)
        BY <1>1 DEF UriUpTo
      <3>2. h + 1 \in Int /\ i \in Int
        OBVIOUS
      <3> QED
        BY <1>0, <1>5, <3>1, <3>2, OneMore
    <2>3. Append(SubSeq(s, h + 1, i), s[i + 1]) = SubSeq(s, h + 1, i + 1)
      OBVIOUS
    <2>4. UriUpTo(s, h, i + 1, q.uri)
      BY <1>1, <2>1, <2>2, <2>3 DEF UriUpTo
    <2>5. s[i + 1] # "LF"
      BY <1>0, <1>5, Classes DEF UriChars
    <2>6. h \in 2..(i + 1)
      OBVIOUS
    <2> QED
      BY <1>3, <1>5, <2>4, <2>5, <2>6 DEF RequestLineAt, UriAt
  <1> QED
    BY <1>2, <1>4, <1>5

\* A character of "HTTP/".
LEMMA HttpStep ==
    ASSUME NEW s \in Seq(Chars), NEW i \in 0..(Len(s) - 1), NEW p, NEW q, NEW j \in 1..i,
           p.anyHeader = FALSE, UriRead(s, j, p.uri), HttpAt(s, j, i, p), Takes(p, s[i + 1], q)
    PROVE  s[i + 1] # "LF" /\ q.result = "indeterminate" /\ q.anyHeader = FALSE
           /\ RequestLineAt(s, i + 1, q)
  <1>0. PICK ch : ch = s[i + 1]
    OBVIOUS
  <1>e. Edge(p, ch, q.state)
    BY <1>0 DEF Takes
  <1>1. j \in 1..(i + 1)
    OBVIOUS
  <1>2. SUFFICES /\ ch # "LF" /\ q.state \notin {"done", "uri", "header_name"}
                 /\ HttpAt(s, j, i + 1, q) \/ NumbersAt(s, j, i + 1, q)
    <2>1. q.uri = p.uri /\ q.anyHeader = FALSE /\ q.result = "indeterminate"
      BY <1>2, Kept
    <2> QED
      BY <1>0, <1>1, <1>2, <2>1 DEF RequestLineAt
  <1>3. CASE p.state = "http_version_h" /\ i = j
    <2>1. ch \in {"H"} /\ q.state = "http_version_t_1"
      BY <1>e, <1>3, Edges
    <2> QED
      BY <1>0, <1>3, <2>1 DEF HttpAt, HttpRead
  <1>4. CASE p.state = "http_version_t_1" /\ i = j + 1 /\ HttpRead(s, j, 1)
    <2>1. ch \in {"T"} /\ q.state = "http_version_t_2"
      BY <1>e, <1>4, Edges
    <2> QED
      BY <1>0, <1>4, <2>1 DEF HttpAt, HttpRead
  <1>5. CASE p.state = "http_version_t_2" /\ i = j + 2 /\ HttpRead(s, j, 2)
    <2>1. ch \in {"T"} /\ q.state = "http_version_p"
      BY <1>e, <1>5, Edges
    <2> QED
      BY <1>0, <1>5, <2>1 DEF HttpAt, HttpRead
  <1>6. CASE p.state = "http_version_p" /\ i = j + 3 /\ HttpRead(s, j, 3)
    <2>1. ch \in {"P"} /\ q.state = "http_version_slash"
      BY <1>e, <1>6, Edges
    <2> QED
      BY <1>0, <1>6, <2>1 DEF HttpAt, HttpRead
  <1>7. CASE p.state = "http_version_slash" /\ i = j + 4 /\ HttpRead(s, j, 4)
    <2>1. ch \in {"/"} /\ q.state = "http_version_major_start"
      BY <1>e, <1>7, Edges
    <2> QED
      BY <1>0, <1>7, <2>1 DEF HttpAt, HttpRead
  <1>8. CASE p.state = "http_version_major_start" /\ i = j + 5 /\ HttpRead(s, j, 5)
    <2>1. ch \in Digits /\ q.state = "http_version_major"
      BY <1>e, <1>8, Edges
    <2>2. AllIn(s, j + 6, i + 1, Digits) /\ i + 1 > j + 5
      BY <1>0, <1>8, <2>1 DEF AllIn
    <2> QED
      BY <1>8, <2>1, <2>2, Classes DEF NumbersAt
  <1> QED
    BY <1>3, <1>4, <1>5, <1>6, <1>7, <1>8 DEF HttpAt

\* A method, a URI and a version are a request line.
LEMMA RequestLineRead ==
    ASSUME NEW s, NEW b \in Nat, NEW j \in 1..b, NEW uri, UriRead(s, j, uri),
           NEW d \in 1..(b - 1), VersionRead(s, j, d, b)
    PROVE  IsRequestLine(s, b)
  <1>1. PICK h \in 2..(j - 1) : UriUpTo(s, h, j - 1, uri)
    BY DEF UriRead
  <1>2. IsVersion(s, j + 1, b)
    <2>1. d \in ((j + 1) + 6)..(b - 1)
      BY DEF VersionRead
    <2>2. /\ s[j + 1] = "H" /\ s[(j + 1) + 1] = "T" /\ s[(j + 1) + 2] = "T"
          /\ s[(j + 1) + 3] = "P" /\ s[(j + 1) + 4] = "/" /\ s[d] = "."
      BY DEF VersionRead, HttpRead
    <2>3. ASSUME NEW k \in ((j + 1) + 5)..b, k # d PROVE s[k] \in Digits
      <3>1. k \in (j + 6)..(d - 1) \/ k \in (d + 1)..b
        BY <2>3
      <3> QED
        BY <3>1 DEF VersionRead, AllIn
    <2> QED
      BY <2>1, <2>2, <2>3 DEF IsVersion
  <1>3. h \in 2..b /\ j \in 2..b /\ h < j
    OBVIOUS
  <1>4. /\ s[h] = " " /\ s[j] = " "
        /\ \A k \in 1..(h - 1) : s[k] \in Token
        /\ \A k \in (h + 1)..(j - 1) : s[k] \in NotCtl \ {" "}
    BY <1>1 DEF UriRead, UriUpTo, AllIn, UriChars
  <1> QED
    BY <1>2, <1>3, <1>4 DEF IsRequestLine

\* After a character in the numbers of the version, or the end of the line.
NumbersTaken(s, i, p, q) ==
    /\ q.result = "indeterminate" /\ q.anyHeader = FALSE
    /\ \/ s[i + 1] # "LF" /\ RequestLineAt(s, i + 1, q)
       \/ /\ s[i + 1] = "LF" /\ s[i] = "CR" /\ IsRequestLine(s, i - 1)
          /\ q.state = "header_line_start" /\ q.uri = p.uri

\* A character in the numbers of the version, or the end of the line.
LEMMA NumbersStep ==
    ASSUME NEW s \in Seq(Chars), NEW i \in 0..(Len(s) - 1), NEW p, NEW q, NEW j \in 1..i,
           p.anyHeader = FALSE, UriRead(s, j, p.uri), NumbersAt(s, j, i, p), Takes(p, s[i + 1], q)
    PROVE  NumbersTaken(s, i, p, q)
  <1> USE DEF NumbersTaken
  <1>0. PICK ch : ch = s[i + 1]
    OBVIOUS
  <1>e. Edge(p, ch, q.state)
    BY <1>0 DEF Takes
  <1>1. j \in 1..(i + 1) /\ i \in Int /\ j \in Int
    OBVIOUS
  <1>2. SUFFICES /\ q.state \notin {"done", "uri", "header_name"}
                 /\ \/ ch # "LF" /\ NumbersAt(s, j, i + 1, q)
                    \/ /\ ch = "LF" /\ s[i] = "CR" /\ IsRequestLine(s, i - 1)
                       /\ q.state = "header_line_start"
    <2>1. q.uri = p.uri /\ q.anyHeader = FALSE /\ q.result = "indeterminate"
      BY ZenonT(60), <1>2, Kept
    <2> QED
      BY <1>0, <1>1, <1>2, <2>1 DEF RequestLineAt
  <1>3. CASE p.state = "http_version_major" /\ i > j + 5 /\ HttpRead(s, j, 5)
             /\ AllIn(s, j + 6, i, Digits)
    <2>1. \/ ch \in {"."} /\ q.state = "http_version_minor_start"
          \/ ch \in Digits /\ q.state = "http_version_major"
      BY <1>e, <1>3, Edges
    <2>2. CASE ch \in {"."} /\ q.state = "http_version_minor_start"
      <3>1. (i + 1) - 1 = i /\ AllIn(s, (i + 1) + 1, i + 1, Digits) /\ i + 1 > j + 6
        BY <1>3, OneMore
      <3>2. VersionRead(s, j, i + 1, i + 1)
        BY <1>0, <1>3, <2>2, <3>1 DEF VersionRead
      <3> QED
        BY <2>2, <3>2 DEF NumbersAt
    <2>3. CASE ch \in Digits /\ q.state = "http_version_major"
      <3>1. AllIn(s, j + 6, i + 1, Digits) /\ i + 1 > j + 5
        <4>1. j + 6 \in Int
          OBVIOUS
        <4> QED
          BY <1>0, <1>1, <1>3, <2>3, <4>1, OneMore
      <3> QED
        BY <1>3, <2>3, <3>1, Classes DEF NumbersAt
    <2> QED
      BY <2>1, <2>2, <2>3
  <1>4. CASE p.state = "http_version_minor_start" /\ VersionRead(s, j, i, i)
    <2>1. ch \in Digits /\ q.state = "http_version_minor"
      BY <1>e, <1>4, Edges
    <2>2. AllIn(s, i + 1, i + 1, Digits)
      BY <1>0, <2>1 DEF AllIn
    <2>3. VersionRead(s, j, i, i + 1)
      BY <1>4, <2>2 DEF VersionRead
    <2>4. i \in 1..((i + 1) - 1)
      OBVIOUS
    <2> QED
      BY <2>1, <2>3, <2>4, Classes DEF NumbersAt
  <1>5. ASSUME p.state = "http_version_minor", NEW d \in 1..(i - 1), VersionRead(s, j, d, i)
        PROVE  /\ q.state \notin {"done", "uri", "header_name"}
               /\ ch # "LF" /\ NumbersAt(s, j, i + 1, q)
    <2>1. \/ ch \in {"CR"} /\ q.state = "expecting_newline_1"
          \/ ch \in Digits /\ q.state = "http_version_minor"
      BY <1>e, <1>5, Edges
    <2>2. CASE ch \in {"CR"} /\ q.state = "expecting_newline_1"
      <3>1. (i + 1) - 1 = i /\ d \in 1..((i + 1) - 2)
        OBVIOUS
      <3> QED
        BY <1>0, <1>5, <2>2, <3>1 DEF NumbersAt
    <2>3. CASE ch \in Digits /\ q.state = "http_version_minor"
      <3>1. AllIn(s, d + 1, i + 1, Digits)
        <4>1. d + 1 \in Int /\ AllIn(s, d + 1, i, Digits)
          BY <1>5 DEF VersionRead
        <4> QED
          BY <1>0, <1>1, <2>3, <4>1, OneMore
      <3>2. VersionRead(s, j, d, i + 1)
        BY <1>5, <3>1 DEF VersionRead
      <3>3. d \in 1..((i + 1) - 1)
        OBVIOUS
      <3> QED
        BY <2>3, <3>2, <3>3, Classes DEF NumbersAt
    <2> QED
      BY <2>1, <2>2, <2>3
  <1>6. ASSUME p.state = "expecting_newline_1", s[i] = "CR",
               NEW d \in 1..(i - 2), VersionRead(s, j, d, i - 1)
        PROVE  /\ q.state \notin {"done", "uri", "header_name"}
               /\ ch = "LF" /\ s[i] = "CR" /\ IsRequestLine(s, i - 1)
               /\ q.state = "header_line_start"
    <2>1. ch \in {"LF"} /\ q.state = "header_line_start"
      BY <1>e, <1>6, Edges
    <2>2. i - 1 \in Nat /\ d \in 1..((i - 1) - 1) /\ j \in 1..(i - 1)
      BY <1>6 DEF VersionRead
    <2>3. IsRequestLine(s, i - 1)
      BY <1>6, <2>2, RequestLineRead
    <2> QED
      BY <1>6, <2>1, <2>3
  <1> QED
    BY <1>3, <1>4, <1>5, <1>6 DEF NumbersAt

\* A step on the request line.
LEMMA RequestLineStep ==
    ASSUME NEW s \in Seq(Chars), NEW i \in 0..(Len(s) - 1), NEW p, NEW q,
           p.anyHeader = FALSE, InLine(s, 1, i), RequestLineAt(s, i, p), Takes(p, s[i + 1], q)
    PROVE  Where(s, i + 1, q)
  <1>0. i \in Nat /\ IsParser(q)
    BY DEF Takes
  <1>1. CASE s[i + 1] # "LF" /\ q.result = "indeterminate" /\ q.anyHeader = FALSE
             /\ RequestLineAt(s, i + 1, q)
    <2>1. InLine(s, 1, i + 1)
      BY <1>0, <1>1, SameLine
    <2> QED
      BY <1>0, <1>1, <2>1 DEF Where
  <1>2. ASSUME NEW j \in 1..i, UriRead(s, j, p.uri), NumbersAt(s, j, i, p)
        PROVE  Where(s, i + 1, q)
    <2>1. CASE /\ q.result = "indeterminate" /\ q.anyHeader = FALSE
               /\ s[i + 1] = "LF" /\ s[i] = "CR" /\ IsRequestLine(s, i - 1)
               /\ q.state = "header_line_start" /\ q.uri = p.uri
      <3>1. IsGoodLine(s, 1, i + 1)
        <4>1. (i + 1) - 1 = i /\ (i + 1) - 2 = i - 1 /\ i + 1 > 1
          BY <1>2
        <4> QED
          BY <2>1, <4>1 DEF IsGoodLine
      <3>2. InLine(s, i + 2, i + 1)
        BY <1>0, <2>1, <3>1, EndOfLine
      <3>3. ~Later(s, i + 2)
        <4>1. (i + 2) - 2 = i
          BY <1>0
        <4> QED
          BY <4>1 DEF Later, InLine
      <3>4. LineStartAt(s, i + 2, i + 1, q)
        <4>1. i + 1 = (i + 2) - 1
          BY <1>0
        <4> QED
          BY <2>1, <3>3, <4>1, Zenon DEF LineStartAt
      <3>5. i + 2 \in 2..((i + 1) + 1) /\ j \in 1..(i + 1)
        BY <1>0
      <3> QED
        BY <1>0, <1>2, <2>1, <3>2, <3>4, <3>5 DEF Where, HeadersAt
    <2>2. NumbersTaken(s, i, p, q)
      BY <1>2, NumbersStep
    <2> QED
      BY <1>1, <2>1, <2>2 DEF NumbersTaken
  <1> QED
    BY <1>1, <1>2, MethodStep, UriStep, HttpStep DEF RequestLineAt

\* The first character of a line after the request line.
LEMMA LineStartStep ==
    ASSUME NEW s, NEW i \in Nat, NEW a \in 2..(i + 1), NEW p, NEW q,
           LineStartAt(s, a, i, p), Takes(p, s[i + 1], q)
    PROVE  /\ s[i + 1] # "LF" /\ q.result = "indeterminate" /\ q.uri = p.uri
           /\ HeadersAt(s, a, i + 1, q)
  <1>0. PICK ch : ch = s[i + 1]
    OBVIOUS
  <1>e. Edge(p, ch, q.state)
    BY <1>0 DEF Takes
  <1>1. p.state = "header_line_start" /\ i + 1 = a /\ p.anyHeader \in BOOLEAN
    BY DEF LineStartAt
  <1>2. \/ ch \in {"CR"} /\ q.state = "expecting_newline_3"
        \/ ch \in Token /\ q.state = "header_name"
        \/ ch \in (IF p.anyHeader THEN Blanks ELSE {}) /\ q.state = "header_lws"
    BY <1>e, <1>1, Edges
  <1>3. q.result = "indeterminate" /\ q.uri = p.uri
    BY <1>1, <1>2, Kept
  <1>4. CASE ch \in {"CR"} /\ q.state = "expecting_newline_3"
    <2>1. LastLineAt(s, a, i + 1, q)
      BY <1>0, <1>1, <1>4 DEF LastLineAt
    <2> QED
      BY <1>0, <1>3, <1>4, <2>1 DEF HeadersAt
  <1>5. CASE ch \in Token /\ q.state = "header_name"
    <2>1. AllIn(s, a, i + 1, Token)
      BY <1>0, <1>1, <1>5 DEF AllIn
    <2>2. HeaderAt(s, a, i + 1, q)
      BY <1>1, <1>5, <2>1 DEF HeaderAt
    <2>3. q.anyHeader = TRUE
      BY <1>1, <1>5 DEF Takes
    <2>4. s[i + 1] # "LF"
      BY <1>0, <1>5, Classes
    <2> QED
      BY <1>3, <2>2, <2>3, <2>4 DEF HeadersAt
  <1>6. CASE ch \in (IF p.anyHeader THEN Blanks ELSE {}) /\ q.state = "header_lws"
    <2>1. p.anyHeader = TRUE
      BY <1>1, <1>6
    <2>2. ch \in Blanks
      BY <1>6, <2>1
    <2>3. q.anyHeader = TRUE
      BY <1>1, <1>6, <2>1, Kept
    <2>4. Later(s, a)
      BY <2>1 DEF LineStartAt
    <2>5. AllIn(s, a, i + 1, Blanks)
      BY <1>0, <1>1, <2>2 DEF AllIn
    <2>6. ContinuationAt(s, a, i + 1, q)
      BY <1>1, <1>6, <2>4, <2>5 DEF ContinuationAt
    <2>7. s[i + 1] # "LF"
      BY <1>0, <2>2 DEF Blanks
    <2> QED
      BY <1>3, <2>3, <2>6, <2>7 DEF HeadersAt
  <1> QED
    BY <1>2, <1>4, <1>5, <1>6

\* A character of a header.
LEMMA HeaderStep ==
    ASSUME NEW s, NEW i \in Nat, NEW a \in 2..(i + 1), NEW p, NEW q,
           p.anyHeader = TRUE, HeaderAt(s, a, i, p), Takes(p, s[i + 1], q)
    PROVE  /\ s[i + 1] # "LF" /\ q.result = "indeterminate" /\ q.uri = p.uri
           /\ HeadersAt(s, a, i + 1, q)
  <1>0. PICK ch : ch = s[i + 1]
    OBVIOUS
  <1>e. Edge(p, ch, q.state)
    BY <1>0 DEF Takes
  <1>1. i \in Int /\ a \in Int /\ (i + 1) - 1 = i
    OBVIOUS
  <1>2. SUFFICES /\ q.state \notin {"done", "uri"} /\ ch # "LF" /\ p.state # "header_line_start"
                 /\ HeaderAt(s, a, i + 1, q) \/ HeaderEndAt(s, a, i + 1, q)
    <2>1. q.uri = p.uri /\ q.anyHeader = TRUE /\ q.result = "indeterminate"
      BY <1>2, Kept
    <2> QED
      BY <1>0, <1>2, <2>1 DEF HeadersAt
  <1>3. CASE p.state = "header_name" /\ i >= a /\ AllIn(s, a, i, Token)
    <2>1. \/ ch \in {":"} /\ q.state = "space_before_header_value"
          \/ ch \in Token /\ q.state = "header_name"
      BY <1>e, <1>3, Edges
    <2>2. CASE ch \in {":"} /\ q.state = "space_before_header_value"
      BY <1>0, <1>1, <1>3, <2>2 DEF HeaderAt
    <2>3. CASE ch \in Token /\ q.state = "header_name"
      <3>1. AllIn(s, a, i + 1, Token) /\ i + 1 >= a
        BY <1>0, <1>1, <1>3, <2>3, OneMore
      <3> QED
        BY <1>3, <2>3, <3>1, Classes DEF HeaderAt
    <2> QED
      BY <2>1, <2>2, <2>3
  <1>4. CASE p.state = "space_before_header_value" /\ i > a /\ s[i] = ":"
             /\ AllIn(s, a, i - 1, Token)
    <2>1. ch \in {" "} /\ q.state = "header_value"
      BY <1>e, <1>4, Edges
    <2>2. IsHeader(s, a, i + 1)
      <3>1. i \in (a + 1)..((i + 1) - 1)
        BY <1>4
      <3>2. \A k \in a..(i - 1) : s[k] \in Token
        BY <1>4 DEF AllIn
      <3>3. \A k \in (i + 2)..(i + 1) : s[k] \in NotCtl
        OBVIOUS
      <3> QED
        BY <1>0, <1>4, <2>1, <3>1, <3>2, <3>3 DEF IsHeader
    <2> QED
      BY <1>4, <2>1, <2>2 DEF HeaderAt
  <1>5. CASE p.state = "header_value" /\ IsHeader(s, a, i)
    <2>1. \/ ch \in {"CR"} /\ q.state = "expecting_newline_2"
          \/ ch \in NotCtl /\ q.state = "header_value"
      BY <1>e, <1>5, Edges
    <2>2. CASE ch \in {"CR"} /\ q.state = "expecting_newline_2"
      <3>1. PICK h \in (a + 1)..(i - 1) : TRUE
        BY <1>5 DEF IsHeader
      <3>2. i + 1 > a
        BY <3>1
      <3> QED
        BY <1>0, <1>1, <1>5, <2>2, <3>2 DEF HeaderEndAt
    <2>3. CASE ch \in NotCtl /\ q.state = "header_value"
      <3>1. IsHeader(s, a, i + 1)
        <4>1. PICK h \in (a + 1)..(i - 1) :
                 /\ s[h] = ":" /\ s[h + 1] = " "
                 /\ \A k \in a..(h - 1) : s[k] \in Token
                 /\ \A k \in (h + 2)..i : s[k] \in NotCtl
          BY <1>5 DEF IsHeader
        <4>2. h \in (a + 1)..((i + 1) - 1)
              /\ \A k \in (h + 2)..(i + 1) : k \in (h + 2)..i \/ k = i + 1
          OBVIOUS
        <4> QED
          BY <1>0, <2>3, <4>1, <4>2 DEF IsHeader
      <3> QED
        BY <1>5, <2>3, <3>1, Classes DEF HeaderAt
    <2> QED
      BY <2>1, <2>2, <2>3
  <1> QED
    BY <1>3, <1>4, <1>5 DEF HeaderAt

\* A character of a line that continues a header.
LEMMA ContinuationStep ==
    ASSUME NEW s, NEW i \in Nat, NEW a \in 2..(i + 1), NEW p, NEW q,
           p.anyHeader = TRUE, ContinuationAt(s, a, i, p), Takes(p, s[i + 1], q)
    PROVE  /\ s[i + 1] # "LF" /\ q.result = "indeterminate" /\ q.uri = p.uri
           /\ HeadersAt(s, a, i + 1, q)
  <1>0. PICK ch : ch = s[i + 1]
    OBVIOUS
  <1>e. Edge(p, ch, q.state)
    BY <1>0 DEF Takes
  <1>1. i \in Int /\ a \in Int /\ (i + 1) - 1 = i /\ Later(s, a)
    BY DEF ContinuationAt
  <1>2. SUFFICES /\ q.state \notin {"done", "uri"} /\ ch # "LF" /\ p.state # "header_line_start"
                 /\ ContinuationAt(s, a, i + 1, q) \/ HeaderEndAt(s, a, i + 1, q)
    <2>1. q.uri = p.uri /\ q.anyHeader = TRUE /\ q.result = "indeterminate"
      BY <1>2, Kept
    <2> QED
      BY <1>0, <1>2, <2>1 DEF HeadersAt
  <1>3. ASSUME NEW c \in a..i, AllIn(s, a, c, Blanks), AllIn(s, c + 1, i, NotCtl),
               ch = "CR", q.state = "expecting_newline_2"
        PROVE  HeaderEndAt(s, a, i + 1, q)
    <2>1. IsContinuation(s, a, i)
      BY <1>3 DEF IsContinuation, AllIn, Blanks
    <2>2. i + 1 > a
      OBVIOUS
    <2> QED
      BY <1>0, <1>1, <1>3, <2>1, <2>2 DEF HeaderEndAt
  <1>4. CASE p.state = "header_lws" /\ i >= a /\ AllIn(s, a, i, Blanks)
    <2>1. \/ ch \in {"CR"} /\ q.state = "expecting_newline_2"
          \/ ch \in Blanks /\ q.state = "header_lws"
          \/ ch \in UriChars /\ q.state = "header_value"
      BY <1>e, <1>4, Edges
    <2>2. CASE ch \in {"CR"} /\ q.state = "expecting_newline_2"
      <3>1. i \in a..i /\ AllIn(s, i + 1, i, NotCtl)
        BY <1>4 DEF AllIn
      <3> QED
        BY <1>3, <1>4, <2>2, <3>1
    <2>3. CASE ch \in Blanks /\ q.state = "header_lws"
      <3>1. AllIn(s, a, i + 1, Blanks) /\ i + 1 >= a
        BY <1>0, <1>1, <1>4, <2>3, OneMore
      <3>2. ch # "LF"
        BY <2>3 DEF Blanks
      <3> QED
        BY <1>1, <1>4, <2>3, <3>1, <3>2 DEF ContinuationAt
    <2>4. CASE ch \in UriChars /\ q.state = "header_value"
      <3>1. i \in a..((i + 1) - 1)
        BY <1>4
      <3>2. AllIn(s, i + 1, i + 1, NotCtl) /\ s[i + 1] # " "
        <4>1. s[i + 1] \in NotCtl /\ s[i + 1] # " "
          BY <1>0, <2>4 DEF UriChars
        <4>2. \A k \in (i + 1)..(i + 1) : k = i + 1
          OBVIOUS
        <4> QED
          BY <4>1, <4>2 DEF AllIn
      <3>3. TextAt(s, a, i + 1)
        BY <1>4, <3>1, <3>2 DEF TextAt
      <3>4. ch # "LF"
        BY <2>4, Classes DEF UriChars
      <3> QED
        BY <1>1, <1>4, <2>4, <3>3, <3>4 DEF ContinuationAt
    <2> QED
      BY <2>1, <2>2, <2>3, <2>4
  <1>5. CASE p.state = "header_value" /\ TextAt(s, a, i)
    <2>1. \/ ch \in {"CR"} /\ q.state = "expecting_newline_2"
          \/ ch \in NotCtl /\ q.state = "header_value"
      BY <1>e, <1>5, Edges
    <2>2. PICK c \in a..(i - 1) :
             AllIn(s, a, c, Blanks) /\ s[c + 1] # " " /\ AllIn(s, c + 1, i, NotCtl)
      BY <1>5 DEF TextAt
    <2>3. c \in a..i /\ c \in a..((i + 1) - 1) /\ c + 1 \in Int
      OBVIOUS
    <2>4. CASE ch \in {"CR"} /\ q.state = "expecting_newline_2"
      BY <1>3, <1>5, <2>2, <2>3, <2>4
    <2>5. CASE ch \in NotCtl /\ q.state = "header_value"
      <3>1. AllIn(s, c + 1, i + 1, NotCtl)
        BY <1>0, <1>1, <2>2, <2>3, <2>5, OneMore
      <3>2. TextAt(s, a, i + 1)
        BY <2>2, <2>3, <3>1 DEF TextAt
      <3> QED
        BY <1>1, <1>5, <2>5, <3>2, Classes DEF ContinuationAt
    <2> QED
      BY <2>1, <2>4, <2>5
  <1> QED
    BY <1>4, <1>5 DEF ContinuationAt

\* The end of a header line.
LEMMA HeaderEndStep ==
    ASSUME NEW s, NEW i \in Nat, NEW a \in 2..(i + 1), NEW p, NEW q,
           p.anyHeader = TRUE, InLine(s, a, i), HeaderEndAt(s, a, i, p), Takes(p, s[i + 1], q)
    PROVE  /\ q.result = "indeterminate" /\ q.uri = p.uri
           /\ InLine(s, i + 2, i + 1) /\ HeadersAt(s, i + 2, i + 1, q)
  <1>0. PICK ch : ch = s[i + 1]
    OBVIOUS
  <1>e. Edge(p, ch, q.state)
    BY <1>0 DEF Takes
  <1>1. p.state = "expecting_newline_2" /\ s[i] = "CR" /\ i > a
        /\ (IsHeader(s, a, i - 1) \/ (Later(s, a) /\ IsContinuation(s, a, i - 1)))
    BY DEF HeaderEndAt
  <1>2. ch \in {"LF"} /\ q.state = "header_line_start"
    BY <1>e, <1>1, Edges
  <1>3. q.uri = p.uri /\ q.anyHeader = TRUE /\ q.result = "indeterminate"
    BY <1>2, Kept
  <1>4. IsGoodLine(s, a, i + 1)
    <2>1. (i + 1) - 1 = i /\ (i + 1) - 2 = i - 1 /\ i + 1 > a /\ a > 1
      BY <1>1
    <2> QED
      BY <1>1, <2>1 DEF IsGoodLine, Later
  <1>5. InLine(s, i + 2, i + 1)
    BY <1>0, <1>2, <1>4, EndOfLine
  <1>6. Later(s, i + 2)
    <2>1. a - 1 \in 1..((i + 2) - 2) /\ s[a - 1] = "LF"
      BY DEF InLine
    <2> QED
      BY <2>1 DEF Later
  <1>7. LineStartAt(s, i + 2, i + 1, q)
    <2>1. i + 1 = (i + 2) - 1
      OBVIOUS
    <2> QED
      BY <1>2, <1>3, <1>6, <2>1, Zenon DEF LineStartAt
  <1> QED
    BY <1>3, <1>5, <1>7 DEF HeadersAt

\* The end of the request.
LEMMA LastLineStep ==
    ASSUME NEW s, NEW i \in Nat, NEW a \in 2..(i + 1), NEW p, NEW q,
           InLine(s, a, i), LastLineAt(s, a, i, p), Takes(p, s[i + 1], q)
    PROVE  q.result = "good" /\ q.uri = p.uri /\ IsRequest(s, i + 1)
  <1>0. PICK ch : ch = s[i + 1]
    OBVIOUS
  <1>e. Edge(p, ch, q.state)
    BY <1>0 DEF Takes
  <1>1. p.state = "expecting_newline_3" /\ i = a /\ s[i] = "CR"
    BY DEF LastLineAt
  <1>2. ch \in {"LF"} /\ q.state = "done"
    BY <1>e, <1>1, Edges
  <1>3. q.result = "good" /\ q.uri = p.uri
    BY <1>2 DEF Takes
  <1>4. /\ i + 1 > 2 /\ (i + 1) - 2 = a - 1 /\ (i + 1) - 1 = i
        /\ s[a - 1] = "LF" /\ GoodUpTo(s, a - 1)
    BY <1>1 DEF InLine
  <1> QED
    BY <1>0, <1>1, <1>2, <1>3, <1>4 DEF IsRequest, GoodUpTo

\* A character that the parser takes leads to the place that is right for it.
LEMMA TakesStep ==
    ASSUME NEW s \in Seq(Chars), NEW i \in 0..(Len(s) - 1), NEW p, NEW q,
           Where(s, i, p), Takes(p, s[i + 1], q)
    PROVE  \/ Where(s, i + 1, q)
           \/ /\ q.result = "good" /\ IsRequest(s, i + 1)
              /\ \E j \in 1..i : UriRead(s, j, q.uri)
  <1>0. i \in Nat /\ IsParser(q)
    BY DEF Takes
  <1>1. CASE p.anyHeader = FALSE /\ InLine(s, 1, i) /\ RequestLineAt(s, i, p)
    BY <1>1, RequestLineStep
  <1>2. ASSUME NEW j \in 1..i, UriRead(s, j, p.uri),
               NEW a \in 2..(i + 1), InLine(s, a, i), HeadersAt(s, a, i, p)
        PROVE  \/ Where(s, i + 1, q)
               \/ /\ q.result = "good" /\ IsRequest(s, i + 1)
                  /\ UriRead(s, j, q.uri)
    <2>1. ASSUME NEW b \in 2..((i + 1) + 1), InLine(s, b, i + 1), HeadersAt(s, b, i + 1, q),
                 q.result = "indeterminate", q.uri = p.uri
          PROVE  Where(s, i + 1, q)
      <3>1. j \in 1..(i + 1)
        BY <1>0
      <3> QED
        BY <1>0, <1>2, <2>1, <3>1 DEF Where
    <2>2. CASE /\ s[i + 1] # "LF" /\ q.result = "indeterminate" /\ q.uri = p.uri
               /\ HeadersAt(s, a, i + 1, q)
      <3>1. InLine(s, a, i + 1) /\ a \in 2..((i + 1) + 1)
        BY <1>0, <1>2, <2>2, SameLine
      <3> QED
        BY <2>1, <2>2, <3>1
    <2>3. CASE LineStartAt(s, a, i, p)
      BY <1>0, <2>2, <2>3, LineStartStep
    <2>4. CASE LastLineAt(s, a, i, p)
      BY <1>0, <1>2, <2>4, LastLineStep
    <2>5. CASE p.anyHeader = TRUE /\ HeaderAt(s, a, i, p)
      <3>1. /\ s[i + 1] # "LF" /\ q.result = "indeterminate" /\ q.uri = p.uri
            /\ HeadersAt(s, a, i + 1, q)
        BY <1>0, <2>5, HeaderStep
      <3> QED
        BY <2>2, <3>1
    <2>6. CASE p.anyHeader = TRUE /\ ContinuationAt(s, a, i, p)
      <3>1. /\ s[i + 1] # "LF" /\ q.result = "indeterminate" /\ q.uri = p.uri
            /\ HeadersAt(s, a, i + 1, q)
        BY <1>0, <2>6, ContinuationStep
      <3> QED
        BY <2>2, <3>1
    <2>7. CASE p.anyHeader = TRUE /\ HeaderEndAt(s, a, i, p)
      <3>1. /\ q.result = "indeterminate" /\ q.uri = p.uri
            /\ InLine(s, i + 2, i + 1) /\ HeadersAt(s, i + 2, i + 1, q)
        BY <1>0, <1>2, <2>7, HeaderEndStep
      <3>2. i + 2 \in 2..((i + 1) + 1)
        BY <1>0
      <3> QED
        BY <2>1, <3>1, <3>2
    <2> QED
      BY <1>2, <2>3, <2>4, <2>5, <2>6, <2>7 DEF HeadersAt
  <1> QED
    BY <1>1, <1>2 DEF Where

-----------------------------------------------------------------------------
(* As long as the characters are those of a request, there is a move *)

\* The method ends at the first space, the URI at the second.
LEMMA SameMethod ==
    ASSUME NEW s, NEW h \in Nat \ {0}, NEW i, NEW u, NEW k \in Nat \ {0}, NEW j, NEW v,
           UriUpTo(s, h, i, u), UriUpTo(s, k, j, v)
    PROVE  h = k
  <1>1. ASSUME NEW x \in Nat \ {0}, NEW y \in Nat \ {0}, s[x] = " ", AllIn(s, 1, y - 1, Token)
        PROVE  ~(x < y)
    <2>1. x < y => x \in 1..(y - 1)
      OBVIOUS
    <2> QED
      BY <1>1, <2>1, Classes DEF AllIn
  <1>2. s[h] = " " /\ s[k] = " " /\ AllIn(s, 1, h - 1, Token) /\ AllIn(s, 1, k - 1, Token)
    BY DEF UriUpTo
  <1>3. ~(h < k) /\ ~(k < h)
    BY <1>1, <1>2
  <1> QED
    BY <1>3

\* So a stream has one URI.
LEMMA SameUri ==
    ASSUME NEW s, NEW j \in Nat, NEW u, NEW k \in Nat, NEW v, UriRead(s, j, u), UriRead(s, k, v)
    PROVE  j = k /\ u = v
  <1>1. PICK g \in 2..(j - 1) : UriUpTo(s, g, j - 1, u)
    BY DEF UriRead
  <1>2. PICK h \in 2..(k - 1) : UriUpTo(s, h, k - 1, v)
    BY DEF UriRead
  <1>3. g = h
    <2>1. g \in Nat \ {0} /\ h \in Nat \ {0}
      OBVIOUS
    <2> QED
      BY <1>1, <1>2, <2>1, SameMethod
  <1>4. ASSUME NEW x \in Nat, NEW y \in Nat, x > g, s[x] = " ", AllIn(s, g + 1, y - 1, UriChars)
        PROVE  ~(x < y)
    <2>0. x > g
      BY <1>4
    <2>1. x < y => x \in (g + 1)..(y - 1)
      BY <2>0
    <2> QED
      BY <1>4, <2>1 DEF AllIn, UriChars
  <1>5. /\ s[j] = " " /\ s[k] = " "
        /\ AllIn(s, g + 1, j - 1, UriChars) /\ AllIn(s, g + 1, k - 1, UriChars)
    BY <1>1, <1>2, <1>3, Zenon DEF UriRead, UriUpTo
  <1>8. j > g /\ k > h
    OBVIOUS
  <1>6. ~(j < k) /\ ~(k < j)
    BY <1>3, <1>4, <1>5, <1>8
  <1>7. j = k
    BY <1>6
  <1> QED
    BY <1>1, <1>2, <1>3, <1>7 DEF UriUpTo

\* The URI that was read is the one the grammar names.
LEMMA UriIsUriOf ==
    ASSUME NEW s \in Seq(Chars), NEW j \in 1..Len(s), NEW u, UriRead(s, j, u)
    PROVE  u = UriOf(s)
  <1>1. PICK h \in 2..(j - 1) : UriUpTo(s, h, j - 1, u)
    BY DEF UriRead
  <1> DEFINE First(i) == s[i] = " " /\ \A k \in 1..(i - 1) : s[k] # " "
             Second(i) == s[i] = " " /\ \A k \in (h + 1)..(i - 1) : s[k] # " "
  <1>2. \A k \in 1..(h - 1) : s[k] # " "
    BY <1>1, Classes DEF UriUpTo, AllIn
  <1>3. \A k \in (h + 1)..(j - 1) : s[k] # " "
    BY <1>1 DEF UriUpTo, AllIn, UriChars
  <1>4. h \in 1..Len(s) /\ First(h)
    <2>1. h \in 1..Len(s)
      OBVIOUS
    <2> QED
      BY <1>1, <1>2, <2>1, Zenon DEF UriUpTo
  <1>5. j \in (h + 1)..Len(s) /\ Second(j)
    <2>1. j \in (h + 1)..Len(s)
      OBVIOUS
    <2> QED
      BY <1>3, <2>1, Zenon DEF UriRead
  <1>6. ASSUME NEW x \in 1..Len(s), First(x) PROVE x = h
    <2>1. x < h => x \in 1..(h - 1)
      OBVIOUS
    <2>2. h < x => h \in 1..(x - 1)
      OBVIOUS
    <2>3. ~(x < h) /\ ~(h < x)
      BY <1>4, <1>6, <2>1, <2>2
    <2> QED
      BY <2>3
  <1>7. ASSUME NEW x \in (h + 1)..Len(s), Second(x) PROVE x = j
    <2>1. x < j => x \in (h + 1)..(j - 1)
      OBVIOUS
    <2>2. j < x => j \in (h + 1)..(x - 1)
      OBVIOUS
    <2>3. ~(x < j) /\ ~(j < x)
      BY <1>5, <1>7, <2>1, <2>2
    <2> QED
      BY <2>3
  <1>8. h = CHOOSE i \in 1..Len(s) : First(i)
    <2> HIDE DEF First
    <2> QED
      BY <1>4, <1>6
  <1>9. j = CHOOSE i \in (h + 1)..Len(s) : Second(i)
    <2> HIDE DEF Second
    <2> QED
      BY <1>5, <1>7
  <1>10. UriOf(s) = SubSeq(s, h + 1, j - 1)
    <2>1. UriOf(s) = LET i == CHOOSE i \in 1..Len(s) : First(i)
                         k == CHOOSE k \in (i + 1)..Len(s) :
                                 s[k] = " " /\ \A x \in (i + 1)..(k - 1) : s[x] # " "
                     IN SubSeq(s, i + 1, k - 1)
      BY DEF UriOf
    <2> QED
      BY <1>8, <1>9, <2>1
  <1> QED
    BY <1>1, <1>10 DEF UriUpTo

\* The parts of a request line.
LEMMA RequestLineParts ==
    ASSUME NEW s, NEW b \in Int, IsRequestLine(s, b)
    PROVE  \E u : \E j \in 1..b : \E d \in 1..(b - 1) : UriRead(s, j, u) /\ VersionRead(s, j, d, b)
  <1>1. PICK h \in 2..b, j \in 2..b :
           /\ h < j /\ s[h] = " " /\ s[j] = " "
           /\ \A k \in 1..(h - 1) : s[k] \in Token
           /\ \A k \in (h + 1)..(j - 1) : s[k] \in NotCtl \ {" "}
           /\ IsVersion(s, j + 1, b)
    BY DEF IsRequestLine
  <1>2. PICK d \in ((j + 1) + 6)..(b - 1) :
           /\ s[j + 1] = "H" /\ s[(j + 1) + 1] = "T" /\ s[(j + 1) + 2] = "T"
           /\ s[(j + 1) + 3] = "P" /\ s[(j + 1) + 4] = "/" /\ s[d] = "."
           /\ \A k \in ((j + 1) + 5)..b : k # d => s[k] \in Digits
    BY <1>1 DEF IsVersion
  <1>3. PICK u : u = SubSeq(s, h + 1, j - 1)
    OBVIOUS
  <1>4. UriRead(s, j, u)
    <2>1. UriUpTo(s, h, j - 1, u)
      BY <1>1, <1>3 DEF UriUpTo, AllIn, UriChars
    <2>0. h < j
      BY <1>1
    <2>2. h \in 2..(j - 1)
      BY <2>0
    <2> QED
      BY <1>1, <2>1, <2>2 DEF UriRead
  <1>5. VersionRead(s, j, d, b)
    <2>1. HttpRead(s, j, 5)
      BY <1>2 DEF HttpRead
    <2>2. AllIn(s, j + 6, d - 1, Digits) /\ AllIn(s, d + 1, b, Digits)
      <3>1. \A k \in (j + 6)..(d - 1) : k \in ((j + 1) + 5)..b /\ k # d
        OBVIOUS
      <3>2. \A k \in (d + 1)..b : k \in ((j + 1) + 5)..b /\ k # d
        OBVIOUS
      <3> QED
        BY <1>2, <3>1, <3>2 DEF AllIn
    <2> QED
      BY <1>2, <2>1, <2>2 DEF VersionRead
  <1>6. j \in 1..b /\ d \in 1..(b - 1)
    OBVIOUS
  <1> QED
    BY <1>4, <1>5, <1>6

\* The state of a method has a move for the next character of a request line.
LEMMA MethodGoesOn ==
    ASSUME NEW s, NEW i \in Nat, NEW p, MethodAt(s, i, p),
           NEW j \in Nat, NEW u, UriRead(s, j, u)
    PROVE  \E y : Edge(p, s[i + 1], y)
  <1>0. PICK ch : ch = s[i + 1]
    OBVIOUS
  <1>1. PICK h \in 2..(j - 1) : UriUpTo(s, h, j - 1, u)
    BY DEF UriRead
  <1>2. s[h] = " " /\ AllIn(s, 1, h - 1, Token)
    BY <1>1 DEF UriUpTo
  <1>3. SUFFICES \E y : Edge(p, ch, y)
    BY <1>0
  <1>4. CASE p.state = "method_start" /\ i = 0
    <2>1. i + 1 \in 1..(h - 1)
      BY <1>4
    <2>2. ch \in Token
      BY <1>0, <1>2, <2>1 DEF AllIn
    <2>3. Edge(p, ch, "method")
      BY <1>4, <2>2, Edges
    <2> QED
      BY <2>3
  <1>5. CASE p.state = "method" /\ i > 0 /\ AllIn(s, 1, i, Token)
    <2>1. ~(h <= i)
      <3>1. h <= i => h \in 1..i
        OBVIOUS
      <3> QED
        BY <1>2, <1>5, <3>1, Classes DEF AllIn
    <2>2. i + 1 = h \/ i + 1 \in 1..(h - 1)
      BY <2>1
    <2>3. ch \in {" "} \/ ch \in Token
      BY <1>0, <1>2, <2>2 DEF AllIn
    <2>4. Edge(p, ch, "uri") \/ Edge(p, ch, "method")
      BY <1>5, <2>3, Edges
    <2> QED
      BY <2>4
  <1> QED
    BY <1>4, <1>5 DEF MethodAt

\* So has the state of a URI,
LEMMA UriGoesOn ==
    ASSUME NEW s, NEW i \in Nat, NEW p, UriAt(s, i, p),
           NEW j \in Nat, NEW u, UriRead(s, j, u)
    PROVE  \E y : Edge(p, s[i + 1], y)
  <1>0. PICK ch : ch = s[i + 1]
    OBVIOUS
  <1>1. PICK h \in 2..(j - 1) : UriUpTo(s, h, j - 1, u)
    BY DEF UriRead
  <1>2. PICK g \in 2..i : UriUpTo(s, g, i, p.uri)
    BY DEF UriAt
  <1>3. g = h
    <2>1. g \in Nat \ {0} /\ h \in Nat \ {0}
      OBVIOUS
    <2> QED
      BY <1>1, <1>2, <2>1, SameMethod
  <1>4. s[j] = " " /\ AllIn(s, h + 1, j - 1, UriChars) /\ AllIn(s, h + 1, i, UriChars)
    BY <1>1, <1>2, <1>3 DEF UriRead, UriUpTo
  <1>5. ~(j <= i)
    <2>1. j <= i => j \in (h + 1)..i
      OBVIOUS
    <2> QED
      BY <1>4, <2>1 DEF AllIn, UriChars
  <1>6. i + 1 = j \/ i + 1 \in (h + 1)..(j - 1)
    BY <1>3, <1>5
  <1>7. ch \in {" "} \/ ch \in UriChars
    BY <1>0, <1>4, <1>6 DEF AllIn
  <1>8. Edge(p, ch, "http_version_h") \/ Edge(p, ch, "uri")
    BY <1>7, Edges DEF UriAt
  <1> QED
    BY <1>0, <1>8

\* so have the states of "HTTP/",
LEMMA HttpGoesOn ==
    ASSUME NEW s, NEW i \in Nat, NEW p, NEW j \in Nat, HttpAt(s, j, i, p),
           NEW d \in Nat, NEW e \in Nat, VersionRead(s, j, d, e)
    PROVE  \E y : Edge(p, s[i + 1], y)
  <1>0. PICK ch : ch = s[i + 1]
    OBVIOUS
  <1>1. /\ s[j + 1] = "H" /\ s[j + 2] = "T" /\ s[j + 3] = "T" /\ s[j + 4] = "P" /\ s[j + 5] = "/"
        /\ s[j + 6] \in Digits
    <2>1. j + 6 \in (j + 6)..(d - 1)
      BY DEF VersionRead
    <2> QED
      BY <2>1 DEF VersionRead, HttpRead, AllIn
  <1>2. SUFFICES \E y : Edge(p, ch, y)
    BY <1>0
  <1>3. CASE p.state = "http_version_h" /\ i = j
    <2>1. Edge(p, ch, "http_version_t_1")
      <3>1. ch \in {"H"}
        BY <1>0, <1>1, <1>3
      <3> QED
        BY <1>3, <3>1, Edges
    <2> QED
      BY <2>1
  <1>4. CASE p.state = "http_version_t_1" /\ i = j + 1
    <2>1. Edge(p, ch, "http_version_t_2")
      <3>1. ch \in {"T"}
        BY <1>0, <1>1, <1>4
      <3> QED
        BY <1>4, <3>1, Edges
    <2> QED
      BY <2>1
  <1>5. CASE p.state = "http_version_t_2" /\ i = j + 2
    <2>1. Edge(p, ch, "http_version_p")
      <3>1. ch \in {"T"}
        BY <1>0, <1>1, <1>5
      <3> QED
        BY <1>5, <3>1, Edges
    <2> QED
      BY <2>1
  <1>6. CASE p.state = "http_version_p" /\ i = j + 3
    <2>1. Edge(p, ch, "http_version_slash")
      <3>1. ch \in {"P"}
        BY <1>0, <1>1, <1>6
      <3> QED
        BY <1>6, <3>1, Edges
    <2> QED
      BY <2>1
  <1>7. CASE p.state = "http_version_slash" /\ i = j + 4
    <2>1. Edge(p, ch, "http_version_major_start")
      <3>1. ch \in {"/"}
        BY <1>0, <1>1, <1>7
      <3> QED
        BY <1>7, <3>1, Edges
    <2> QED
      BY <2>1
  <1>8. CASE p.state = "http_version_major_start" /\ i = j + 5
    <2>1. Edge(p, ch, "http_version_major")
      <3>1. ch \in Digits
        BY <1>0, <1>1, <1>8
      <3> QED
        BY <1>8, <3>1, Edges
    <2> QED
      BY <2>1
  <1> QED
    BY <1>3, <1>4, <1>5, <1>6, <1>7, <1>8 DEF HttpAt

\* The point of the version is the only character that is not a digit.
LEMMA SamePoint ==
    ASSUME NEW s, NEW j \in Nat, NEW d \in Nat, NEW i \in Nat, NEW c \in Nat, NEW e \in Nat,
           VersionRead(s, j, d, i), VersionRead(s, j, c, e)
    PROVE  d = c
  <1>1. ASSUME NEW x \in Nat, NEW y \in Nat, x > j + 6, s[x] = ".", AllIn(s, j + 6, y - 1, Digits)
        PROVE  ~(x < y)
    <2>0. x > j + 6
      BY <1>1
    <2>1. x < y => x \in (j + 6)..(y - 1)
      BY <2>0
    <2> QED
      BY <1>1, <2>1, Classes DEF AllIn
  <1>2. /\ d > j + 6 /\ s[d] = "." /\ AllIn(s, j + 6, d - 1, Digits)
        /\ c > j + 6 /\ s[c] = "." /\ AllIn(s, j + 6, c - 1, Digits)
    BY DEF VersionRead
  <1>3. ~(d < c) /\ ~(c < d)
    BY <1>1, <1>2
  <1> QED
    BY <1>3

\* The states of the two numbers have a move for what comes next.
LEMMA NumbersGoOn ==
    ASSUME NEW s, NEW i \in Nat, NEW p, NEW j \in Nat, NumbersAt(s, j, i, p),
           NEW b \in Nat, i + 1 <= b, s[b] = "LF", s[b - 1] = "CR",
           NEW d \in 1..((b - 2) - 1), VersionRead(s, j, d, b - 2)
    PROVE  \E y : Edge(p, s[i + 1], y)
  <1>0. PICK ch : ch = s[i + 1]
    OBVIOUS
  <1>1. /\ d > j + 6 /\ s[d] = "." /\ AllIn(s, j + 6, d - 1, Digits)
        /\ AllIn(s, d + 1, b - 2, Digits) /\ b - 2 \in Nat /\ d \in Nat
    BY DEF VersionRead
  <1>2. SUFFICES \E y : Edge(p, ch, y)
    BY <1>0
  <1>3. CASE p.state = "http_version_major" /\ i > j + 5 /\ AllIn(s, j + 6, i, Digits)
    <2>1. ~(d <= i)
      <3>1. d <= i => d \in (j + 6)..i
        BY <1>1
      <3> QED
        BY <1>1, <1>3, <3>1, Classes DEF AllIn
    <2>2. i + 1 = d \/ i + 1 \in (j + 6)..(d - 1)
      BY <1>3, <2>1
    <2>3. ch \in {"."} \/ ch \in Digits
      BY <1>0, <1>1, <2>2 DEF AllIn
    <2>4. Edge(p, ch, "http_version_minor_start") \/ Edge(p, ch, "http_version_major")
      BY <1>3, <2>3, Edges
    <2> QED
      BY <2>4
  <1>4. CASE p.state = "http_version_minor_start" /\ VersionRead(s, j, i, i)
    <2>1. d = i
      BY <1>1, <1>4, SamePoint
    <2>2. i + 1 \in (d + 1)..(b - 2)
      BY <2>1
    <2>3. ch \in Digits
      BY <1>0, <1>1, <2>2 DEF AllIn
    <2>4. Edge(p, ch, "http_version_minor")
      BY <1>4, <2>3, Edges
    <2> QED
      BY <2>4
  <1>5. ASSUME p.state = "http_version_minor", NEW c \in 1..(i - 1), VersionRead(s, j, c, i)
        PROVE  \E y : Edge(p, ch, y)
    <2>1. d = c
      <3>1. c \in Nat
        OBVIOUS
      <3> QED
        BY <1>1, <1>5, <3>1, SamePoint
    <2>2. s[i] \in Digits
      <3>1. i \in (c + 1)..i
        OBVIOUS
      <3> QED
        BY <1>5, <3>1 DEF VersionRead, AllIn
    <2>3. i # b - 1
      BY <2>2, Classes
    <2>4. i + 1 = b - 1 \/ i + 1 \in (d + 1)..(b - 2)
      BY <2>1, <2>3
    <2>5. ch \in {"CR"} \/ ch \in Digits
      BY <1>0, <1>1, <2>4 DEF AllIn
    <2>6. Edge(p, ch, "expecting_newline_1") \/ Edge(p, ch, "http_version_minor")
      BY <1>5, <2>5, Edges
    <2> QED
      BY <2>6
  <1>6. ASSUME p.state = "expecting_newline_1", s[i] = "CR",
               NEW c \in 1..(i - 2), VersionRead(s, j, c, i - 1)
        PROVE  \E y : Edge(p, ch, y)
    <2>1. d = c
      <3>1. c \in Nat /\ i - 1 \in Nat
        OBVIOUS
      <3> QED
        BY <1>1, <1>6, <3>1, SamePoint
    <2>2. i \notin (d + 1)..(b - 2)
      BY <1>1, <1>6, Classes DEF AllIn
    <2>3. i + 1 = b
      BY <2>1, <2>2
    <2>4. ch \in {"LF"}
      BY <1>0, <2>3
    <2>5. Edge(p, ch, "header_line_start")
      BY <1>6, <2>4, Edges
    <2> QED
      BY <2>5
  <1> QED
    BY <1>3, <1>4, <1>5, <1>6 DEF NumbersAt

\* As long as the line is a request line, the parser takes its characters.
LEMMA RequestLineGoesOn ==
    ASSUME NEW s, NEW i \in Nat, NEW p, RequestLineAt(s, i, p),
           NEW b \in Nat, i + 1 <= b, s[b] = "LF", s[b - 1] = "CR", IsRequestLine(s, b - 2)
    PROVE  \E y : Edge(p, s[i + 1], y)
  <1>1. b - 2 \in Int
    OBVIOUS
  <1>2. PICK u : \E j \in 1..(b - 2) : \E d \in 1..((b - 2) - 1) :
           UriRead(s, j, u) /\ VersionRead(s, j, d, b - 2)
    BY <1>1, RequestLineParts
  <1>3. PICK j \in 1..(b - 2), d \in 1..((b - 2) - 1) : UriRead(s, j, u) /\ VersionRead(s, j, d, b - 2)
    BY <1>2
  <1>4. j \in Nat /\ d \in Nat /\ b - 2 \in Nat
    OBVIOUS
  <1>5. CASE MethodAt(s, i, p)
    BY <1>3, <1>4, <1>5, MethodGoesOn
  <1>6. CASE UriAt(s, i, p)
    BY <1>3, <1>4, <1>6, UriGoesOn
  <1>7. ASSUME NEW k \in 1..i, UriRead(s, k, p.uri), HttpAt(s, k, i, p) \/ NumbersAt(s, k, i, p)
        PROVE  \E y : Edge(p, s[i + 1], y)
    <2>1. k \in Nat
      OBVIOUS
    <2>2. k = j
      BY <1>3, <1>4, <1>7, <2>1, SameUri
    <2>3. CASE HttpAt(s, j, i, p)
      BY <1>3, <1>4, <2>3, HttpGoesOn
    <2>4. CASE NumbersAt(s, j, i, p)
      BY <1>3, <1>4, <2>4, NumbersGoOn
    <2> QED
      BY <1>7, <2>2, <2>3, <2>4
  <1> QED
    BY <1>5, <1>6, <1>7 DEF RequestLineAt

\* What a line after the request line looks like.
LEMMA HeaderParts ==
    ASSUME NEW s, NEW a \in Nat, NEW e \in Int, IsHeader(s, a, e)
    PROVE  \E h \in (a + 1)..(e - 1) :
              /\ s[h] = ":" /\ s[h + 1] = " " /\ AllIn(s, a, h - 1, Token)
              /\ AllIn(s, h + 2, e, NotCtl) /\ s[a] \in Token
  <1>1. PICK h \in (a + 1)..(e - 1) :
           /\ s[h] = ":" /\ s[h + 1] = " "
           /\ \A k \in a..(h - 1) : s[k] \in Token
           /\ \A k \in (h + 2)..e : s[k] \in NotCtl
    BY DEF IsHeader
  <1>2. a \in a..(h - 1)
    OBVIOUS
  <1> QED
    BY <1>1, <1>2 DEF AllIn

\* What a continued line looks like.
LEMMA ContinuationParts ==
    ASSUME NEW s, NEW a \in Nat, NEW e \in Int, IsContinuation(s, a, e)
    PROVE  \E c \in a..e : /\ AllIn(s, a, c, Blanks) /\ AllIn(s, c + 1, e, NotCtl)
                           /\ s[a] \in Blanks
  <1>1. PICK c \in a..e : /\ \A k \in a..c : s[k] \in {" ", "TAB"}
                          /\ \A k \in (c + 1)..e : s[k] \in NotCtl
    BY DEF IsContinuation
  <1>2. a \in a..c
    OBVIOUS
  <1> QED
    BY <1>1, <1>2 DEF AllIn, Blanks

\* A carriage return is in no header.
LEMMA NoReturn ==
    ASSUME NEW s, NEW a \in Nat, NEW e \in Int, IsHeader(s, a, e) \/ IsContinuation(s, a, e),
           NEW k \in a..e
    PROVE  s[k] # "CR"
  <1>1. CASE IsHeader(s, a, e)
    <2>1. PICK h \in (a + 1)..(e - 1) :
             /\ s[h] = ":" /\ s[h + 1] = " " /\ AllIn(s, a, h - 1, Token)
             /\ AllIn(s, h + 2, e, NotCtl)
      BY <1>1, HeaderParts
    <2>2. k \in a..(h - 1) \/ k = h \/ k = h + 1 \/ k \in (h + 2)..e
      OBVIOUS
    <2> QED
      BY <2>1, <2>2, Classes DEF AllIn
  <1>2. CASE IsContinuation(s, a, e)
    <2>1. PICK c \in a..e : AllIn(s, a, c, Blanks) /\ AllIn(s, c + 1, e, NotCtl)
      BY <1>2, ContinuationParts
    <2>2. k \in a..c \/ k \in (c + 1)..e
      OBVIOUS
    <2> QED
      BY <2>1, <2>2, Classes DEF AllIn, Blanks
  <1> QED
    BY <1>1, <1>2

\* Neither is a line of another kind.
LEMMA NotBoth ==
    ASSUME NEW x, x \in Token
    PROVE  x \notin Blanks
  BY Classes DEF Blanks

\* A name is read.
LEMMA NameGoesOn ==
    ASSUME NEW s, NEW i \in Nat, NEW a \in 2..(i + 1), NEW p,
           NEW b \in Nat, i + 1 <= b, s[b - 1] = "CR",
           p.state = "header_name", i >= a, AllIn(s, a, i, Token),
           IsHeader(s, a, b - 2) \/ IsContinuation(s, a, b - 2)
    PROVE  \E y : Edge(p, s[i + 1], y)
  <1>0. PICK ch : ch = s[i + 1]
    OBVIOUS
  <1>1. a \in Nat /\ b - 2 \in Int /\ a \in a..i
    OBVIOUS
  <1>2. s[a] \in Token
    BY <1>1 DEF AllIn
  <1>3. IsHeader(s, a, b - 2)
    BY <1>1, <1>2, ContinuationParts, NotBoth
  <1>4. PICK h \in (a + 1)..((b - 2) - 1) : s[h] = ":" /\ AllIn(s, a, h - 1, Token)
    BY <1>1, <1>3, HeaderParts
  <1>5. ~(h <= i)
    <2>1. h <= i => h \in a..i
      OBVIOUS
    <2> QED
      BY <1>4, <2>1, Classes DEF AllIn
  <1>6. i + 1 = h \/ i + 1 \in a..(h - 1)
    BY <1>5
  <1>7. ch \in {":"} \/ ch \in Token
    BY <1>0, <1>4, <1>6 DEF AllIn
  <1>8. Edge(p, ch, "space_before_header_value") \/ Edge(p, ch, "header_name")
    BY <1>7, Edges
  <1> QED
    BY <1>0, <1>8

\* The colon is the first character that is not of the name.
LEMMA SameColon ==
    ASSUME NEW s, NEW a \in Nat, NEW x \in Nat, NEW y \in Nat, x > a, y > a,
           s[x] = ":", s[y] = ":", AllIn(s, a, x - 1, Token), AllIn(s, a, y - 1, Token)
    PROVE  x = y
  <1>1. x < y => x \in a..(y - 1)
    OBVIOUS
  <1>2. y < x => y \in a..(x - 1)
    OBVIOUS
  <1>3. ~(x < y) /\ ~(y < x)
    BY <1>1, <1>2, Classes DEF AllIn
  <1> QED
    BY <1>3

\* The states of a header have a move for the next character of a header.
LEMMA HeaderGoesOn ==
    ASSUME NEW s, NEW i \in Nat, NEW a \in 2..(i + 1), NEW p, HeaderAt(s, a, i, p),
           NEW b \in Nat, i + 1 <= b, s[b] = "LF", s[b - 1] = "CR",
           IsHeader(s, a, b - 2) \/ IsContinuation(s, a, b - 2)
    PROVE  \E y : Edge(p, s[i + 1], y)
  <1>0. PICK ch : ch = s[i + 1]
    OBVIOUS
  <1>1. a \in Nat /\ b - 2 \in Int
    OBVIOUS
  <1>2. CASE p.state = "header_name" /\ i >= a /\ AllIn(s, a, i, Token)
    BY <1>2, NameGoesOn
  <1>3. CASE p.state = "space_before_header_value" /\ i > a /\ s[i] = ":"
             /\ AllIn(s, a, i - 1, Token)
    <2>1. s[a] \in Token
      <3>1. a \in a..(i - 1)
        BY <1>3
      <3> QED
        BY <1>3, <3>1 DEF AllIn
    <2>2. IsHeader(s, a, b - 2)
      BY <1>1, <2>1, ContinuationParts, NotBoth
    <2>3. PICK h \in (a + 1)..((b - 2) - 1) :
             s[h] = ":" /\ s[h + 1] = " " /\ AllIn(s, a, h - 1, Token)
      BY <1>1, <2>2, HeaderParts
    <2>4. h = i
      <3>1. h \in Nat /\ h > a
        OBVIOUS
      <3> QED
        BY <1>1, <1>3, <2>3, <3>1, SameColon
    <2>5. ch \in {" "}
      BY <1>0, <2>3, <2>4
    <2>6. Edge(p, ch, "header_value")
      BY <1>3, <2>5, Edges
    <2> QED
      BY <1>0, <2>6
  <1>4. CASE p.state = "header_value" /\ IsHeader(s, a, i)
    <2>1. PICK g \in (a + 1)..(i - 1) :
             /\ s[g] = ":" /\ s[g + 1] = " " /\ AllIn(s, a, g - 1, Token)
             /\ AllIn(s, g + 2, i, NotCtl) /\ s[a] \in Token
      <3>1. i \in Int
        OBVIOUS
      <3> QED
        BY <1>1, <1>4, <3>1, HeaderParts
    <2>2. IsHeader(s, a, b - 2)
      BY <1>1, <2>1, ContinuationParts, NotBoth
    <2>3. PICK h \in (a + 1)..((b - 2) - 1) :
             /\ s[h] = ":" /\ s[h + 1] = " " /\ AllIn(s, a, h - 1, Token)
             /\ AllIn(s, h + 2, b - 2, NotCtl)
      BY <1>1, <2>2, HeaderParts
    <2>4. g = h
      <3>1. h \in Nat /\ h > a /\ g \in Nat /\ g > a
        OBVIOUS
      <3> QED
        BY <1>1, <2>1, <2>3, <3>1, SameColon
    <2>5. s[i] # "CR"
      <3>1. i \in Int /\ i \in a..i
        OBVIOUS
      <3> QED
        BY <1>1, <1>4, <3>1, NoReturn
    <2>6. i + 1 = b - 1 \/ i + 1 \in (h + 2)..(b - 2)
      <3>1. i # b - 1
        BY <2>5
      <3> QED
        BY <2>4, <3>1
    <2>7. ch \in {"CR"} \/ ch \in NotCtl
      BY <1>0, <2>3, <2>6 DEF AllIn
    <2>8. Edge(p, ch, "expecting_newline_2") \/ Edge(p, ch, "header_value")
      BY <1>4, <2>7, Edges
    <2> QED
      BY <1>0, <2>8
  <1> QED
    BY <1>2, <1>3, <1>4 DEF HeaderAt

\* So have those of a continued line.
LEMMA ContinuationGoesOn ==
    ASSUME NEW s, NEW i \in Nat, NEW a \in 2..(i + 1), NEW p, ContinuationAt(s, a, i, p),
           NEW b \in Nat, i + 1 <= b, s[b] = "LF", s[b - 1] = "CR",
           IsHeader(s, a, b - 2) \/ IsContinuation(s, a, b - 2)
    PROVE  \E y : Edge(p, s[i + 1], y)
  <1>0. PICK ch : ch = s[i + 1]
    OBVIOUS
  <1>1. a \in Nat /\ b - 2 \in Int /\ i \in Int
    OBVIOUS
  <1>2. CASE p.state = "header_lws" /\ i >= a /\ AllIn(s, a, i, Blanks)
    <2>1. s[a] \in Blanks /\ s[i] \in Blanks
      <3>1. a \in a..i /\ i \in a..i
        BY <1>2
      <3> QED
        BY <1>2, <3>1 DEF AllIn
    <2>2. IsContinuation(s, a, b - 2)
      BY <1>1, <2>1, HeaderParts, NotBoth
    <2>3. PICK c \in a..(b - 2) : AllIn(s, a, c, Blanks) /\ AllIn(s, c + 1, b - 2, NotCtl)
      BY <1>1, <2>2, ContinuationParts
    <2>4. i # b - 1
      BY <2>1 DEF Blanks
    <2>5. i + 1 = b - 1 \/ i + 1 \in a..c \/ i + 1 \in (c + 1)..(b - 2)
      BY <2>4
    <2>6. ch \in {"CR"} \/ ch \in Blanks \/ ch \in UriChars
      BY <1>0, <2>3, <2>5 DEF AllIn, Blanks, UriChars
    <2>7. Edge(p, ch, "expecting_newline_2") \/ Edge(p, ch, "header_lws") \/ Edge(p, ch, "header_value")
      BY <1>2, <2>6, Edges
    <2> QED
      BY <1>0, <2>7
  <1>3. CASE p.state = "header_value" /\ TextAt(s, a, i)
    <2>1. PICK g \in a..(i - 1) :
             AllIn(s, a, g, Blanks) /\ s[g + 1] # " " /\ AllIn(s, g + 1, i, NotCtl)
      BY <1>3 DEF TextAt
    <2>2. s[a] \in Blanks /\ s[g + 1] \in NotCtl /\ s[i] \in NotCtl
      <3>1. a \in a..g /\ g + 1 \in (g + 1)..i /\ i \in (g + 1)..i
        OBVIOUS
      <3> QED
        BY <2>1, <3>1 DEF AllIn
    <2>3. IsContinuation(s, a, b - 2)
      BY <1>1, <2>2, HeaderParts, NotBoth
    <2>4. PICK c \in a..(b - 2) : AllIn(s, a, c, Blanks) /\ AllIn(s, c + 1, b - 2, NotCtl)
      BY <1>1, <2>3, ContinuationParts
    <2>5. ~(g + 1 <= c)
      <3>1. g + 1 <= c => g + 1 \in a..c
        OBVIOUS
      <3> QED
        BY <2>1, <2>2, <2>4, <3>1, Classes DEF AllIn, Blanks
    <2>6. i # b - 1
      BY <2>2, Classes
    <2>7. i + 1 = b - 1 \/ i + 1 \in (c + 1)..(b - 2)
      BY <2>5, <2>6
    <2>8. ch \in {"CR"} \/ ch \in NotCtl
      BY <1>0, <2>4, <2>7 DEF AllIn
    <2>9. Edge(p, ch, "expecting_newline_2") \/ Edge(p, ch, "header_value")
      BY <1>3, <2>8, Edges
    <2> QED
      BY <1>0, <2>9
  <1> QED
    BY <1>2, <1>3 DEF ContinuationAt

\* As long as the line is good, the parser takes its characters.
LEMMA HeadersGoOn ==
    ASSUME NEW s, NEW i \in Nat, NEW a \in 2..(i + 1), NEW p, HeadersAt(s, a, i, p),
           NEW b \in Nat, i + 1 <= b, s[b] = "LF", IsGoodLine(s, a, b)
    PROVE  \E y : Edge(p, s[i + 1], y)
  <1>0. PICK ch : ch = s[i + 1]
    OBVIOUS
  <1>1. a \in Nat /\ b - 2 \in Int /\ a > 1
    OBVIOUS
  <1>2. /\ b > a /\ s[b - 1] = "CR"
        /\ IsHeader(s, a, b - 2) \/ (Later(s, a) /\ IsContinuation(s, a, b - 2))
    BY <1>1 DEF IsGoodLine, Later
  <1>3. b - 2 >= a /\ (s[a] \in Token \/ (Later(s, a) /\ s[a] \in Blanks))
    <2>1. CASE IsHeader(s, a, b - 2)
      <3>1. PICK h \in (a + 1)..((b - 2) - 1) : s[a] \in Token
        BY <1>1, <2>1, HeaderParts
      <3>2. b - 2 >= a
        BY <3>1
      <3> QED
        BY <3>1, <3>2
    <2>2. CASE Later(s, a) /\ IsContinuation(s, a, b - 2)
      <3>1. PICK c \in a..(b - 2) : s[a] \in Blanks
        BY <1>1, <2>2, ContinuationParts
      <3>2. b - 2 >= a
        BY <3>1
      <3> QED
        BY <2>2, <3>1, <3>2
    <2> QED
      BY <1>2, <2>1, <2>2
  <1>4. CASE LineStartAt(s, a, i, p)
    <2>1. i + 1 = a /\ p.state = "header_line_start" /\ (Later(s, a) => p.anyHeader = TRUE)
      BY <1>4 DEF LineStartAt
    <2>2. ch \in Token \/ (p.anyHeader = TRUE /\ ch \in Blanks)
      BY <1>0, <1>3, <2>1
    <2>3. ch \in Token \/ ch \in (IF p.anyHeader THEN Blanks ELSE {})
      BY <2>2
    <2>4. Edge(p, ch, "header_name") \/ Edge(p, ch, "header_lws")
      BY <2>1, <2>3, Edges
    <2> QED
      BY <1>0, <2>4
  <1>5. CASE LastLineAt(s, a, i, p)
    <2>1. s[a] = "CR" /\ a \in a..(b - 2)
      BY <1>3, <1>5 DEF LastLineAt
    <2> QED
      BY <1>1, <1>2, <2>1, NoReturn
  <1>6. CASE HeaderAt(s, a, i, p)
    BY <1>2, <1>6, HeaderGoesOn
  <1>7. CASE ContinuationAt(s, a, i, p)
    BY <1>2, <1>7, ContinuationGoesOn
  <1>8. CASE HeaderEndAt(s, a, i, p)
    <2>1. p.state = "expecting_newline_2" /\ s[i] = "CR" /\ i > a
      BY <1>8 DEF HeaderEndAt
    <2>2. i \notin a..(b - 2)
      BY <1>1, <1>2, <2>1, NoReturn
    <2>3. i + 1 = b
      <3>1. i >= a
        BY <2>1
      <3> QED
        BY <2>2, <3>1
    <2>4. ch \in {"LF"}
      BY <1>0, <2>3
    <2>5. Edge(p, ch, "header_line_start")
      BY <2>1, <2>4, Edges
    <2> QED
      BY <1>0, <2>5
  <1> QED
    BY <1>4, <1>5, <1>6, <1>7, <1>8 DEF HeadersAt

\* In a request, the line the parser is in is good, or is the empty one.
LEMMA LineEnds ==
    ASSUME NEW s, NEW i \in Nat, NEW n \in Nat, NEW a \in Nat, InLine(s, a, i), i < n,
           IsRequest(s, n)
    PROVE  a = n - 1 \/ \E b \in Nat : i + 1 <= b /\ s[b] = "LF" /\ IsGoodLine(s, a, b)
  <1>1. /\ n > 2 /\ s[n - 2] = "LF" /\ s[n - 1] = "CR"
        /\ \A b \in 1..(n - 2) : \A c \in 1..b : IsLine(s, c, b) => IsGoodLine(s, c, b)
    BY DEF IsRequest
  <1>2. /\ a \in 1..(i + 1) /\ (a = 1 \/ s[a - 1] = "LF")
        /\ \A k \in a..i : s[k] # "LF"
    BY DEF InLine
  <1>3. CASE a > n - 2
    <2>1. a = n - 1 \/ a = n
      BY <1>2, <1>3
    <2>2. a # n
      BY <1>1, <1>2
    <2> QED
      BY <2>1, <2>2
  <1>4. CASE a <= n - 2
    <2> DEFINE T == {k \in Nat : \A x \in a..(a + k - 1) : s[x] # "LF"}
    <2>1. PICK m \in Nat : m = n - 1 - a
      BY <1>1, <1>4
    <2>2. 0 \in T
      OBVIOUS
    <2>3. ~(\A k \in 0..m : k \in T)
      <3>1. m \in 0..m /\ n - 2 \in a..(a + m - 1)
        BY <1>4, <2>1
      <3> QED
        BY <1>1, <3>1
    <2>4. PICK k \in 0..(m - 1) : k \in T /\ k + 1 \notin T
      <3> HIDE DEF T
      <3> QED
        BY <2>2, <2>3, UpTo
    <2>5. PICK b \in Nat : b = a + k
      OBVIOUS
    <2>6. \A x \in a..(b - 1) : s[x] # "LF"
      BY <2>4, <2>5
    <2>7. s[b] = "LF"
      <3>1. \A x \in a..(a + (k + 1) - 1) : x \in a..(b - 1) \/ x = b
        BY <2>5
      <3> QED
        BY <2>4, <2>6, <3>1
    <2>8. b \in 1..(n - 2) /\ a \in 1..b
      BY <1>2, <2>1, <2>5
    <2>9. IsLine(s, a, b)
      BY <1>2, <2>6, <2>7 DEF IsLine
    <2>10. i + 1 <= b
      <3>1. b <= i => b \in a..i
        BY <2>5
      <3>2. ~(b <= i)
        BY <1>2, <2>7, <3>1
      <3> QED
        BY <3>2
    <2> QED
      BY <1>1, <2>7, <2>8, <2>9, <2>10
  <1> QED
    BY <1>1, <1>3, <1>4

\* The empty line at the end of a request.
LEMMA LastLineGoesOn ==
    ASSUME NEW s, NEW i \in Nat, NEW n \in Nat, NEW a \in 2..(i + 1), NEW p, HeadersAt(s, a, i, p),
           i < n, IsRequest(s, n), a = n - 1
    PROVE  \E y : Edge(p, s[i + 1], y)
  <1>0. PICK ch : ch = s[i + 1]
    OBVIOUS
  <1>1. s[n - 1] = "CR" /\ s[n] = "LF"
    BY DEF IsRequest
  <1>2. i = a - 1 \/ i = a
    OBVIOUS
  <1>3. ~HeaderEndAt(s, a, i, p)
    BY <1>2 DEF HeaderEndAt
  <1>4. ~ContinuationAt(s, a, i, p)
    <2>1. ~TextAt(s, a, i)
      <3>1. ~\E x \in a..(i - 1) : TRUE
        BY <1>2
      <3> QED
        BY <3>1, Zenon DEF TextAt
    <2>2. ~(i >= a /\ AllIn(s, a, i, Blanks))
      <3>1. i >= a => a \in a..i
        OBVIOUS
      <3> QED
        BY <1>1, <3>1 DEF AllIn, Blanks
    <2> QED
      BY <2>1, <2>2 DEF ContinuationAt
  <1>5. ~HeaderAt(s, a, i, p)
    <2>1. ~IsHeader(s, a, i)
      <3>1. ~\E x \in (a + 1)..(i - 1) : TRUE
        BY <1>2
      <3> QED
        BY <3>1, Zenon DEF IsHeader
    <2>2. ~(i >= a /\ AllIn(s, a, i, Token))
      <3>1. i >= a => a \in a..i
        OBVIOUS
      <3> QED
        BY <1>1, <3>1, Classes DEF AllIn
    <2>3. ~(i > a)
      BY <1>2
    <2> QED
      BY <2>1, <2>2, <2>3 DEF HeaderAt
  <1>6. CASE LineStartAt(s, a, i, p)
    <2>1. p.state = "header_line_start" /\ i + 1 = n - 1
      BY <1>6 DEF LineStartAt
    <2>2. ch \in {"CR"}
      BY <1>0, <1>1, <2>1
    <2>3. Edge(p, ch, "expecting_newline_3")
      BY <2>1, <2>2, Edges
    <2> QED
      BY <1>0, <2>3
  <1>7. CASE LastLineAt(s, a, i, p)
    <2>1. p.state = "expecting_newline_3" /\ i + 1 = n
      BY <1>7 DEF LastLineAt
    <2>2. ch \in {"LF"}
      BY <1>0, <1>1, <2>1
    <2>3. Edge(p, ch, "done")
      BY <2>1, <2>2, Edges
    <2> QED
      BY <1>0, <2>3
  <1> QED
    BY <1>3, <1>4, <1>5, <1>6, <1>7 DEF HeadersAt

\* The parser takes every character of a request.
LEMMA RequestGoesOn ==
    ASSUME NEW s, NEW i \in Nat, NEW n \in Nat, NEW p, Where(s, i, p), i < n, IsRequest(s, n)
    PROVE  \E y : Edge(p, s[i + 1], y)
  <1>1. CASE InLine(s, 1, i) /\ RequestLineAt(s, i, p)
    <2>1. 1 # n - 1
      BY DEF IsRequest
    <2>2. PICK b \in Nat : i + 1 <= b /\ s[b] = "LF" /\ IsGoodLine(s, 1, b)
      BY <1>1, <2>1, LineEnds
    <2>3. s[b - 1] = "CR" /\ IsRequestLine(s, b - 2)
      BY <2>2 DEF IsGoodLine
    <2> QED
      BY <1>1, <2>2, <2>3, RequestLineGoesOn
  <1>2. ASSUME NEW a \in 2..(i + 1), InLine(s, a, i), HeadersAt(s, a, i, p)
        PROVE  \E y : Edge(p, s[i + 1], y)
    <2>1. a \in Nat
      OBVIOUS
    <2>2. CASE a = n - 1
      BY <1>2, <2>2, LastLineGoesOn
    <2>3. ASSUME NEW b \in Nat, i + 1 <= b, s[b] = "LF", IsGoodLine(s, a, b)
          PROVE  \E y : Edge(p, s[i + 1], y)
      BY <1>2, <2>3, HeadersGoOn
    <2> QED
      BY <1>2, <2>1, <2>2, <2>3, LineEnds
  <1> QED
    BY <1>1, <1>2 DEF Where

\* The empty line is not a good one.
LEMMA EmptyLine ==
    ASSUME NEW s, NEW n \in Nat, IsRequest(s, n)
    PROVE  ~GoodUpTo(s, n)
  <1>1. n > 2 /\ s[n - 2] = "LF" /\ s[n - 1] = "CR" /\ s[n] = "LF"
    BY DEF IsRequest
  <1>2. n \in 1..n /\ n - 1 \in 1..n /\ (n - 1) - 1 = n - 2
    BY <1>1
  <1>3. \A k \in (n - 1)..(n - 1) : k = n - 1
    OBVIOUS
  <1>4. IsLine(s, n - 1, n)
    BY <1>1, <1>2, <1>3 DEF IsLine
  <1>5. ~IsGoodLine(s, n - 1, n)
    <2>1. n - 1 # 1
      BY <1>1
    <2>2. ~IsHeader(s, n - 1, n - 2)
      <3>1. ~\E x \in ((n - 1) + 1)..((n - 2) - 1) : TRUE
        OBVIOUS
      <3> QED
        BY <3>1, Zenon DEF IsHeader
    <2>3. ~IsContinuation(s, n - 1, n - 2)
      <3>1. ~\E x \in (n - 1)..(n - 2) : TRUE
        OBVIOUS
      <3> QED
        BY <3>1, Zenon DEF IsContinuation
    <2> QED
      BY <2>1, <2>2, <2>3 DEF IsGoodLine
  <1> QED
    BY <1>2, <1>4, <1>5 DEF GoodUpTo

\* After a request the parser has its verdict.
LEMMA NotWithin ==
    ASSUME NEW s, NEW n \in Nat, NEW p, IsRequest(s, n)
    PROVE  ~Where(s, n, p)
  <1>1. n > 2 /\ s[n] = "LF"
    BY DEF IsRequest
  <1>2. ASSUME NEW a \in 1..(n + 1), InLine(s, a, n) PROVE FALSE
    <2>1. a <= n => n \in a..n
      OBVIOUS
    <2>2. a = n + 1
      <3>1. ~(a <= n)
        BY <1>1, <1>2, <2>1 DEF InLine
      <3> QED
        BY <3>1
    <2>3. GoodUpTo(s, n)
      <3>1. a - 1 = n
        BY <2>2
      <3> QED
        BY <1>2, <3>1 DEF InLine
    <2> QED
      BY <2>3, EmptyLine
  <1>3. 1 \in 1..(n + 1) /\ \A a \in 2..(n + 1) : a \in 1..(n + 1)
    OBVIOUS
  <1> QED
    BY <1>2, <1>3 DEF Where

-----------------------------------------------------------------------------
(* The verdict *)

\* The parser has kept the URI of the request.
HasUri(s, p) == p.uri = UriOf(s) /\ p.uri \in Seq(Chars)

\* One more character: the parser goes on, or it has found the request, or it rejects.
LEMMA AdvanceStep ==
    ASSUME NEW s \in Seq(Chars), NEW i \in 0..(Len(s) - 1), NEW p, Where(s, i, p)
    PROVE  \/ Where(s, i + 1, Advance(p, s[i + 1]))
           \/ /\ Advance(p, s[i + 1]).result = "good" /\ IsRequest(s, i + 1)
              /\ HasUri(s, Advance(p, s[i + 1]))
           \/ /\ Advance(p, s[i + 1]).result = "bad"
              /\ \A n \in Nat : i < n => ~IsRequest(s, n)
  <1>1. PICK ch : ch = s[i + 1]
    OBVIOUS
  <1>2. PICK q : q = consume(p, ch)
    OBVIOUS
  <1>3. IsParser(p) /\ p.result = "indeterminate"
    BY DEF Where
  <1>4. Advance(p, s[i + 1]) = q
    BY <1>1, <1>2, <1>3 DEF Advance
  <1>5. CASE Takes(p, ch, q)
    <2>1. \/ Where(s, i + 1, q)
          \/ /\ q.result = "good" /\ IsRequest(s, i + 1)
             /\ \E j \in 1..i : UriRead(s, j, q.uri)
      BY <1>1, <1>5, TakesStep
    <2>2. ASSUME NEW j \in 1..i, UriRead(s, j, q.uri) PROVE HasUri(s, q)
      <3>1. j \in 1..Len(s)
        OBVIOUS
      <3>2. q.uri = UriOf(s)
        BY <2>2, <3>1, UriIsUriOf
      <3>3. PICK h \in 2..(j - 1) : q.uri = SubSeq(s, h + 1, j - 1)
        BY <2>2 DEF UriRead, UriUpTo
      <3>4. \A k \in (h + 1)..(j - 1) : s[k] \in Chars
        BY <3>1
      <3>5. SubSeq(s, h + 1, j - 1) \in Seq(Chars)
        BY <3>1, <3>4, SubSeqProperties
      <3> QED
        BY <3>2, <3>3, <3>5 DEF HasUri
    <2> QED
      BY <1>4, <2>1, <2>2
  <1>6. CASE q.result = "bad" /\ \A y : ~Edge(p, ch, y)
    <2>1. ASSUME NEW n \in Nat, i < n PROVE ~IsRequest(s, n)
      <3>1. i \in Nat
        OBVIOUS
      <3> QED
        BY <1>1, <1>6, <2>1, <3>1, RequestGoesOn
    <2> QED
      BY <1>4, <1>6, <2>1
  <1> QED
    BY <1>2, <1>3, <1>5, <1>6, ConsumeMoves

\* The parser before the first character.
LEMMA StartsHere ==
    ASSUME NEW s
    PROVE  Where(s, 0, NewParser)
  <1>1. InLine(s, 1, 0)
    <2>1. 1 \in 1..(0 + 1) /\ (\A k \in 1..0 : FALSE) /\ \A b \in 1..(1 - 1) : FALSE
      OBVIOUS
    <2> QED
      BY <2>1 DEF InLine, GoodUpTo
  <1>2. MethodAt(s, 0, NewParser) /\ NewParser.uri = <<>> /\ NewParser.anyHeader = FALSE
        /\ NewParser.result = "indeterminate" /\ IsParser(NewParser)
    BY DEF MethodAt, NewParser, IsParser
  <1> QED
    BY <1>1, <1>2 DEF Where, RequestLineAt

\* The verdict after i characters is the right one.
RightVerdict(s, i, p) ==
    \/ Where(s, i, p)
    \/ p.result = "good" /\ HasUri(s, p) /\ \E n \in 1..i : IsRequest(s, n)
    \/ p.result = "bad" /\ \A n \in 1..Len(s) : ~IsRequest(s, n)

\* A verdict that is right stays right with the next character.
LEMMA VerdictStep ==
    ASSUME NEW s \in Seq(Chars), NEW i \in 0..(Len(s) - 1), NEW p, RightVerdict(s, i, p),
           \A n \in 1..i : Where(s, i, p) => ~IsRequest(s, n)
    PROVE  RightVerdict(s, i + 1, Advance(p, s[i + 1]))
  <1>1. CASE Where(s, i, p)
    <2>1. CASE \A n \in Nat : i < n => ~IsRequest(s, n)
      <3>1. \A n \in 1..Len(s) : n \in 1..i \/ (n \in Nat /\ i < n)
        OBVIOUS
      <3>2. \A n \in 1..Len(s) : ~IsRequest(s, n)
        BY <1>1, <2>1, <3>1
      <3>3. i + 1 \in Nat /\ i < i + 1
        OBVIOUS
      <3> QED
        BY <1>1, <2>1, <3>2, <3>3, AdvanceStep DEF RightVerdict
    <2>2. CASE ~\A n \in Nat : i < n => ~IsRequest(s, n)
      <3>1. i + 1 \in 1..(i + 1)
        OBVIOUS
      <3> QED
        BY <1>1, <2>2, <3>1, AdvanceStep DEF RightVerdict
    <2> QED
      BY <2>1, <2>2
  <1>2. CASE p.result = "good" /\ HasUri(s, p) /\ \E n \in 1..i : IsRequest(s, n)
    <2>1. Advance(p, s[i + 1]) = p
      BY <1>2 DEF Advance
    <2>2. \A n \in 1..i : n \in 1..(i + 1)
      OBVIOUS
    <2> QED
      BY <1>2, <2>1, <2>2 DEF RightVerdict
  <1>3. CASE p.result = "bad" /\ \A n \in 1..Len(s) : ~IsRequest(s, n)
    <2>1. Advance(p, s[i + 1]) = p
      BY <1>3 DEF Advance
    <2> QED
      BY <1>3, <2>1 DEF RightVerdict
  <1> QED
    BY <1>1, <1>2, <1>3 DEF RightVerdict

\* The parser is right about every stream: its verdict is good exactly when the
\* stream has a request, and the URI is then the one the grammar names.
LEMMA ParserIsRight ==
    ASSUME NEW s \in Seq(Chars)
    PROVE  LET p == parse(NewParser, s)
           IN /\ p.result = "good" => RequestsIn(s) # {} /\ HasUri(s, p)
              /\ p.result # "good" => RequestsIn(s) = {}
  <1>1. PICK f : IsRun(NewParser, s, f) /\ parse(NewParser, s) = f[Len(s)]
    BY ParseIsRun
  <1>2. PICK m \in Nat : m = Len(s)
    OBVIOUS
  <1> DEFINE Early(i) == \A n \in 1..i : Where(s, i, f[i]) => ~IsRequest(s, n)
             T == {i \in 0..m : RightVerdict(s, i, f[i]) /\ Early(i)}
  <1>3. 0 \in T
    <2>1. f[0] = NewParser
      BY <1>1 DEF IsRun
    <2>2. RightVerdict(s, 0, f[0])
      BY <2>1, StartsHere DEF RightVerdict
    <2>3. 0 \in 0..m /\ \A n \in 1..0 : FALSE
      BY <1>2
    <2> QED
      BY <2>2, <2>3
  <1>4. ASSUME NEW i \in 0..(m - 1), i \in T PROVE i + 1 \in T
    <2>0. i \in 0..(Len(s) - 1) /\ i + 1 \in 1..Len(s) /\ (i + 1) - 1 = i /\ i + 1 \in 0..m
      BY <1>2
    <2>1. f[i + 1] = Advance(f[i], s[i + 1])
      BY <1>1, <2>0 DEF IsRun
    <2>2. RightVerdict(s, i, f[i]) /\ Early(i)
      BY <1>4
    <2>3. RightVerdict(s, i + 1, f[i + 1])
      BY <2>0, <2>1, <2>2, VerdictStep
    <2>4. ASSUME NEW n \in 1..(i + 1), Where(s, i + 1, f[i + 1]) PROVE ~IsRequest(s, n)
      <3>1. CASE n = i + 1
        <4>1. i + 1 \in Nat
          BY <2>0
        <4> QED
          BY <2>4, <3>1, <4>1, NotWithin
      <3>2. CASE n # i + 1
        <4>1. n \in 1..i
          BY <3>2
        <4>2. f[i].result = "indeterminate"
          <5>1. f[i + 1].result = "indeterminate"
            BY <2>4 DEF Where
          <5>2. f[i].result # "indeterminate" => f[i + 1] = f[i]
            BY <2>1 DEF Advance
          <5> QED
            BY <5>1, <5>2
        <4>3. Where(s, i, f[i])
          BY <2>2, <4>2 DEF RightVerdict
        <4> QED
          BY <2>2, <4>1, <4>3
      <3> QED
        BY <3>1, <3>2
    <2> QED
      BY <2>0, <2>3, <2>4
  <1>5. m \in T
    <2> HIDE DEF T
    <2>1. \A i \in 0..m : i \in T
      BY <1>3, <1>4, UpTo
    <2> QED
      BY <2>1
  <1>6. PICK p : p = f[m]
    OBVIOUS
  <1>7. RightVerdict(s, m, p) /\ \A n \in 1..m : Where(s, m, p) => ~IsRequest(s, n)
    BY <1>5, <1>6
  <1>8. RequestsIn(s) = {n \in 1..m : IsRequest(s, n)}
    BY <1>2 DEF RequestsIn
  <1>9. CASE Where(s, m, p)
    <2>1. p.result = "indeterminate"
      BY <1>9 DEF Where
    <2> QED
      BY <1>1, <1>2, <1>6, <1>7, <1>8, <1>9, <2>1
  <1>10. CASE p.result = "good" /\ HasUri(s, p) /\ \E n \in 1..m : IsRequest(s, n)
    BY <1>1, <1>2, <1>6, <1>8, <1>10
  <1>11. CASE p.result = "bad" /\ \A n \in 1..m : ~IsRequest(s, n)
    BY <1>1, <1>2, <1>6, <1>8, <1>11
  <1> QED
    BY <1>2, <1>7, <1>9, <1>10, <1>11 DEF RightVerdict

-----------------------------------------------------------------------------
(* The path *)

\* One turn of the loop of url_decode, and what the path is from the k-th character on.
DecodeStep(in, d, i) ==
    CASE ~d.ok -> d
      [] d.ok /\ d.skip > 0 -> [d EXCEPT !.skip = @ - 1]
      [] d.ok /\ d.skip = 0 /\ in[i] = "%" ->
           IF i + 2 <= Len(in) /\ HexReadable(in[i + 1], in[i + 2])
           THEN [d EXCEPT !.skip = 2,
                          !.out = Append(@, HexChar(in[i + 1], in[i + 2]))]
           ELSE [d EXCEPT !.ok = FALSE]
      [] OTHER -> [d EXCEPT !.out = Append(@, IF in[i] = "+" THEN " " ELSE in[i])]

NewDecoding == [ok |-> TRUE, skip |-> 0, out |-> <<>>]

Longer(ch, path) == IF path = NoPath THEN NoPath ELSE <<ch>> \o path

PathFrom(uri, g, k) ==
    CASE k > Len(uri) -> <<>>
      [] k <= Len(uri) /\ uri[k] = "+" -> Longer(" ", g[k + 1])
      [] k <= Len(uri) /\ uri[k] = "%" ->
           IF k + 2 > Len(uri) \/ ~HexReadable(uri[k + 1], uri[k + 2]) THEN NoPath
           ELSE Longer(HexChar(uri[k + 1], uri[k + 2]), g[k + 3])
      [] OTHER -> Longer(uri[k], g[k + 1])

\* The recursive function of url_decode exists: its turns, and its end.
LEMMA DecodeIsRun ==
    ASSUME NEW in \in Seq(Chars)
    PROVE  \E f : /\ f[0] = NewDecoding
                  /\ \A i \in 1..Len(in) : f[i] = DecodeStep(in, f[i - 1], i)
                  /\ url_decode(in) = f[Len(in)]
  <1> DEFINE n == Len(in)
             Holds(g) == g = [i \in 0..n |-> IF i = 0 THEN NewDecoding
                                             ELSE DecodeStep(in, g[i - 1], i)]
             T == {i \in 0..n : \E f : /\ f[0] = NewDecoding
                                       /\ \A j \in 1..i : f[j] = DecodeStep(in, f[j - 1], j)}
  <1>1. n \in Nat
    OBVIOUS
  <1>2. 0 \in T
    <2> DEFINE f == [i \in {0} |-> NewDecoding]
    <2>1. f[0] = NewDecoding /\ \A j \in 1..0 : f[j] = DecodeStep(in, f[j - 1], j)
      OBVIOUS
    <2> HIDE DEF f
    <2>2. 0 \in 0..n
      BY <1>1
    <2> QED
      BY <2>1, <2>2, Zenon
  <1> HIDE DEF n
  <1>3. ASSUME NEW i \in 0..(n - 1), i \in T PROVE i + 1 \in T
    <2>1. PICK f : f[0] = NewDecoding /\ \A j \in 1..i : f[j] = DecodeStep(in, f[j - 1], j)
      BY <1>3
    <2> DEFINE g == [j \in 0..(i + 1) |-> IF j = i + 1 THEN DecodeStep(in, f[i], i + 1) ELSE f[j]]
    <2>2. g[0] = NewDecoding /\ g[i + 1] = DecodeStep(in, f[i], i + 1) /\ \A j \in 0..i : g[j] = f[j]
      BY <2>1
    <2> HIDE DEF g
    <2>3. ASSUME NEW j \in 1..(i + 1) PROVE g[j] = DecodeStep(in, g[j - 1], j)
      <3>1. CASE j = i + 1
        <4>1. j - 1 = i /\ i \in 0..i
          BY <3>1
        <4> QED
          BY <2>2, <3>1, <4>1
      <3>2. CASE j # i + 1
        <4>1. j \in 1..i /\ j \in 0..i /\ j - 1 \in 0..i
          BY <3>2
        <4> QED
          BY <2>1, <2>2, <4>1
      <3> QED
        BY <3>1, <3>2
    <2>4. i + 1 \in 0..n
      BY <1>1
    <2> QED
      BY <2>2, <2>3, <2>4
  <1>4. n \in T
    <2>1. \A i \in 0..n : i \in T
      <3> HIDE DEF T
      <3> QED
        BY <1>1, <1>2, <1>3, UpTo
    <2>2. n \in 0..n
      BY <1>1
    <2> QED
      BY <2>1, <2>2, Zenon
  <1>5. PICK f : f[0] = NewDecoding /\ \A j \in 1..n : f[j] = DecodeStep(in, f[j - 1], j)
    BY <1>4
  <1>6. \E g : Holds(g)
    <2> DEFINE g == [i \in 0..n |-> f[i]]
    <2>1. \A i \in 0..n : g[i] = f[i]
      OBVIOUS
    <2>2. \A i \in 0..n : g[i] = IF i = 0 THEN NewDecoding ELSE DecodeStep(in, g[i - 1], i)
      <3> HIDE DEF g
      <3>1. ASSUME NEW i \in 0..n PROVE i = 0 \/ (i \in 1..n /\ i - 1 \in 0..n)
        BY <1>1
      <3> QED
        BY <1>5, <2>1, <3>1
    <2>3. g = [i \in 0..n |-> g[i]]
      OBVIOUS
    <2> HIDE DEF g
    <2>4. Holds(g)
      BY <2>2, <2>3
    <2> QED
      BY <2>4
  <1> DEFINE after == CHOOSE g : Holds(g)
  <1>7. Holds(after)
    <2> HIDE DEF Holds
    <2> QED
      BY <1>6
  <1>8. url_decode(in) = after[n]
    BY DEF url_decode, DecodeStep, NewDecoding, n
  <1> HIDE DEF after
  <1>9. \A i \in 0..n : after[i] = IF i = 0 THEN NewDecoding ELSE DecodeStep(in, after[i - 1], i)
    BY <1>7
  <1>10. 0 \in 0..n /\ \A i \in 1..n : i \in 0..n /\ i # 0
    BY <1>1
  <1> QED
    BY <1>8, <1>9, <1>10 DEF n

\* So does the one of the reference definition, from the end of the URI back.
LEMMA PathIsFrom ==
    ASSUME NEW uri \in Seq(Chars)
    PROVE  \E f : /\ \A k \in 1..(Len(uri) + 1) : f[k] = PathFrom(uri, f, k)
                  /\ PathOf(uri) = f[1]
  <1> DEFINE n == Len(uri)
             Holds(g) == g = [k \in 1..(n + 1) |-> PathFrom(uri, g, k)]
             T == {i \in 0..n : \E g : \A k \in ((n + 1) - i)..(n + 1) : g[k] = PathFrom(uri, g, k)}
  <1>1. n \in Nat
    OBVIOUS
  <1>2. ASSUME NEW g, NEW h, NEW k \in 1..(n + 1), \A j \in (k + 1)..(n + 1) : g[j] = h[j]
        PROVE  PathFrom(uri, g, k) = PathFrom(uri, h, k)
    <2>1. k <= n => g[k + 1] = h[k + 1]
      BY <1>2
    <2>2. k + 2 <= n => g[k + 3] = h[k + 3]
      BY <1>2
    <2>3. ~(k + 2 > n) => k + 2 <= n
      OBVIOUS
    <2>4. ~(k > n) => k <= n
      OBVIOUS
    <2> HIDE DEF n
    <2> QED
      BY <2>1, <2>2, <2>3, <2>4 DEF PathFrom, n
  <1>3. 0 \in T
    <2> DEFINE g == [k \in {n + 1} |-> <<>>]
    <2>1. \A k \in ((n + 1) - 0)..(n + 1) : k = n + 1
      OBVIOUS
    <2>2. g[n + 1] = <<>>
      OBVIOUS
    <2>3. ASSUME NEW h PROVE PathFrom(uri, h, n + 1) = <<>>
      <3>1. PICK k : k = n + 1
        OBVIOUS
      <3>2. k > Len(uri) /\ ~(k <= Len(uri))
        BY <3>1
      <3>3. PathFrom(uri, h, k) = <<>>
        BY <3>2, Zenon DEF PathFrom
      <3> QED
        BY <3>1, <3>3
    <2> HIDE DEF g
    <2>4. 0 \in 0..n
      BY <1>1
    <2> QED
      BY <2>1, <2>2, <2>3, <2>4
  <1> HIDE DEF n
  <1>4. ASSUME NEW i \in 0..(n - 1), i \in T PROVE i + 1 \in T
    <2>1. PICK f : \A k \in ((n + 1) - i)..(n + 1) : f[k] = PathFrom(uri, f, k)
      BY <1>4
    <2>2. PICK x \in 1..n : x = n - i
      BY <1>1
    <2> DEFINE g == [k \in 1..(n + 1) |-> IF k = x THEN PathFrom(uri, f, x) ELSE f[k]]
    <2>3. g[x] = PathFrom(uri, f, x) /\ \A k \in (x + 1)..(n + 1) : g[k] = f[k]
      BY <1>1
    <2> HIDE DEF g
    <2>4. ASSUME NEW k \in x..(n + 1) PROVE g[k] = PathFrom(uri, g, k)
      <3>0. k \in 1..(n + 1) /\ \A j \in (k + 1)..(n + 1) : j \in (x + 1)..(n + 1)
        BY <1>1
      <3>1. PathFrom(uri, g, k) = PathFrom(uri, f, k)
        BY <1>2, <2>3, <3>0
      <3>2. k = x \/ k \in (x + 1)..(n + 1)
        BY <1>1
      <3>3. (x + 1)..(n + 1) = ((n + 1) - i)..(n + 1)
        BY <1>1, <2>2
      <3> QED
        BY <2>1, <2>3, <3>1, <3>2, <3>3
    <2>5. i + 1 \in 0..n /\ ((n + 1) - (i + 1))..(n + 1) = x..(n + 1)
      BY <1>1, <2>2
    <2> QED
      BY <2>4, <2>5
  <1>5. n \in T
    <2>1. \A i \in 0..n : i \in T
      <3> HIDE DEF T
      <3> QED
        BY <1>1, <1>3, <1>4, UpTo
    <2>2. n \in 0..n
      BY <1>1
    <2> QED
      BY <2>1, <2>2, Zenon
  <1>6. PICK f : \A k \in 1..(n + 1) : f[k] = PathFrom(uri, f, k)
    <2>1. ((n + 1) - n)..(n + 1) = 1..(n + 1)
      BY <1>1
    <2> QED
      BY <1>5, <2>1
  <1>7. \E g : Holds(g)
    <2> DEFINE g == [k \in 1..(n + 1) |-> f[k]]
    <2>1. \A k \in 1..(n + 1) : g[k] = f[k]
      OBVIOUS
    <2>2. g = [k \in 1..(n + 1) |-> g[k]]
      OBVIOUS
    <2> HIDE DEF g
    <2>3. \A k \in 1..(n + 1) : g[k] = PathFrom(uri, g, k)
      <3>1. ASSUME NEW k \in 1..(n + 1) PROVE PathFrom(uri, g, k) = PathFrom(uri, f, k)
        <4>1. \A j \in (k + 1)..(n + 1) : j \in 1..(n + 1)
          BY <1>1
        <4> QED
          BY <1>2, <2>1, <4>1
      <3> QED
        BY <1>6, <2>1, <3>1
    <2>4. Holds(g)
      BY <2>2, <2>3
    <2> QED
      BY <2>4
  <1> DEFINE from == CHOOSE g : Holds(g)
  <1>8. Holds(from)
    <2> HIDE DEF Holds
    <2> QED
      BY <1>7
  <1>9. PathOf(uri) = from[1]
    BY DEF PathOf, PathFrom, Longer, n
  <1> HIDE DEF from
  <1>10. \A k \in 1..(n + 1) : from[k] = PathFrom(uri, from, k)
    BY <1>8
  <1> QED
    BY <1>9, <1>10 DEF n

\* The parts of a decoding.
LEMMA DecodingParts ==
    ASSUME NEW d \in Decodings, NEW x, NEW y
    PROVE  /\ d = [ok |-> d.ok, skip |-> d.skip, out |-> d.out]
           /\ [d EXCEPT !.skip = x] = [ok |-> d.ok, skip |-> x, out |-> d.out]
           /\ [d EXCEPT !.ok = x] = [ok |-> x, skip |-> d.skip, out |-> d.out]
           /\ [d EXCEPT !.out = x] = [ok |-> d.ok, skip |-> d.skip, out |-> x]
           /\ [d EXCEPT !.skip = x, !.out = y] = [ok |-> d.ok, skip |-> x, out |-> y]
  <1>1. d = [ok |-> d.ok, skip |-> d.skip, out |-> d.out]
    BY DEF Decodings
  <1>2. [d EXCEPT !.skip = x] = [ok |-> d.ok, skip |-> x, out |-> d.out]
    BY <1>1
  <1>3. [d EXCEPT !.ok = x] = [ok |-> x, skip |-> d.skip, out |-> d.out]
    BY <1>1
  <1>4. [d EXCEPT !.out = x] = [ok |-> d.ok, skip |-> d.skip, out |-> x]
    BY <1>1
  <1>5. [d EXCEPT !.skip = x, !.out = y] = [ok |-> d.ok, skip |-> x, out |-> y]
    <2>1. PICK r : r = [d EXCEPT !.skip = x]
      OBVIOUS
    <2>2. r = [ok |-> d.ok, skip |-> x, out |-> d.out]
      BY <1>2, <2>1
    <2>3. [r EXCEPT !.out = y] = [ok |-> d.ok, skip |-> x, out |-> y]
      BY <2>2
    <2>4. [d EXCEPT !.skip = x, !.out = y] = [r EXCEPT !.out = y]
      BY <2>1
    <2> QED
      BY <2>3, <2>4
  <1> QED
    BY <1>1, <1>2, <1>3, <1>4, <1>5

\* What a turn of the loop does: e comes after d.
Turn(in, i, d, e) ==
    /\ ~d.ok => e = d
    /\ d.ok /\ d.skip > 0 => e = [ok |-> TRUE, skip |-> d.skip - 1, out |-> d.out]
    /\ d.ok /\ d.skip = 0 /\ in[i] = "%" =>
         /\ i + 2 <= Len(in) /\ HexReadable(in[i + 1], in[i + 2]) =>
              e = [ok |-> TRUE, skip |-> 2,
                   out |-> Append(d.out, HexChar(in[i + 1], in[i + 2]))]
         /\ ~(i + 2 <= Len(in) /\ HexReadable(in[i + 1], in[i + 2])) =>
              e = [ok |-> FALSE, skip |-> 0, out |-> d.out]
    /\ d.ok /\ d.skip = 0 /\ in[i] # "%" =>
         e = [ok |-> TRUE, skip |-> 0,
              out |-> Append(d.out, IF in[i] = "+" THEN " " ELSE in[i])]

\* The turns of the loop do just that.
LEMMA DecodeTurn ==
    ASSUME NEW in, NEW i, NEW d \in Decodings
    PROVE  Turn(in, i, d, DecodeStep(in, d, i))
  <1> USE DEF Turn
  <1>1. d.ok \in BOOLEAN /\ d.skip \in 0..2
    BY DEF Decodings
  <1>2. CASE ~d.ok
    <2>1. DecodeStep(in, d, i) = d
      BY <1>2, Zenon DEF DecodeStep
    <2> QED
      BY <1>2, <2>1
  <1>3. CASE d.ok /\ d.skip > 0
    <2>0. ~(d.skip = 0)
      BY <1>1, <1>3
    <2>1. DecodeStep(in, d, i) = [d EXCEPT !.skip = @ - 1]
      BY <1>3, <2>0 DEF DecodeStep
    <2>2. [d EXCEPT !.skip = @ - 1] = [ok |-> TRUE, skip |-> d.skip - 1, out |-> d.out]
      BY <1>1, <1>3, DecodingParts
    <2> QED
      BY <1>3, <2>0, <2>1, <2>2
  <1>4. CASE d.ok /\ d.skip = 0 /\ in[i] = "%"
    <2>0. ~(d.skip > 0)
      BY <1>4
    <2>1. CASE i + 2 <= Len(in) /\ HexReadable(in[i + 1], in[i + 2])
      <3>1. DecodeStep(in, d, i) = [d EXCEPT !.skip = 2,
                          !.out = Append(@, HexChar(in[i + 1], in[i + 2]))]
        BY <1>4, <2>0, <2>1 DEF DecodeStep
      <3>2. [d EXCEPT !.skip = 2, !.out = Append(@, HexChar(in[i + 1], in[i + 2]))] =
               [ok |-> TRUE, skip |-> 2, out |-> Append(d.out, HexChar(in[i + 1], in[i + 2]))]
        <4>1. PICK o : o = Append(d.out, HexChar(in[i + 1], in[i + 2]))
          OBVIOUS
        <4>2. [d EXCEPT !.skip = 2, !.out = o] = [ok |-> d.ok, skip |-> 2, out |-> o]
          BY DecodingParts
        <4>3. d.ok = TRUE
          BY <1>1, <1>4
        <4> QED
          BY <4>1, <4>2, <4>3
      <3> QED
        BY <1>4, <2>0, <2>1, <3>1, <3>2
    <2>2. CASE ~(i + 2 <= Len(in) /\ HexReadable(in[i + 1], in[i + 2]))
      <3>1. DecodeStep(in, d, i) = [d EXCEPT !.ok = FALSE]
        BY <1>4, <2>0, <2>2 DEF DecodeStep
      <3>2. [d EXCEPT !.ok = FALSE] = [ok |-> FALSE, skip |-> 0, out |-> d.out]
        BY <1>1, <1>4, DecodingParts
      <3> QED
        BY <1>4, <2>0, <2>2, <3>1, <3>2
    <2> QED
      BY <2>1, <2>2
  <1>5. CASE d.ok /\ d.skip = 0 /\ in[i] # "%"
    <2>0. ~(d.skip > 0)
      BY <1>5
    <2>1. DecodeStep(in, d, i) = [d EXCEPT !.out = Append(@, IF in[i] = "+" THEN " " ELSE in[i])]
      BY <1>5, <2>0 DEF DecodeStep
    <2>2. [d EXCEPT !.out = Append(@, IF in[i] = "+" THEN " " ELSE in[i])] =
             [ok |-> TRUE, skip |-> 0, out |-> Append(d.out, IF in[i] = "+" THEN " " ELSE in[i])]
      BY <1>1, <1>5, DecodingParts
    <2> QED
      BY <1>5, <2>0, <2>1, <2>2
  <1> QED
    BY <1>1, <1>2, <1>3, <1>4, <1>5

\* The reference definition, by the k-th character.
LEMMA PathTurn ==
    ASSUME NEW uri, NEW g, NEW k, Len(uri) \in Nat, k \in Nat
    PROVE  /\ k > Len(uri) => PathFrom(uri, g, k) = <<>>
           /\ k <= Len(uri) /\ uri[k] = "%" =>
                /\ k + 2 <= Len(uri) /\ HexReadable(uri[k + 1], uri[k + 2]) =>
                     PathFrom(uri, g, k) = Longer(HexChar(uri[k + 1], uri[k + 2]), g[k + 3])
                /\ ~(k + 2 <= Len(uri) /\ HexReadable(uri[k + 1], uri[k + 2])) =>
                     PathFrom(uri, g, k) = NoPath
           /\ k <= Len(uri) /\ uri[k] # "%" =>
                PathFrom(uri, g, k) = Longer(IF uri[k] = "+" THEN " " ELSE uri[k], g[k + 1])
  <1>1. CASE k > Len(uri)
    <2>1. ~(k <= Len(uri))
      BY <1>1
    <2>2. PathFrom(uri, g, k) = <<>>
      BY <1>1, <2>1, Zenon DEF PathFrom
    <2> QED
      BY <1>1, <2>1, <2>2
  <1>2. CASE k <= Len(uri) /\ uri[k] = "%"
    <2>1. ~(k > Len(uri)) /\ (k + 2 > Len(uri) <=> ~(k + 2 <= Len(uri)))
      BY <1>2
    <2>2. CASE k + 2 <= Len(uri) /\ HexReadable(uri[k + 1], uri[k + 2])
      <3>1. PathFrom(uri, g, k) = Longer(HexChar(uri[k + 1], uri[k + 2]), g[k + 3])
        BY <1>2, <2>1, <2>2 DEF PathFrom
      <3> QED
        BY <1>2, <2>1, <2>2, <3>1
    <2>3. CASE ~(k + 2 <= Len(uri) /\ HexReadable(uri[k + 1], uri[k + 2]))
      <3>1. PathFrom(uri, g, k) = NoPath
        BY <1>2, <2>1, <2>3 DEF PathFrom
      <3> QED
        BY <1>2, <2>1, <2>3, <3>1
    <2> QED
      BY <2>2, <2>3
  <1>3. CASE k <= Len(uri) /\ uri[k] # "%"
    <2>1. ~(k > Len(uri))
      BY <1>3
    <2>2. PathFrom(uri, g, k) = Longer(IF uri[k] = "+" THEN " " ELSE uri[k], g[k + 1])
      BY <1>3, <2>1 DEF PathFrom
    <2> QED
      BY <1>3, <2>1, <2>2
  <1> QED
    BY <1>1, <1>2, <1>3

\* Characters that are in the alphabet, and a word that is not.
LEMMA SomeChars == {" ", ".", "/", "z"} \subseteq Chars /\ "none" \notin Chars
  BY DEF Chars, Letters, Digits, TSpecials, Ctls, NotAscii

\* A turn leaves a decoding.
LEMMA DecodingsStep ==
    ASSUME NEW in \in Seq(Chars), NEW i \in 1..Len(in), NEW d \in Decodings
    PROVE  DecodeStep(in, d, i) \in Decodings
  <1>1. d.ok \in BOOLEAN /\ d.skip \in 0..2 /\ d.out \in Seq(Chars) /\ in[i] \in Chars
    BY DEF Decodings
  <1>2. ASSUME NEW o \in BOOLEAN, NEW k \in 0..2, NEW w \in Seq(Chars)
        PROVE  [ok |-> o, skip |-> k, out |-> w] \in Decodings
    BY DEF Decodings
  <1>3. ASSUME NEW ch \in Chars PROVE Append(d.out, ch) \in Seq(Chars)
    BY <1>1
  <1>4. \A a, b : HexChar(a, b) \in Chars
    BY SomeChars DEF HexChar
  <1>5. (IF in[i] = "+" THEN " " ELSE in[i]) \in Chars
    BY <1>1, SomeChars
  <1> DEFINE hex == i + 2 <= Len(in) /\ HexReadable(in[i + 1], in[i + 2])
  <1>6. PICK e : e = DecodeStep(in, d, i)
    OBVIOUS
  <1>7. Turn(in, i, d, e)
    BY <1>6, DecodeTurn
  <1>8. CASE ~d.ok
    <2>1. e = d
      BY <1>7, <1>8 DEF Turn
    <2> QED
      BY <1>6, <2>1
  <1>9. CASE d.ok /\ d.skip > 0
    <2>1. e = [ok |-> TRUE, skip |-> d.skip - 1, out |-> d.out]
      BY <1>7, <1>9 DEF Turn
    <2>2. d.skip - 1 \in 0..2
      BY <1>1, <1>9
    <2> QED
      BY <1>1, <1>2, <1>6, <2>1, <2>2
  <1>10. CASE d.ok /\ d.skip = 0 /\ in[i] = "%" /\ hex
    <2>1. PICK ch : ch = HexChar(in[i + 1], in[i + 2])
      OBVIOUS
    <2>2. e = [ok |-> TRUE, skip |-> 2, out |-> Append(d.out, ch)]
      BY <1>7, <1>10, <2>1 DEF Turn
    <2>3. ch \in Chars
      BY <1>4, <2>1
    <2>4. PICK w \in Seq(Chars) : w = Append(d.out, ch)
      BY <1>3, <2>3
    <2>5. e \in Decodings
      BY <2>2, <2>4 DEF Decodings
    <2> QED
      BY <1>6, <2>5
  <1>11. CASE d.ok /\ d.skip = 0 /\ in[i] = "%" /\ ~hex
    <2>1. e = [ok |-> FALSE, skip |-> 0, out |-> d.out]
      BY <1>7, <1>11 DEF Turn
    <2>2. e \in Decodings
      BY <1>1, <2>1 DEF Decodings
    <2> QED
      BY <1>6, <2>2
  <1>12. CASE d.ok /\ d.skip = 0 /\ in[i] # "%"
    <2>1. PICK ch : ch = IF in[i] = "+" THEN " " ELSE in[i]
      OBVIOUS
    <2>2. e = [ok |-> TRUE, skip |-> 0, out |-> Append(d.out, ch)]
      BY <1>7, <1>12, <2>1 DEF Turn
    <2>3. ch \in Chars
      BY <1>5, <2>1
    <2>4. PICK w \in Seq(Chars) : w = Append(d.out, ch)
      BY <1>3, <2>3
    <2>5. e \in Decodings
      BY <2>2, <2>4 DEF Decodings
    <2> QED
      BY <1>6, <2>5
  <1> QED
    BY <1>1, <1>8, <1>9, <1>10, <1>11, <1>12

\* The loop comes to r from a state whose output is o, and the rest of the path is w.
Comes(o, w, r) ==
    \/ w = NoPath /\ ~r.ok
    \/ w \in Seq(Chars) /\ r.ok /\ r.out = o \o w

\* The mark for no path is not a path.
LEMMA NoPathIsNone == NoPath \notin Seq(Chars)
  <1> SUFFICES ASSUME NoPath \in Seq(Chars) PROVE FALSE
    OBVIOUS
  <1>1. PICK w \in Seq(Chars) : w = NoPath
    OBVIOUS
  <1>2. Len(w) = 1 /\ w[1] = "none"
    BY <1>1 DEF NoPath
  <1>3. w[1] \in Chars
    BY <1>2
  <1> QED
    BY <1>2, <1>3, SomeChars

\* A character that was appended is the first of the path.
LEMMA ComesFrom ==
    ASSUME NEW o \in Seq(Chars), NEW ch \in Chars, NEW w, NEW r, Comes(Append(o, ch), w, r)
    PROVE  Comes(o, Longer(ch, w), r)
  <1>1. CASE w = NoPath /\ ~r.ok
    BY <1>1 DEF Comes, Longer
  <1>2. CASE w \in Seq(Chars) /\ r.ok /\ r.out = Append(o, ch) \o w
    <2>1. w # NoPath
      BY <1>2, NoPathIsNone
    <2>2. PICK c : c = <<ch>>
      OBVIOUS
    <2>3. c \in Seq(Chars)
      BY <2>2
    <2>4. Append(o, ch) = o \o c
      BY <2>2, AppendIsConcat
    <2>5. (o \o c) \o w = o \o (c \o w)
      BY <1>2, <2>3, ConcatAssociative
    <2>6. c \o w \in Seq(Chars)
      BY <1>2, <2>3, ConcatProperties
    <2>7. Longer(ch, w) = c \o w
      BY <2>1, <2>2 DEF Longer
    <2> QED
      BY <1>2, <2>4, <2>5, <2>6, <2>7 DEF Comes
  <1> QED
    BY <1>1, <1>2 DEF Comes

\* url_decode finds the path the reference definition gives, or fails when there is none.
LEMMA Decoded ==
    ASSUME NEW uri \in Seq(Chars)
    PROVE  Comes(<<>>, PathOf(uri), url_decode(uri))
  <1>1. PICK n \in Nat : n = Len(uri)
    OBVIOUS
  <1>2. PICK f : /\ f[0] = NewDecoding
                 /\ \A i \in 1..n : f[i] = DecodeStep(uri, f[i - 1], i)
                 /\ url_decode(uri) = f[n]
    BY <1>1, DecodeIsRun
  <1>3. PICK g : /\ \A k \in 1..(n + 1) : g[k] = PathFrom(uri, g, k)
                 /\ PathOf(uri) = g[1]
    BY <1>1, PathIsFrom
  <1>4. \A i \in 0..n : f[i] \in Decodings
    <2> DEFINE T == {i \in 0..n : f[i] \in Decodings}
    <2>1. 0 \in T
      <3>1. NewDecoding \in Decodings
        BY DEF NewDecoding, Decodings
      <3> QED
        BY <1>2, <3>1
    <2>2. ASSUME NEW i \in 0..(n - 1), i \in T PROVE i + 1 \in T
      <3>1. i + 1 \in 1..Len(uri) /\ i + 1 \in 1..n /\ i + 1 \in 0..n /\ (i + 1) - 1 = i
        BY <1>1
      <3>2. f[i + 1] = DecodeStep(uri, f[i], i + 1)
        BY <1>2, <3>1
      <3>3. f[i + 1] \in Decodings
        BY <2>2, <3>1, <3>2, DecodingsStep
      <3> QED
        BY <3>1, <3>3
    <2> HIDE DEF T
    <2>3. \A i \in 0..n : i \in T
      BY <2>1, <2>2, UpTo
    <2> QED
      BY <2>3 DEF T
  <1>5. ASSUME NEW i \in 1..n PROVE Turn(uri, i, f[i - 1], f[i])
    <2>1. i - 1 \in 0..n
      OBVIOUS
    <2> QED
      BY <1>2, <1>4, <2>1, DecodeTurn
  <1>6. ASSUME NEW i \in 0..n, ~f[i].ok PROVE ~f[n].ok
    <2> DEFINE T == {m \in 0..n : ~f[n - m].ok => ~f[n].ok}
    <2>1. 0 \in T
      OBVIOUS
    <2>2. ASSUME NEW m \in 0..(n - 1), m \in T PROVE m + 1 \in T
      <3>1. PICK k \in 1..n : k = n - m
        OBVIOUS
      <3>2. n - (m + 1) = k - 1 /\ m + 1 \in 0..n
        BY <3>1
      <3>3. ~f[k - 1].ok => f[k] = f[k - 1]
        BY <1>5 DEF Turn
      <3>4. ~f[k].ok => ~f[n].ok
        BY <2>2, <3>1
      <3> QED
        BY <3>2, <3>3, <3>4
    <2> HIDE DEF T
    <2>3. \A m \in 0..n : m \in T
      BY <2>1, <2>2, UpTo
    <2>4. n - i \in 0..n /\ n - (n - i) = i
      OBVIOUS
    <2> QED
      BY <1>6, <2>3, <2>4 DEF T
  <1> DEFINE P(k) == f[k - 1].ok /\ f[k - 1].skip = 0 => Comes(f[k - 1].out, g[k], f[n])
  <1>7. P(n + 1)
    <2> SUFFICES ASSUME f[n].ok PROVE Comes(f[n].out, g[n + 1], f[n])
      OBVIOUS
    <2>1. g[n + 1] = <<>>
      <3>1. PICK k \in 1..(n + 1) : k = n + 1
        OBVIOUS
      <3>2. k > Len(uri) /\ k \in Nat /\ Len(uri) \in Nat
        BY <1>1, <3>1
      <3>3. PathFrom(uri, g, k) = <<>>
        BY <3>2, PathTurn
      <3> QED
        BY <1>3, <3>1, <3>3
    <2>2. f[n].out \in Seq(Chars)
      BY <1>4 DEF Decodings
    <2>3. f[n].out \o <<>> = f[n].out
      BY <2>2, ConcatEmptySeq
    <2> QED
      BY <2>1, <2>3 DEF Comes
  <1>8. ASSUME NEW k \in 1..n, \A j \in (k + 1)..(n + 1) : P(j) PROVE P(k)
    <2> SUFFICES ASSUME f[k - 1].ok, f[k - 1].skip = 0
                 PROVE  Comes(f[k - 1].out, g[k], f[n])
      OBVIOUS
    <2>1. PICK d : d = f[k - 1]
      OBVIOUS
    <2>2. d \in Decodings /\ d.out \in Seq(Chars) /\ uri[k] \in Chars
      <3>1. k - 1 \in 0..n /\ k \in 1..Len(uri)
        BY <1>1
      <3>2. d \in Decodings
        BY <1>4, <2>1, <3>1
      <3> QED
        BY <3>1, <3>2 DEF Decodings
    <2>3. Turn(uri, k, d, f[k])
      BY <1>5, <2>1
    <2> DEFINE hex == k + 2 <= n /\ HexReadable(uri[k + 1], uri[k + 2])
    <2>4. CASE uri[k] = "%" /\ hex
      <3>1. PICK ch : ch = HexChar(uri[k + 1], uri[k + 2])
        OBVIOUS
      <3>2. ch \in Chars
        BY <3>1, SomeChars DEF HexChar
      <3>3. PICK o : o = Append(d.out, ch)
        OBVIOUS
      <3>4. f[k] = [ok |-> TRUE, skip |-> 2, out |-> o]
        BY <1>1, <2>1, <2>3, <2>4, <3>1, <3>3 DEF Turn
      <3>5. k + 1 \in 1..n /\ k + 2 \in 1..n /\ (k + 1) - 1 = k /\ (k + 2) - 1 = k + 1
        BY <2>4
      <3>6. Turn(uri, k + 1, f[k], f[k + 1]) /\ Turn(uri, k + 2, f[k + 1], f[k + 2])
        BY <1>5, <3>5
      <3>7. f[k + 1] = [ok |-> TRUE, skip |-> 1, out |-> o]
        <4>1. PICK e : e = f[k]
          OBVIOUS
        <4>2. e.ok /\ e.skip = 2 /\ e.out = o
          BY <3>4, <4>1
        <4>3. e.skip > 0 /\ e.skip - 1 = 1
          BY <4>2
        <4>4. PICK t : t = k + 1
          OBVIOUS
        <4>5. PICK r : r = f[t]
          OBVIOUS
        <4>6. Turn(uri, t, e, r)
          BY <3>6, <4>1, <4>4, <4>5
        <4>7. r = [ok |-> TRUE, skip |-> e.skip - 1, out |-> e.out]
          BY <4>2, <4>3, <4>6 DEF Turn
        <4> QED
          BY <4>2, <4>3, <4>4, <4>5, <4>7
      <3>8. f[k + 2] = [ok |-> TRUE, skip |-> 0, out |-> o]
        <4>1. PICK e : e = f[k + 1]
          OBVIOUS
        <4>2. e.ok /\ e.skip = 1 /\ e.out = o
          BY <3>7, <4>1
        <4>3. e.skip > 0 /\ e.skip - 1 = 0
          BY <4>2
        <4>4. PICK t : t = k + 2
          OBVIOUS
        <4>5. PICK r : r = f[t]
          OBVIOUS
        <4>6. Turn(uri, t, e, r)
          BY <3>6, <4>1, <4>4, <4>5
        <4>7. r = [ok |-> TRUE, skip |-> e.skip - 1, out |-> e.out]
          BY <4>2, <4>3, <4>6 DEF Turn
        <4> QED
          BY <4>2, <4>3, <4>4, <4>5, <4>7
      <3>9. k + 3 \in (k + 1)..(n + 1) /\ (k + 3) - 1 = k + 2
        BY <2>4
      <3>10. Comes(o, g[k + 3], f[n])
        BY <1>8, <3>8, <3>9
      <3>11. g[k] = Longer(ch, g[k + 3])
        <4>1. k \in 1..(n + 1) /\ k <= Len(uri) /\ k \in Nat /\ Len(uri) \in Nat
          BY <1>1
        <4>2. PathFrom(uri, g, k) = Longer(HexChar(uri[k + 1], uri[k + 2]), g[k + 3])
          BY <1>1, <2>4, <4>1, PathTurn
        <4> QED
          BY <1>3, <3>1, <4>1, <4>2
      <3> QED
        BY <2>1, <2>2, <3>2, <3>3, <3>10, <3>11, ComesFrom
    <2>5. CASE uri[k] = "%" /\ ~hex
      <3>1. f[k] = [ok |-> FALSE, skip |-> 0, out |-> d.out]
        BY <1>1, <2>1, <2>3, <2>5 DEF Turn
      <3>2. ~f[n].ok
        <4>1. k \in 0..n /\ ~f[k].ok
          BY <3>1
        <4> QED
          BY <1>6, <4>1
      <3>3. g[k] = NoPath
        <4>1. k \in 1..(n + 1) /\ k <= Len(uri) /\ k \in Nat /\ Len(uri) \in Nat
          BY <1>1
        <4>2. PathFrom(uri, g, k) = NoPath
          BY <1>1, <2>5, <4>1, PathTurn
        <4> QED
          BY <1>3, <4>1, <4>2
      <3> QED
        BY <3>2, <3>3 DEF Comes
    <2>6. CASE uri[k] # "%"
      <3>1. PICK ch : ch = IF uri[k] = "+" THEN " " ELSE uri[k]
        OBVIOUS
      <3>2. ch \in Chars
        BY <2>2, <3>1, SomeChars
      <3>3. PICK o : o = Append(d.out, ch)
        OBVIOUS
      <3>4. f[k] = [ok |-> TRUE, skip |-> 0, out |-> o]
        BY <2>1, <2>3, <2>6, <3>1, <3>3 DEF Turn
      <3>5. k + 1 \in (k + 1)..(n + 1) /\ (k + 1) - 1 = k
        OBVIOUS
      <3>6. Comes(o, g[k + 1], f[n])
        BY <1>8, <3>4, <3>5
      <3>7. g[k] = Longer(ch, g[k + 1])
        <4>1. k \in 1..(n + 1) /\ k <= Len(uri) /\ k \in Nat /\ Len(uri) \in Nat
          BY <1>1
        <4>2. PathFrom(uri, g, k) = Longer(IF uri[k] = "+" THEN " " ELSE uri[k], g[k + 1])
          BY <2>6, <4>1, PathTurn
        <4> QED
          BY <1>3, <3>1, <4>1, <4>2
      <3> QED
        BY <2>1, <2>2, <3>2, <3>3, <3>6, <3>7, ComesFrom
    <2> QED
      BY <2>4, <2>5, <2>6
  <1>9. P(1)
    <2> DEFINE T == {m \in 0..n : \A k \in ((n + 1) - m)..(n + 1) : P(k)}
    <2>1. 0 \in T
      <3>1. \A k \in ((n + 1) - 0)..(n + 1) : k = n + 1
        OBVIOUS
      <3> HIDE DEF P
      <3> QED
        BY <1>7, <3>1
    <2>2. ASSUME NEW m \in 0..(n - 1), m \in T PROVE m + 1 \in T
      <3>1. PICK x \in 1..n : x = n - m
        OBVIOUS
      <3>2. ((n + 1) - m)..(n + 1) = (x + 1)..(n + 1) /\ ((n + 1) - (m + 1))..(n + 1) = x..(n + 1)
        BY <3>1
      <3> HIDE DEF P
      <3>3. P(x)
        BY <1>8, <2>2, <3>2
      <3>4. ASSUME NEW k \in x..(n + 1) PROVE k = x \/ k \in (x + 1)..(n + 1)
        OBVIOUS
      <3>5. m + 1 \in 0..n
        OBVIOUS
      <3> QED
        BY <2>2, <3>2, <3>3, <3>4, <3>5
    <2> HIDE DEF T
    <2>3. \A m \in 0..n : m \in T
      BY <2>1, <2>2, UpTo
    <2>4. n \in 0..n /\ 1 \in ((n + 1) - n)..(n + 1)
      OBVIOUS
    <2> HIDE DEF P
    <2> QED
      BY <2>3, <2>4 DEF T
  <1>10. f[0].ok /\ f[0].skip = 0 /\ f[0].out = <<>> /\ 1 - 1 = 0
    BY <1>2 DEF NewDecoding
  <1> QED
    BY <1>2, <1>3, <1>9, <1>10

-----------------------------------------------------------------------------
(* The answer *)

StatsPath == <<"/", "s", "t", "a", "t", "s">>

\* A path the server does not look up.
Refused(path) == path = <<>> \/ path[1] # "/" \/ DotDot(path)

\* The three answers, as they go over the wire.
LEMMA Answers ==
    /\ to_buffers(stock_reply(400)) = <<400, "text/html", 400>>
    /\ to_buffers(stock_reply(404)) = <<404, "text/html", 404>>
    /\ to_buffers([status |-> 200, content |-> StatsPage, type |-> extension_to_type("json")]) =
          <<200, "application/json", StatsPage>>
  <1>1. \A x \in {200, 400, 404} : StatusLine(x) = x /\ StockPage(x) = x
    BY DEF StatusLine, StockPage, Statuses
  <1>2. extension_to_type("json") = "application/json"
    BY DEF extension_to_type
  <1>3. \A r : to_buffers(r) = <<StatusLine(r.status), r.type, r.content>>
    BY DEF to_buffers
  <1>4. \A x : stock_reply(x) = [status |-> x, content |-> StockPage(x), type |-> "text/html"]
    BY DEF stock_reply
  <1> QED
    BY <1>1, <1>2, <1>3, <1>4

\* The path of the statistics is acceptable,
LEMMA StatsIsServed == ~Refused(StatsPath)
  <1>1. StatsPath # <<>> /\ StatsPath[1] = "/"
    BY DEF StatsPath
  <1>2. Len(StatsPath) = 6 /\ \A i \in 1..6 : StatsPath[i] # "."
    BY DEF StatsPath
  <1>3. ~DotDot(StatsPath)
    BY <1>2 DEF DotDot
  <1> QED
    BY <1>1, <1>3 DEF Refused

\* and the mark for no path is not.
LEMMA NoPathIsRefused == Refused(NoPath) /\ NoPath # StatsPath
  <1>1. NoPath[1] = "none" /\ StatsPath[1] = "/"
    BY DEF NoPath, StatsPath
  <1> QED
    BY <1>1 DEF Refused

\* What handle_request says, by the result of url_decode.
LEMMA Handled ==
    ASSUME NEW u, NEW d, d = url_decode(u)
    PROVE  /\ ~d.ok \/ Refused(d.out) => handle_request(u) = stock_reply(400)
           /\ d.ok /\ d.out = StatsPath =>
                handle_request(u) = [status |-> 200, content |-> StatsPage,
                                     type |-> extension_to_type("json")]
           /\ d.ok /\ ~Refused(d.out) /\ d.out # StatsPath => handle_request(u) = stock_reply(404)
  <1> DEFINE stats == [status |-> 200, content |-> StatsPage, type |-> extension_to_type("json")]
  <1>1. PICK h : h = CASE ~d.ok -> stock_reply(400)
                       [] d.ok /\ Refused(d.out) -> stock_reply(400)
                       [] d.ok /\ d.out = StatsPath -> stats
                       [] OTHER -> stock_reply(404)
    OBVIOUS
  <1>2. handle_request(u) = h
    BY <1>1 DEF handle_request, Refused, StatsPath
  <1> HIDE DEF stats
  <1>3. ~d.ok \/ Refused(d.out) => h = stock_reply(400)
    BY <1>1, StatsIsServed
  <1>4. d.ok /\ d.out = StatsPath => h = stats
    BY <1>1, StatsIsServed
  <1>5. d.ok /\ ~Refused(d.out) /\ d.out # StatsPath => h = stock_reply(404)
    BY <1>1
  <1> QED
    BY <1>2, <1>3, <1>4, <1>5 DEF stats

\* What is expected, by the path.
LEMMA Deserved ==
    ASSUME NEW s, NEW w, RequestsIn(s) # {}, w = PathOf(UriOf(s))
    PROVE  /\ w = StatsPath => Expected(s) = <<200, "application/json", StatsPage>>
           /\ Refused(w) => Expected(s) = <<400, "text/html", 400>>
           /\ ~Refused(w) /\ w # StatsPath => Expected(s) = <<404, "text/html", 404>>
  <1> DEFINE a == <<200, "application/json", StatsPage>>
             b == <<400, "text/html", 400>>
             c == <<404, "text/html", 404>>
  <1>1. PICK h : h = Expected(s)
    OBVIOUS
  <1>2. h = CASE w = StatsPath -> a
              [] Refused(w) -> b
              [] OTHER -> c
    BY <1>1, Zenon DEF Expected, Refused, StatsPath
  <1> HIDE DEF a, b, c
  <1>3. w = StatsPath => h = a
    BY <1>2, StatsIsServed
  <1>4. Refused(w) => h = b
    BY <1>2, StatsIsServed
  <1>5. ~Refused(w) /\ w # StatsPath => h = c
    BY <1>2
  <1> QED
    BY <1>1, <1>3, <1>4, <1>5 DEF a, b, c

\* The reply to a verdict is the one the characters deserve.
LEMMA RightAnswer ==
    ASSUME NEW s \in Seq(Chars), NEW p, p = parse(NewParser, s), p.result \in {"good", "bad"}
    PROVE  AnswerTo(p) = Expected(s)
  <1>1. CASE p.result = "good"
    <2>1. RequestsIn(s) # {} /\ HasUri(s, p)
      BY <1>1, ParserIsRight
    <2>2. PICK u \in Seq(Chars) : u = p.uri /\ u = UriOf(s)
      BY <2>1 DEF HasUri
    <2>3. PICK w : w = PathOf(u)
      OBVIOUS
    <2>4. PICK d : d = url_decode(u)
      OBVIOUS
    <2>5. Comes(<<>>, w, d)
      BY <2>3, <2>4, Decoded
    <2>6. AnswerTo(p) = to_buffers(handle_request(u))
      BY <1>1, <2>2 DEF AnswerTo
    <2>7. CASE w = NoPath /\ ~d.ok
      <3>1. handle_request(u) = stock_reply(400)
        BY <2>4, <2>7, Handled
      <3>2. Refused(w)
        BY <2>7, NoPathIsRefused
      <3>3. Expected(s) = <<400, "text/html", 400>>
        BY <2>1, <2>2, <2>3, <3>2, Deserved
      <3> QED
        BY <2>6, <3>1, <3>3, Answers
    <2>8. CASE w \in Seq(Chars) /\ d.ok /\ d.out = <<>> \o w
      <3>1. d.out = w
        BY <2>8, ConcatEmptySeq
      <3>2. CASE w = StatsPath
        <4>1. handle_request(u) = [status |-> 200, content |-> StatsPage,
                                   type |-> extension_to_type("json")]
          BY <2>4, <2>8, <3>1, <3>2, Handled
        <4>2. Expected(s) = <<200, "application/json", StatsPage>>
          BY <2>1, <2>2, <2>3, <3>2, Deserved
        <4> QED
          BY <2>6, <4>1, <4>2, Answers
      <3>3. CASE Refused(w)
        <4>1. handle_request(u) = stock_reply(400)
          BY <2>4, <3>1, <3>3, Handled
        <4>2. Expected(s) = <<400, "text/html", 400>>
          BY <2>1, <2>2, <2>3, <3>3, Deserved
        <4> QED
          BY <2>6, <4>1, <4>2, Answers
      <3>4. CASE ~Refused(w) /\ w # StatsPath
        <4>1. handle_request(u) = stock_reply(404)
          BY <2>4, <2>8, <3>1, <3>4, Handled
        <4>2. Expected(s) = <<404, "text/html", 404>>
          BY <2>1, <2>2, <2>3, <3>4, Deserved
        <4> QED
          BY <2>6, <4>1, <4>2, Answers
      <3> QED
        BY <3>2, <3>3, <3>4
    <2> QED
      BY <2>5, <2>7, <2>8 DEF Comes
  <1>2. CASE p.result = "bad"
    <2>1. RequestsIn(s) = {}
      BY <1>2, ParserIsRight
    <2>2. AnswerTo(p) = to_buffers(stock_reply(400))
      BY <1>2 DEF AnswerTo
    <2> QED
      BY <2>1, <2>2, Answers DEF Expected
  <1> QED
    BY <1>1, <1>2

-----------------------------------------------------------------------------
(* The theorems *)

\* The inductive invariant holds in every reachable state.
LEMMA Inductive == Spec => []IInv
  <1>1. IInv /\ [Next]_vars => IInv'
    BY TypesStep, ServedStep, StoppedStep DEF IInv
  <1>2. QED
    BY <1>1, InitIInv, PTL DEF Spec

\* While the server runs, ConnectionManager holds exactly the connections with an
\* operation outstanding, whichever of the accept, read and write handlers succeed
\* or fail and in whatever order they come.
THEOREM ServedAreManaged == Spec => []ManagedIsServed
  <1>1. IInv => ManagedIsServed
    BY DEF IInv, ServedInv, ManagedIsServed, Starts, Stops
  <1>2. QED
    BY <1>1, Inductive, PTL

\* Whatever handler Server::stopImpl overtakes, at most one connection is left open
\* when the thread has ended.
THEOREM OneOutlivesStop == Spec => []AtMostOneOutlivesStop
  <1>1. IInv => AtMostOneOutlivesStop
    <2> SUFFICES ASSUME IInv, stopping = "done", io = Ended
                 PROVE  /\ \A c \in Conns : socket[c] = "open" <=> c \in connections
                        /\ Cardinality(connections) <= 1
      BY DEF AtMostOneOutlivesStop
    <2>1. /\ \A c \in Conns : socket[c] = "open" <=> c \in connections
          /\ \A c, d \in connections : c = d
      BY IoCalls DEF IInv, StoppedInv, Starts
    <2>2. connections = {} \/ \E c : connections = {c}
      BY <2>1
    <2>3. Cardinality({}) = 0 /\ \A c : Cardinality({c}) = 1
      BY FS_EmptySet, FS_Singleton
    <2>4. Cardinality(connections) = 0 \/ Cardinality(connections) = 1
      BY <2>2, <2>3, Zenon
    <2>5. QED
      BY <2>1, <2>4
  <1>2. QED
    BY <1>1, Inductive, PTL

\* However the stream of Connection::do_read is cut, RequestParser, url_decode and
\* RequestHandler answer what the characters read so far, taken as a whole, deserve,
\* and do not read on once they hold a request: for any number of clients and any
\* streams.
THEOREM AnswersAreRight == Spec => []AnswerIsRight
  <1> DEFINE Inv == ConnTypes /\ StreamTypes /\ SegmentsInv
  <1>1. Init => Inv
    BY InitIInv, InitSegments DEF IInv
  <1>2. Inv /\ [Next]_vars => Inv'
    BY TypesStep, SegmentsStep
  <1>3. Inv => AnswerIsRight
    <2> SUFFICES ASSUME Inv, NEW c \in Conns
                 PROVE  /\ reply[c] # <<>> => reply[c] = Expected(Received(c))
                        /\ op[c] = "read" => RequestsIn(Received(c)) = {}
      BY DEF AnswerIsRight, Received
    <2>1. PICK s : s = Received(c)
      OBVIOUS
    <2>2. s \in Seq(Chars)
      <3>1. stream[c] \in Seq(Chars) /\ arrived[c] \in Nat /\ arrived[c] <= Len(stream[c])
        BY DEF StreamTypes
      <3>2. arrived[c] + 0 = arrived[c]
        BY <3>1
      <3> QED
        BY <2>1, <3>1, <3>2, NextSegment DEF Received
    <2>3. PICK p : p = parse(NewParser, s)
      OBVIOUS
    <2>4. /\ p = parser[c]
          /\ reply[c] # <<>> => reply[c] = AnswerTo(p)
          /\ op[c] = "read" => p.result = "indeterminate"
      BY <2>1, <2>3 DEF SegmentsInv
    <2>5. ASSUME reply[c] # <<>> PROVE reply[c] = Expected(s)
      <3>1. p.result \in {"good", "bad"}
        BY <2>4, <2>5 DEF AnswerTo
      <3> QED
        BY <2>2, <2>3, <2>4, <2>5, <3>1, RightAnswer
    <2>6. ASSUME op[c] = "read" PROVE RequestsIn(s) = {}
      BY <2>2, <2>3, <2>4, <2>6, ParserIsRight
    <2> QED
      BY <2>1, <2>5, <2>6
  <1> QED
    BY <1>1, <1>2, <1>3, PTL DEF Spec
=============================================================================
