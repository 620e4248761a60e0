------------------------------ MODULE TcpInput ------------------------------
(***************************************************************************)
(* The TCP inputs (inputs/gelf/tcp and inputs/json/tcp): a server accepts  *)
(* connections and cuts what each peer sends at the NUL characters; every  *)
(* frame becomes a record offered to the input's queue.  The two servers   *)
(* are the same but for the type of the record.  The handlers run on the   *)
(* io threads of the input (IOInput), those of one connection in a strand. *)
(*                                                                         *)
(* A stream is a sequence of characters, NUL among them.  What is in the   *)
(* buffer of a connection is the part of its stream that has arrived and   *)
(* was not consumed.  A peer may close its connection or reset it.         *)
(***************************************************************************)
EXTENDS IOInput

CONSTANTS
    Conns,      \* the connections peers open
    Streams,    \* what a peer may send: sequences of characters
    NUL,        \* the delimiter
    Nobody      \* no connection

ASSUME ConnsAssumption == IsFiniteSet(Conns) /\ Nobody \notin Conns
ASSUME StreamsAssumption == \A s \in Streams : s \in Seq(Range(s))

VARIABLES
    stream,     \* stream[c]: what the peer of c sends in all
    arrived,    \* arrived[c]: how much of it has been read into m_buffer
    taken,      \* taken[c]: how much of that has been consumed
    peer,       \* peer[c]: "open", "closed" (orderly) or "reset"
    conn,       \* conn[c]: see ConnStates
    busy,       \* busy[t]: the connection whose handler t runs, or Nobody
    offered     \* offered[c]: the records offered to the queue, in order

tcpVars == <<stream, arrived, taken, peer, conn, busy, offered, ioVars>>

(* "read": async_read_until is outstanding; "lost": the session is gone    *)
(* without a close of its own.                                             *)
ConnStates == {"backlog", "read", "handling", "closed", "lost"}

TcpTypeOK ==
    /\ stream \in [Conns -> Streams]
    /\ \A c \in Conns : /\ arrived[c] \in 0..Len(stream[c])
                        /\ taken[c] \in 0..arrived[c]
    /\ peer \in [Conns -> {"open", "closed", "reset"}]
    /\ conn \in [Conns -> ConnStates]
    /\ busy \in [Threads -> Conns \cup {Nobody}]
    /\ IoTypeOK

TcpInit ==
    /\ stream \in [Conns -> Streams]
    /\ arrived = [c \in Conns |-> 0]
    /\ taken = [c \in Conns |-> 0]
    /\ peer = [c \in Conns |-> "open"]
    /\ conn = [c \in Conns |-> "backlog"]
    /\ busy = [t \in Threads |-> Nobody]
    /\ offered = [c \in Conns |-> <<>>]

----------------------------------------------------------------------------
(* The peers and the network. *)

(* The composed read takes any number of characters at a time, and goes on *)
(* only while the buffer holds no delimiter.                               *)
Buffer(c) == SubSeq(stream[c], taken[c] + 1, arrived[c])

HasFrame(c) == NUL \in Range(Buffer(c))

Arrive(c, n) ==
    /\ conn[c] = "read" /\ ~HasFrame(c)
    /\ peer[c] # "reset"
    /\ n \in 1..(Len(stream[c]) - arrived[c])
    /\ arrived' = [arrived EXCEPT ![c] = @ + n]
    /\ UNCHANGED <<stream, taken, peer, conn, busy, offered, ioVars>>

Hangup(c) ==
    /\ peer[c] = "open"
    /\ peer' \in {[peer EXCEPT ![c] = "closed"], [peer EXCEPT ![c] = "reset"]}
    /\ UNCHANGED <<stream, arrived, taken, conn, busy, offered, ioVars>>

----------------------------------------------------------------------------
(* The handlers. *)

Free(t) == Runs(t) /\ busy[t] = Nobody

(* handle_accept starts the first read and accepts again.  (The log call   *)
(* on its first line fails for a peer that is gone; the logger catches it.)*)
handle_accept(t, c) ==
    /\ Free(t)
    /\ conn[c] = "backlog"
    /\ conn' = [conn EXCEPT ![c] = "read"]
    /\ UNCHANGED <<stream, arrived, taken, peer, busy, offered, ioVars>>

FrameLength(c) == CHOOSE n \in 1..Len(Buffer(c)) :
                      /\ Buffer(c)[n] = NUL
                      /\ \A i \in 1..(n - 1) : Buffer(c)[i] # NUL

(* process: the frame without its delimiter becomes a record, which also   *)
(* takes the address of the peer.  remote_endpoint() throws if the peer    *)
(* has reset the connection; the exception is none that process catches,   *)
(* so it leaves run() and ends the thread, and the session with it.        *)
process(t, c) ==
    \/ /\ peer[c] # "reset"
       /\ offered' = [offered EXCEPT ![c] = Append(@, SubSeq(Buffer(c), 1, FrameLength(c) - 1))]
       /\ busy' = [busy EXCEPT ![t] = c]
       /\ conn' = [conn EXCEPT ![c] = "handling"]
       /\ UNCHANGED ioVars
    \/ /\ peer[c] = "reset"
       /\ ThreadEnds(t)
       /\ conn' = [conn EXCEPT ![c] = "lost"]
       /\ UNCHANGED <<offered, busy>>

(* handle_read with a frame; the queue may hold the thread up (throttle).  *)
handle_read(t, c) ==
    /\ Free(t)
    /\ conn[c] = "read" /\ HasFrame(c)
    /\ process(t, c)
    /\ UNCHANGED <<stream, arrived, taken, peer>>

(* Mutant: the frame stays in the buffer. *)
enqueue_returns_unconsumed(t) ==
    /\ busy[t] # Nobody
    /\ conn' = [conn EXCEPT ![busy[t]] = "read"]
    /\ busy' = [busy EXCEPT ![t] = Nobody]
    /\ UNCHANGED <<stream, arrived, taken, peer, offered, ioVars>>

(* Mutant: no further read is started. *)
enqueue_returns_no_read(t) ==
    /\ busy[t] # Nobody
    /\ taken' = [taken EXCEPT ![busy[t]] = @ + FrameLength(busy[t])]
    /\ conn' = [conn EXCEPT ![busy[t]] = "lost"]
    /\ busy' = [busy EXCEPT ![t] = Nobody]
    /\ UNCHANGED <<stream, arrived, peer, offered, ioVars>>

(* enqueue has returned, with or without success: the frame is consumed    *)
(* and the next read started.                                              *)
enqueue_returns(t) ==
    /\ busy[t] # Nobody
    /\ taken' = [taken EXCEPT ![busy[t]] = @ + FrameLength(busy[t])]
    /\ conn' = [conn EXCEPT ![busy[t]] = "read"]
    /\ busy' = [busy EXCEPT ![t] = Nobody]
    /\ UNCHANGED <<stream, arrived, peer, offered, ioVars>>

(* Mutant: the end of a stream is reported with the address of its peer,    *)
(* outside the logger, and the exception ends the thread.                  *)
handle_read_error_throws(t, c) ==
    /\ Free(t)
    /\ conn[c] = "read" /\ ~HasFrame(c)
    /\ peer[c] = "closed" /\ arrived[c] = Len(stream[c])
    /\ conn' = [conn EXCEPT ![c] = "lost"]
    /\ ThreadEnds(t)
    /\ UNCHANGED <<stream, arrived, taken, peer, busy, offered>>

(* handle_read without a frame: the end of the stream closes the socket,   *)
(* any other error only ends the chain of reads.  What is left in the      *)
(* buffer, a last frame without its delimiter, is dropped.                 *)
handle_read_error(t, c) ==
    /\ Free(t)
    /\ conn[c] = "read" /\ ~HasFrame(c)
    /\ \/ /\ peer[c] = "closed" /\ arrived[c] = Len(stream[c])
          /\ conn' = [conn EXCEPT ![c] = "closed"]
       \/ /\ peer[c] = "reset"
          /\ conn' = [conn EXCEPT ![c] = "lost"]
    /\ UNCHANGED <<stream, arrived, taken, peer, busy, offered, ioVars>>

----------------------------------------------------------------------------
TcpNext ==
    \/ \E c \in Conns : Hangup(c) \/ \E n \in 1..Len(stream[c]) : Arrive(c, n)
    \/ \E t \in Threads :
          \/ enqueue_returns(t)
          \/ \E c \in Conns : \/ handle_accept(t, c)
                              \/ handle_read(t, c)
                              \/ handle_read_error(t, c)

(* The threads run what is ready, the queue lets a record in or refuses it *)
(* in the end, and the network delivers what was sent.                     *)
TcpFairness ==
    /\ \A c \in Conns :
          /\ WF_tcpVars(\E n \in 1..Len(stream[c]) : Arrive(c, n))
          /\ WF_tcpVars(\E t \in Threads : handle_accept(t, c))
          /\ WF_tcpVars(\E t \in Threads : handle_read(t, c))
          /\ WF_tcpVars(\E t \in Threads : handle_read_error(t, c))
    /\ \A t \in Threads : WF_tcpVars(enqueue_returns(t))

----------------------------------------------------------------------------
(* The frames of a stream: what stands before the first NUL, and between   *)
(* one NUL and the next.  The k-th NUL is the one with k of them up to it. *)
Ends(s) == {i \in 1..Len(s) : s[i] = NUL}

EndsUpTo(s, n) == {i \in Ends(s) : i <= n}

FrameEnd(s, k) == IF k = 0 THEN 0
                  ELSE CHOOSE i \in Ends(s) : Cardinality(EndsUpTo(s, i)) = k

Frames(s) == [k \in 1..Cardinality(Ends(s)) |->
                 SubSeq(s, FrameEnd(s, k - 1) + 1, FrameEnd(s, k) - 1)]

(* However the stream arrives and whichever threads run the handlers, the  *)
(* records of a connection are frames of its stream, whole, in order, none *)
(* twice and none left out.                                                *)
FramesInOrder == \A c \in Conns : IsPrefix(offered[c], Frames(stream[c]))

(* A thread of the input ends only because a peer reset its connection,    *)
(* and each such connection ends at most one.                              *)
ThreadsLostToResets ==
    Cardinality(Threads \ alive) <= Cardinality({c \in Conns : peer[c] = "reset" /\ conn[c] = "lost"})

(* A peer that does not reset its connection has all its frames offered,   *)
(* unless the input is stopped or has lost its last thread.                *)
EveryFrameOffered ==
    \A c \in Conns : <>(\/ offered[c] = Frames(stream[c])
                        \/ peer[c] = "reset" \/ stopped \/ alive = {})
=============================================================================
