----------------------------- MODULE HttpServer -----------------------------
(***************************************************************************)
(* The HTTP statistics server (stats/http): the acceptor, the connections  *)
(* and the manager that keeps them alive.  All handlers run on the one     *)
(* thread the metrics controller started for this server (io); stopImpl()  *)
(* runs on the main thread, in three calls that do not wait for a handler  *)
(* that is under way.                                                      *)
(*                                                                         *)
(* A handler is two steps: what it does to its own connection, and its     *)
(* call of the connection manager, whose set of connections the main       *)
(* thread clears without a lock.  A client sends the characters of one     *)
(* stream, which arrive in segments of any length, and may go away at any  *)
(* time; a client with an empty stream does not connect.                   *)
(***************************************************************************)
EXTENDS HttpRequest, FiniteSets

CONSTANTS
    Conns,          \* connections clients open
    Sent            \* what the clients may send: functions from Conns to Seq(Chars)

ASSUME SentAssumption == Sent \subseteq [Conns -> Seq(Chars)]

VARIABLES
    stream,         \* stream[c]: what the client of c sends in all
    arrived,        \* arrived[c]: how many characters of it have been read
    op,             \* op[c]: the outstanding operation of c, see Operations
    parser,         \* parser[c]: m_request_parser and m_request
    reply,          \* reply[c]: what was written to the client, or <<>>
    socket,         \* socket[c]: "none", "open" or "closed"
    connections,    \* m_connectionManager.m_connections
    io,             \* the server's thread: the manager call it is about to make
    acceptorOpen,   \* m_acceptor.is_open()
    stopping        \* the last call stopImpl() has made, see StopStates

clientVars == <<stream, arrived, parser, reply>>
vars == <<stream, arrived, op, parser, reply, socket, connections, io,
          acceptorOpen, stopping>>

(* "backlog": the client has connected and waits to be accepted. *)
Operations == {"backlog", "none", "read", "write"}

Idle == [call |-> "none"]
Ended == [call |-> "ended"]
IoStates == {Idle, Ended} \cup [call : {"start", "stop"}, conn : Conns]

StopStates == {"no", "service", "acceptor", "done", "crashed"}

TypeOK ==
    /\ stream \in [Conns -> Seq(Chars)]
    /\ \A c \in Conns : arrived[c] \in 0..Len(stream[c])
    /\ op \in [Conns -> Operations]
    /\ parser \in [Conns -> Parsers]
    /\ socket \in [Conns -> {"none", "open", "closed"}]
    /\ connections \subseteq Conns
    /\ io \in IoStates
    /\ acceptorOpen \in BOOLEAN
    /\ stopping \in StopStates

Init ==
    /\ stream \in Sent
    /\ arrived = [c \in Conns |-> 0]
    /\ op = [c \in Conns |-> IF stream[c] = <<>> THEN "none" ELSE "backlog"]
    /\ parser = [c \in Conns |-> NewParser]
    /\ reply = [c \in Conns |-> <<>>]
    /\ socket = [c \in Conns |-> "none"]
    /\ connections = {}
    /\ io = Idle
    /\ acceptorOpen = TRUE
    /\ stopping = "no"

(* run() takes the next completion only while nobody called stop(). *)
Serving == io = Idle /\ stopping = "no"

----------------------------------------------------------------------------
(* The handler of async_accept.  It looks at the acceptor, hands the new   *)
(* connection to the manager (ManagerStart) and accepts again; a failed    *)
(* accept only loses its client.  One thread runs it, so the acceptor is   *)
(* open whenever the handler starts before stop().                         *)
AcceptDone(c) ==
    /\ Serving /\ acceptorOpen
    /\ op[c] = "backlog"
    /\ op' = [op EXCEPT ![c] = "none"]
    /\ \/ /\ socket' = [socket EXCEPT ![c] = "open"]
          /\ io' = [call |-> "start", conn |-> c]
       \/ /\ socket' = [socket EXCEPT ![c] = "closed"]
          /\ io' = io
    /\ UNCHANGED <<clientVars, connections, acceptorOpen, stopping>>

(* ConnectionManager::start: insert, then Connection::start, which reads.  *)
(* A read on a socket the main thread has closed completes with an error,  *)
(* but nobody runs that handler any more.                                  *)
ManagerStart ==
    /\ io.call = "start"
    /\ connections' = connections \cup {io.conn}
    /\ op' = [op EXCEPT ![io.conn] = "read"]
    /\ io' = Idle
    /\ UNCHANGED <<clientVars, socket, acceptorOpen, stopping>>

(* ConnectionManager::stop: erase, then Connection::stop. *)
ManagerStop ==
    /\ io.call = "stop"
    /\ connections' = connections \ {io.conn}
    /\ socket' = [socket EXCEPT ![io.conn] = "closed"]
    /\ io' = Idle
    /\ UNCHANGED <<clientVars, op, acceptorOpen, stopping>>

(* A read completes: n more characters have arrived. *)
ReadCompletes(c, n) ==
    /\ Serving
    /\ op[c] = "read"
    /\ n \in 1..(Len(stream[c]) - arrived[c])
    /\ arrived' = [arrived EXCEPT ![c] = @ + n]

(* Mutant: a request that is not complete after one read is not read on. *)
ReadDone_once(c, n) ==
    /\ ReadCompletes(c, n)
    /\ LET p == parse(parser[c], SubSeq(stream[c], arrived[c] + 1, arrived[c] + n))
       IN /\ parser' = [parser EXCEPT ![c] = p]
          /\ op' = [op EXCEPT ![c] = IF p.result = "indeterminate" THEN "none" ELSE "write"]
    /\ UNCHANGED <<stream, reply, socket, connections, io, acceptorOpen, stopping>>

(* The handler of async_read_some.  A verdict of the parser fixes the      *)
(* reply; without one the next read is started.                            *)
ReadDone(c, n) ==
    /\ ReadCompletes(c, n)
    /\ LET p == parse(parser[c], SubSeq(stream[c], arrived[c] + 1, arrived[c] + n))
       IN /\ parser' = [parser EXCEPT ![c] = p]
          /\ reply' = [reply EXCEPT ![c] =
                CASE p.result = "good" -> to_buffers(handle_request(p.uri))
                  [] p.result = "bad" -> to_buffers(stock_reply(400))
                  [] OTHER -> <<>>]
          /\ op' = [op EXCEPT ![c] = IF p.result = "indeterminate" THEN "read" ELSE "write"]
    /\ UNCHANGED <<stream, socket, connections, io, acceptorOpen, stopping>>

(* The client closed or reset the connection: the read fails and the       *)
(* connection is given up.                                                 *)
ReadFailed(c) ==
    /\ Serving
    /\ op[c] = "read"
    /\ op' = [op EXCEPT ![c] = "none"]
    /\ io' = [call |-> "stop", conn |-> c]
    /\ UNCHANGED <<clientVars, socket, connections, acceptorOpen, stopping>>

(* Mutant: the connection is given up only after a write that succeeded. *)
WriteDone_if_written(c) ==
    /\ Serving
    /\ op[c] = "write"
    /\ op' = [op EXCEPT ![c] = "none"]
    /\ \/ reply' = reply /\ io' = [call |-> "stop", conn |-> c]
       \/ reply' = [reply EXCEPT ![c] = <<>>] /\ io' = io
    /\ UNCHANGED <<stream, arrived, parser, socket, connections, acceptorOpen, stopping>>

(* The handler of async_write: whether the reply was written or the write  *)
(* failed, the connection is given up.  (shutdown() after a good write     *)
(* precedes the close and adds nothing to the state kept here.)            *)
WriteDone(c) ==
    /\ Serving
    /\ op[c] = "write"
    /\ op' = [op EXCEPT ![c] = "none"]
    /\ io' = [call |-> "stop", conn |-> c]
    /\ \/ reply' = reply
       \/ reply' = [reply EXCEPT ![c] = <<>>]
    /\ UNCHANGED <<stream, arrived, parser, socket, connections, acceptorOpen, stopping>>

(* startImpl() returns once the service is stopped and its handler is over. *)
RunReturns ==
    /\ io = Idle /\ stopping # "no"
    /\ io' = Ended
    /\ UNCHANGED <<clientVars, op, socket, connections, acceptorOpen, stopping>>

----------------------------------------------------------------------------
(* stopImpl(), on the main thread. *)

StopService ==
    /\ stopping = "no"
    /\ stopping' = "service"
    /\ UNCHANGED <<clientVars, op, socket, connections, io, acceptorOpen>>

CloseAcceptor ==
    /\ stopping = "service"
    /\ acceptorOpen' = FALSE
    /\ stopping' = "acceptor"
    /\ UNCHANGED <<clientVars, op, socket, connections, io>>

(* Mutant: the set is cleared, the sockets stay open. *)
StopAll_clear_only ==
    /\ stopping = "acceptor"
    /\ connections' = {}
    /\ stopping' = "done"
    /\ UNCHANGED <<clientVars, op, socket, io, acceptorOpen>>

(* ConnectionManager::stop_all.  A handler may be inside a call of the     *)
(* manager at this moment: the set is then read and written by two threads *)
(* at once, and the process may die of it.                                 *)
StopAll ==
    /\ stopping = "acceptor"
    /\ socket' = [c \in Conns |-> IF c \in connections THEN "closed" ELSE socket[c]]
    /\ connections' = {}
    /\ stopping' = "done"
    /\ UNCHANGED <<clientVars, op, io, acceptorOpen>>

StopAllRaces ==
    /\ stopping = "acceptor"
    /\ io.call \in {"start", "stop"}
    /\ stopping' = "crashed"
    /\ io' = Ended
    /\ UNCHANGED <<clientVars, op, socket, connections, acceptorOpen>>

----------------------------------------------------------------------------
Next ==
    \/ \E c \in Conns : \/ AcceptDone(c)
                        \/ ReadFailed(c)
                        \/ WriteDone(c)
                        \/ \E n \in 1..Len(stream[c]) : ReadDone(c, n)
    \/ ManagerStart \/ ManagerStop \/ RunReturns
    \/ StopService \/ CloseAcceptor \/ StopAll \/ StopAllRaces

(* The thread runs what is ready, the network delivers what was sent and   *)
(* the main thread finishes a stop it began.  (The only steps in which     *)
(* ReadCompletes(c, n) holds are those of ReadDone(c, n).)  Nothing makes  *)
(* a client go away and nothing makes the signal come.                     *)
Fairness ==
    /\ \A c \in Conns : /\ WF_vars(AcceptDone(c))
                        /\ WF_arrived(\E n \in 1..Len(stream[c]) : ReadCompletes(c, n))
                        /\ WF_vars(WriteDone(c))
    /\ WF_vars(ManagerStart) /\ WF_vars(ManagerStop) /\ WF_vars(RunReturns)
    /\ WF_vars(CloseAcceptor) /\ WF_vars(StopAll)

Spec == Init /\ [][Next]_vars /\ Fairness

----------------------------------------------------------------------------
(* What a request is, said without the parser, of the first n characters   *)
(* of s: lines that end in CR LF, of which the last and only the last is   *)
(* empty, a request line, headers.  A text is given by the places a and b  *)
(* of its first and its last character.                                    *)

IsVersion(s, a, b) ==
    \E d \in (a + 6)..(b - 1) :
        /\ s[a] = "H" /\ s[a + 1] = "T" /\ s[a + 2] = "T" /\ s[a + 3] = "P" /\ s[a + 4] = "/"
        /\ s[d] = "."
        /\ \A k \in (a + 5)..b : k # d => s[k] \in Digits

IsRequestLine(s, b) ==
    \E i, j \in 2..b :
        /\ i < j /\ s[i] = " " /\ s[j] = " "
        /\ \A k \in 1..(i - 1) : s[k] \in Token
        /\ \A k \in (i + 1)..(j - 1) : s[k] \in NotCtl \ {" "}
        /\ IsVersion(s, j + 1, b)

UriOf(s) == LET i == CHOOSE i \in 1..Len(s) : s[i] = " " /\ \A k \in 1..(i - 1) : s[k] # " "
                j == CHOOSE j \in (i + 1)..Len(s) :
                        s[j] = " " /\ \A k \in (i + 1)..(j - 1) : s[k] # " "
            IN SubSeq(s, i + 1, j - 1)

IsHeader(s, a, b) ==
    \E i \in (a + 1)..(b - 1) :
        /\ s[i] = ":" /\ s[i + 1] = " "
        /\ \A k \in a..(i - 1) : s[k] \in Token
        /\ \A k \in (i + 2)..b : s[k] \in NotCtl

(* A line that continues the header before it. *)
IsContinuation(s, a, b) ==
    \E i \in a..b : /\ \A k \in a..i : s[k] \in {" ", "TAB"}
                    /\ \A k \in (i + 1)..b : s[k] \in NotCtl

(* A line begins at a and ends with the line feed at b. *)
IsLine(s, a, b) ==
    /\ s[b] = "LF"
    /\ a = 1 \/ s[a - 1] = "LF"
    /\ \A k \in a..(b - 1) : s[k] # "LF"

IsGoodLine(s, a, b) ==
    /\ b > a /\ s[b - 1] = "CR"
    /\ \/ a = 1 /\ IsRequestLine(s, b - 2)
       \/ a > 1 /\ IsHeader(s, a, b - 2)
       \/ a > 1 /\ (\E k \in 1..(a - 2) : s[k] = "LF") /\ IsContinuation(s, a, b - 2)

IsRequest(s, n) ==
    /\ n > 2 /\ s[n - 2] = "LF" /\ s[n - 1] = "CR" /\ s[n] = "LF"
    /\ \A b \in 1..(n - 2) : \A a \in 1..b : IsLine(s, a, b) => IsGoodLine(s, a, b)

RequestsIn(s) == {n \in 1..Len(s) : IsRequest(s, n)}

(* The path a URI means, from its k-th character on; no path for a URI     *)
(* that cannot be decoded.                                                 *)
NoPath == <<"none">>

PathOf(uri) ==
    LET from[k \in 1..(Len(uri) + 1)] ==
            LET after(n, ch) == IF from[n] = NoPath THEN NoPath ELSE <<ch>> \o from[n]
            IN CASE k > Len(uri) -> <<>>
                 [] k <= Len(uri) /\ uri[k] = "+" -> after(k + 1, " ")
                 [] k <= Len(uri) /\ uri[k] = "%" ->
                      IF k + 2 > Len(uri) \/ ~HexReadable(uri[k + 1], uri[k + 2]) THEN NoPath
                      ELSE after(k + 3, HexChar(uri[k + 1], uri[k + 2]))
                 [] OTHER -> after(k + 1, uri[k])
    IN from[1]

Expected(s) ==
    IF RequestsIn(s) = {} THEN <<400, "text/html", 400>>
    ELSE LET path == PathOf(UriOf(s))
         IN CASE path = <<"/", "s", "t", "a", "t", "s">> -> <<200, "application/json", StatsPage>>
              [] path = <<>> \/ path[1] # "/" \/ DotDot(path) -> <<400, "text/html", 400>>
              [] OTHER -> <<404, "text/html", 404>>

----------------------------------------------------------------------------
(* Properties. *)

(* However the stream is cut into segments, the client is answered what    *)
(* its request, read as a whole, deserves: the metrics for /stats, 404 for *)
(* another path, 400 for a path that is not acceptable and for a stream of *)
(* which no prefix is a request; and the server never asks for more once   *)
(* it has a whole request.  (RequestParser keeps its state between the     *)
(* reads of Connection::do_read.)                                          *)
AnswerIsRight ==
    \A c \in Conns :
        LET received == SubSeq(stream[c], 1, arrived[c])
        IN /\ reply[c] # <<>> => reply[c] = Expected(received)
           /\ op[c] = "read" => RequestsIn(received) = {}

(* The manager holds exactly the connections that are being served: one    *)
(* with a read or a write outstanding is in the set (nothing else keeps it *)
(* until stop_all), and one whose chain of handlers ended has left it and  *)
(* is closed, so no error path leaks a connection.                         *)
ManagedIsServed ==
    stopping = "no" =>
        \A c \in Conns :
            /\ op[c] \in {"read", "write"} <=>
                  c \in connections /\ ~(io.call = "stop" /\ io.conn = c)
            /\ socket[c] = "open" <=> c \in connections \/ (io.call = "start" /\ io.conn = c)

(* After stopImpl() and the end of the thread, every connection the server *)
(* accepted is closed, except one whose accept handler was between its     *)
(* test of the acceptor and its call of the manager when stop_all cleared  *)
(* the set: that one alone is left in the set, open, and never served.     *)
AtMostOneOutlivesStop ==
    stopping = "done" /\ io = Ended =>
        /\ \A c \in Conns : socket[c] = "open" <=> c \in connections
        /\ Cardinality(connections) <= 1

(* Every client is served to the end: its connection is closed by the      *)
(* server, or all it sent has been read and is not yet a request, or the   *)
(* server is stopped.  (There is no timeout: a client that stops in the    *)
(* middle of a request keeps its connection.)                              *)
EveryClientIsServed ==
    \A c \in Conns :
        op[c] = "backlog"
            ~> \/ socket[c] = "closed"
               \/ op[c] = "read" /\ arrived[c] = Len(stream[c])
               \/ stopping # "no"
=============================================================================
