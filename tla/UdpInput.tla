------------------------------ MODULE UdpInput ------------------------------
(***************************************************************************)
(* The JSON UDP input (inputs/json/udp); the GELF UDP input receives in    *)
(* the same way.  One receive is outstanding at a time, into a buffer of   *)
(* its own; its handler posts the processing of the datagram to the strand *)
(* the handlers themselves run in, then receives again.  A datagram has an *)
(* identity and a length.                                                  *)
(***************************************************************************)
EXTENDS IOInput

CONSTANTS
    Sizes,          \* lengths of the datagrams, in the order they are sent
    buffer_size,    \* 4096 in the code
    SocketQueue     \* datagrams the socket holds for the program

ASSUME UdpAssumption == /\ Sizes \in Seq(Nat)
                        /\ buffer_size \in Nat \ {0}
                        /\ SocketQueue \in Nat \ {0}

VARIABLES
    next,       \* the next datagram the network brings
    inbox,      \* datagrams in the socket, oldest first
    armed,      \* async_receive_from is outstanding
    strand,     \* handlers queued in the strand: <<"receive" | "process", datagram>>
    received,   \* ghost: datagrams that reached handle_receive, in order
    udpOffered  \* records offered to the queue: <<datagram, length>>

udpVars == <<next, inbox, armed, strand, received, udpOffered>>

UdpTypeOK ==
    /\ next \in 1..(Len(Sizes) + 1)
    /\ inbox \in Seq(1..Len(Sizes)) /\ Len(inbox) <= SocketQueue
    /\ armed \in BOOLEAN
    /\ strand \in Seq({"receive", "process"} \X (1..Len(Sizes)))
    /\ received \in Seq(1..Len(Sizes))

(* The constructor arms the first receive. *)
UdpInit ==
    /\ next = 1
    /\ inbox = <<>>
    /\ armed = TRUE
    /\ strand = <<>>
    /\ received = <<>>
    /\ udpOffered = <<>>

(* The network brings a datagram to the socket, or loses it; it is lost    *)
(* also if the socket is full.                                             *)
Network ==
    /\ next <= Len(Sizes)
    /\ next' = next + 1
    /\ \/ inbox' = inbox
       \/ Len(inbox) < SocketQueue /\ inbox' = Append(inbox, next)
    /\ UNCHANGED <<armed, strand, received, udpOffered, ioVars>>

(* The receive completes: its handler is queued in the strand. *)
Completion ==
    /\ Running
    /\ armed /\ inbox # <<>>
    /\ strand' = Append(strand, <<"receive", Head(inbox)>>)
    /\ inbox' = Tail(inbox)
    /\ armed' = FALSE
    /\ UNCHANGED <<next, received, udpOffered, ioVars>>

(* handle_receive: an empty datagram is only reported. *)
handle_receive ==
    /\ Running
    /\ strand # <<>> /\ Head(strand)[1] = "receive"
    /\ LET d == Head(strand)[2]
       IN /\ strand' = IF Sizes[d] > 0 THEN Append(Tail(strand), <<"process", d>>)
                       ELSE Tail(strand)
          /\ received' = Append(received, d)
    /\ armed' = TRUE
    /\ UNCHANGED <<next, inbox, udpOffered, ioVars>>

(* A datagram longer than the buffer has been cut by the socket. *)
Cut(d) == <<d, IF Sizes[d] < buffer_size THEN Sizes[d] ELSE buffer_size>>

(* udp_session::process: the record is offered; a refusal is reported. *)
udp_process ==
    /\ Running
    /\ strand # <<>> /\ Head(strand)[1] = "process"
    /\ udpOffered' = Append(udpOffered, Cut(Head(strand)[2]))
    /\ strand' = Tail(strand)
    /\ UNCHANGED <<next, inbox, armed, received, ioVars>>

UdpNext == Network \/ Completion \/ handle_receive \/ udp_process

----------------------------------------------------------------------------
(* The records offered, and those whose processing waits in the strand,    *)
(* are exactly the datagrams received that were not empty, in the order    *)
(* they were received, each once: posting the work and receiving again     *)
(* before it runs loses and reorders nothing.                              *)
Kept == {d \in Range(received) : Sizes[d] > 0}

Waiting == {i \in DOMAIN strand : strand[i][1] = "process"}

DatagramsInOrder ==
    /\ \A i, j \in DOMAIN received : i < j => received[i] < received[j]
    /\ {udpOffered[i] : i \in DOMAIN udpOffered} \cup {Cut(strand[i][2]) : i \in Waiting}
           = {Cut(d) : d \in Kept}
    /\ \A i, j \in DOMAIN udpOffered : i < j => udpOffered[i][1] < udpOffered[j][1]
    /\ \A i, j \in Waiting : i < j => strand[i][2] < strand[j][2]
    /\ \A i \in DOMAIN udpOffered, j \in Waiting : udpOffered[i][1] < strand[j][2]
=============================================================================
