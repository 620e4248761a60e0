------------------------------- MODULE Inputs -------------------------------
(***************************************************************************)
(* One source of the configuration and the input the program builds for    *)
(* it: a TCP input, a UDP input or the journal input.  All three are       *)
(* IOInputs: their handlers run on the threads of one io_service, which    *)
(* stopImpl stops.                                                         *)
(***************************************************************************)
EXTENDS TcpInput, UdpInput, JournalInput

VARIABLE kind   \* the type of the source: "tcp", "udp" or "journal"

vars == <<kind, tcpVars, udpVars, journalVars>>

Kinds == {"tcp", "udp", "journal"}

TypeOK == kind \in Kinds /\ TcpTypeOK /\ UdpTypeOK /\ JournalTypeOK

(* The source decides which of the inputs is built; the state of the other *)
(* two never changes.                                                      *)
Init ==
    /\ kind \in Kinds
    /\ TcpInit /\ UdpInit /\ JournalInit /\ startImpl
    /\ kind # "tcp" => stream = [c \in Conns |-> <<>>]

TcpStep     == kind = "tcp" /\ TcpNext /\ UNCHANGED <<kind, udpVars, journalVars>>
UdpStep     == kind = "udp" /\ UdpNext /\ UNCHANGED <<kind, tcpVars, journalVars>>
JournalStep == kind = "journal" /\ JournalNext /\ UNCHANGED <<kind, tcpVars, udpVars>>
StopStep    == /\ stopImpl
               /\ UNCHANGED <<kind, stream, arrived, taken, peer, conn, busy, offered,
                              udpVars, journalVars>>

Next == TcpStep \/ UdpStep \/ JournalStep \/ StopStep

Spec == /\ Init /\ [][Next]_vars
        /\ kind = "tcp" => TcpFairness
        /\ kind = "journal" => JournalFairness

----------------------------------------------------------------------------
(* Whatever it is, an input offers to its queue what its source sent it,   *)
(* whole, in the order of the source and once.                             *)
OfferedInOrder ==
    /\ kind = "tcp" => FramesInOrder
    /\ kind = "udp" => DatagramsInOrder
    /\ kind = "journal" => EntriesInOrder

(* While the input runs, what a TCP peer that does not reset its           *)
(* connection sends, and what is appended to the journal and not hidden by *)
(* a rotation or a failed read, is offered in the end.                     *)
EverythingOffered ==
    /\ kind = "tcp" => EveryFrameOffered
    /\ kind = "journal" => EveryEntryOffered
=============================================================================
