------------------------------- MODULE UdpEcho -------------------------------
(***************************************************************************)
(* chapter_4/udp_server.cpp and udp_client.cpp: a server that sends every   *)
(* datagram back, and clients that send a line and block in recvfrom()      *)
(* until something comes back. Datagrams may be lost, duplicated and        *)
(* overtaken; neither program has a timeout or a number in its datagrams.   *)
(*                                                                          *)
(* The numbers of the lines are the model's.                                *)
(***************************************************************************)
EXTENDS Integers

CONSTANTS
  UdpClients,
  MaxLines,    \* how many lines each client is given
  MaxFaults    \* how many datagrams are lost or duplicated

ASSUME UdpAssumption == MaxLines \in Nat /\ MaxFaults \in Nat

VARIABLES
  linesSent,   \* the number of each client's latest line
  inRecv,      \* the clients that block in recvfrom()
  shown,       \* the sender and number of the line each client printed last
  toServer,    \* requests on their way
  toClient,    \* replies on their way, with the client they are sent to
  client_addr, \* the sender recvfrom() told the server of, and what it sent
  echoing,     \* the server is about to send buf back
  lost,        \* datagrams lost
  doubled      \* datagrams duplicated

udpVars ==
  <<linesSent, inRecv, shown, toServer, toClient, client_addr, echoing, lost, doubled>>

Lines == [from : UdpClients, n : 1..MaxLines]
NoLine == [n |-> 0]

UdpTypeOK ==
  /\ linesSent \in [UdpClients -> 0..MaxLines]
  /\ inRecv \subseteq UdpClients
  /\ shown \in [UdpClients -> Lines \cup {NoLine}]
  /\ toServer \subseteq Lines
  /\ toClient \subseteq [to : UdpClients, line : Lines]
  /\ client_addr \in Lines \cup {NoLine}
  /\ echoing \in BOOLEAN
  /\ lost \in 0..MaxFaults /\ doubled \in 0..MaxFaults

UdpInit ==
  /\ linesSent = [c \in UdpClients |-> 0]
  /\ inRecv = {}
  /\ shown = [c \in UdpClients |-> NoLine]
  /\ toServer = {} /\ toClient = {}
  /\ client_addr = NoLine /\ echoing = FALSE
  /\ lost = 0 /\ doubled = 0

-----------------------------------------------------------------------------
(* The network: what takes a datagram may leave a copy behind.              *)

LoseRequest ==
  /\ lost + doubled < MaxFaults
  /\ \E d \in toServer : toServer' = toServer \ {d}
  /\ lost' = lost + 1
  /\ UNCHANGED <<linesSent, inRecv, shown, toClient, client_addr, echoing, doubled>>

LoseReply ==
  /\ lost + doubled < MaxFaults
  /\ \E d \in toClient : toClient' = toClient \ {d}
  /\ lost' = lost + 1
  /\ UNCHANGED <<linesSent, inRecv, shown, toServer, client_addr, echoing, doubled>>

Duplicate == lost + doubled < MaxFaults /\ doubled' = doubled + 1

-----------------------------------------------------------------------------
(* udp_client.cpp                                                           *)

SendLine(c) ==
  /\ c \notin inRecv /\ linesSent[c] < MaxLines
  /\ linesSent' = [linesSent EXCEPT ![c] = @ + 1]
  /\ toServer' = toServer \cup {[from |-> c, n |-> linesSent[c] + 1]}
  /\ inRecv' = inRecv \cup {c}
  /\ UNCHANGED <<shown, toClient, client_addr, echoing, lost, doubled>>

ReceiveReply(c) ==
  /\ c \in inRecv
  /\ \E d \in toClient :
       /\ d.to = c
       /\ \/ toClient' = toClient \ {d} /\ UNCHANGED doubled
          \/ Duplicate /\ UNCHANGED toClient
       /\ shown' = [shown EXCEPT ![c] = d.line]
  /\ inRecv' = inRecv \ {c}
  /\ UNCHANGED <<linesSent, toServer, client_addr, echoing, lost>>

-----------------------------------------------------------------------------
(* udp_server.cpp                                                           *)

ReceiveRequest ==
  /\ ~echoing
  /\ \E d \in toServer :
       /\ \/ toServer' = toServer \ {d} /\ UNCHANGED doubled
          \/ Duplicate /\ UNCHANGED toServer
       /\ client_addr' = d
  /\ echoing' = TRUE
  /\ UNCHANGED <<linesSent, inRecv, shown, toClient, lost>>

(* Mutant: the address is not asked for again with every datagram, and is   *)
(* whatever client was heard of before.                                     *)
EchoToAnyone ==
  /\ echoing
  /\ \E c \in UdpClients : toClient' = toClient \cup {[to |-> c, line |-> client_addr]}
  /\ echoing' = FALSE
  /\ UNCHANGED <<linesSent, inRecv, shown, toServer, client_addr, lost, doubled>>

(* sendto() to the address the datagram came from.                          *)
EchoLine ==
  /\ echoing
  /\ toClient' = toClient \cup {[to |-> client_addr.from, line |-> client_addr]}
  /\ echoing' = FALSE
  /\ UNCHANGED <<linesSent, inRecv, shown, toServer, client_addr, lost, doubled>>

UdpNext ==
  \/ \E c \in UdpClients : SendLine(c) \/ ReceiveReply(c)
  \/ ReceiveRequest \/ EchoLine
  \/ LoseRequest \/ LoseReply

UdpSpec == UdpInit /\ [][UdpNext]_udpVars

-----------------------------------------------------------------------------
(* What is to be shown.                                                     *)

(* A client only prints lines of its own, the one it sent last unless some  *)
(* datagram was duplicated; and a client that waits has its line or a reply *)
(* on the way, unless some datagram was lost: then it may wait for ever     *)
(* (udp_client.cpp:57).                                                     *)
EchoReachesSender ==
  \A c \in UdpClients :
    /\ shown[c] # NoLine => shown[c].from = c
    /\ c \notin inRecv /\ doubled = 0 => shown[c].n = linesSent[c]
    /\ c \in inRecv /\ lost = 0 =>
         \/ \E d \in toServer : d.from = c
         \/ \E d \in toClient : d.to = c
         \/ echoing /\ client_addr.from = c
=============================================================================
