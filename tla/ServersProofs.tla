---------------------------- MODULE ServersProofs ----------------------------
(***************************************************************************)
(* The servers of chapters 4 and 5, for any number of clients, slots,       *)
(* descriptors, threads and children. Each section has the inductive        *)
(* invariant of one server; the last puts the types of all together.        *)
(***************************************************************************)
EXTENDS MCServers, HttpParseProofs, FiniteSetTheorems

-----------------------------------------------------------------------------
(* tcp_server.cpp with threads                                              *)

(* A thread that has been started has not given its slot back yet, and the  *)
(* slot holds its descriptor.                                               *)
Started(t) == threadPc[t] # "none"
Connected(t) == threadPc[t] \in {"read", "write", "close"}

(* No two started threads have the same slot. The slot that main() is about *)
(* to use belongs to none of them, and so does the new descriptor to no     *)
(* thread that may still close one.                                         *)
SlotsInv ==
  /\ \A t \in DoThreads : Started(t) => SocketOf(t) # 0
  /\ \A t, u \in DoThreads : Started(t) /\ Started(u) /\ slotOf[t] = slotOf[u] => t = u
  /\ acceptPc = "start" => slot[scanAt] = 0
  /\ acceptPc \in {"scan", "start"} =>
       accepted \in openFds /\ \A t \in DoThreads : Connected(t) => SocketOf(t) # accepted

ThreadedInv == ThreadedTypeOK /\ ThreadsOwnSlot /\ SlotsInv

LEMMA LowestIs ==
  ASSUME NEW S, S \subseteq Nat, S # {}
  PROVE  Lowest(S) \in S
<1>1. Lowest(S) = FirstOf(S)
  BY DEF Lowest, FirstOf
<1> QED
  BY <1>1, FirstExists

(* Threads are named apart while they run, and there is a name left for one *)
(* more than there are slots.                                               *)
LEMMA FreeThread ==
  ASSUME ThreadedInv
  PROVE  \E t \in DoThreads : threadPc[t] = "none"
<1> SUFFICES ASSUME \A t \in DoThreads : Started(t)
             PROVE  FALSE
  BY DEF Started
<1>1. slotOf \in [DoThreads -> Slots]
  BY DEF ThreadedInv, ThreadedTypeOK
<1>2. /\ IsFiniteSet(DoThreads) /\ Cardinality(DoThreads) = ClientNum + 1
      /\ IsFiniteSet(Slots) /\ Cardinality(Slots) = ClientNum
  BY ThreadedAssumption, FS_Interval DEF DoThreads, Slots
<1>3. \E t, u \in DoThreads : t # u /\ slotOf[t] = slotOf[u]
  BY <1>1, <1>2, FS_PigeonHole, ThreadedAssumption
<1> QED
  BY <1>3 DEF ThreadedInv, SlotsInv

LEMMA ThreadedInitInv == ThreadedInit => ThreadedInv
BY ThreadedAssumption
DEF ThreadedInit, ThreadedInv, ThreadedTypeOK, ThreadsOwnSlot, SlotsInv, Started, Connected,
    Slots, Fds, DoThreads, SocketOf

LEMMA ThreadedNextInv ==
  ASSUME ThreadedInv, [ThreadedNext]_threadedVars
  PROVE  ThreadedInv'
<1> USE ThreadedAssumption
<1>1. CASE ClientConnects
  BY <1>1
  DEF ClientConnects, ThreadedInv, ThreadedTypeOK, ThreadsOwnSlot, SlotsInv, Started, Connected, SocketOf
<1>2. ASSUME NEW f \in Fds, ClientSends(f) \/ ClientLeaves(f)
      PROVE  ThreadedInv'
  BY <1>2
  DEF ClientSends, ClientLeaves,
      ThreadedInv, ThreadedTypeOK, ThreadsOwnSlot, SlotsInv, Started, Connected, SocketOf
<1>3. CASE Accept
  <2>1. CASE openFds # Fds
    <3>1. Lowest(Fds \ openFds) \in Fds \ openFds
      <4>1. openFds \subseteq Fds
        BY DEF ThreadedInv, ThreadedTypeOK
      <4>2. Fds \ openFds # {}
        BY <2>1, <4>1
      <4>3. Fds \ openFds \subseteq Nat
        BY DEF Fds
      <4> QED
        BY <4>2, <4>3, LowestIs
    <3>2. accepted' \in Fds \ openFds
      BY <1>3, <2>1, <3>1 DEF Accept
    <3>3. ThreadedTypeOK'
      BY <1>3, <2>1, <3>2 DEF Accept, ThreadedInv, ThreadedTypeOK, Slots
    <3>4. ThreadsOwnSlot' /\ SlotsInv'
      BY <1>3, <2>1, <3>2
      DEF Accept, ThreadedInv, ThreadedTypeOK, ThreadsOwnSlot, SlotsInv, Started, Connected, SocketOf
    <3> QED
      BY <3>3, <3>4 DEF ThreadedInv
  <2>2. CASE openFds = Fds
    BY <1>3, <2>2
    DEF Accept, ThreadedInv, ThreadedTypeOK, ThreadsOwnSlot, SlotsInv, Started, Connected, SocketOf
  <2> QED
    BY <2>1, <2>2
<1>4. CASE ScanSlot
  <2>1. (scanAt % ClientNum) + 1 \in Slots
    BY DEF ThreadedInv, ThreadedTypeOK, Slots
  <2> QED
    BY <1>4, <2>1
    DEF ScanSlot, ThreadedInv, ThreadedTypeOK, ThreadsOwnSlot, SlotsInv, Started, Connected, SocketOf
<1>5. CASE StartThread
  <2> DEFINE free == {d \in DoThreads : threadPc[d] = "none"}
  <2>1. PICK t \in DoThreads :
          /\ threadPc[t] = "none"
          /\ threadPc' = [threadPc EXCEPT ![t] = "read"]
          /\ slotOf' = [slotOf EXCEPT ![t] = scanAt]
    <3>1. free \subseteq Nat /\ free # {}
      BY FreeThread DEF DoThreads
    <3>2. Lowest(free) \in free
      BY <3>1, LowestIs
    <3> QED
      BY <1>5, <3>2 DEF StartThread
  <2>2. /\ acceptPc = "start" /\ acceptPc' = "accept"
        /\ slot' = [slot EXCEPT ![scanAt] = accepted]
        /\ UNCHANGED <<queue, openFds, lineSent, peer, accepted, scanAt>>
    BY <1>5 DEF StartThread
  <2>3. ThreadedTypeOK'
    BY <2>1, <2>2 DEF ThreadedInv, ThreadedTypeOK
  <2>4. \A u \in DoThreads : u # t => threadPc'[u] = threadPc[u] /\ slotOf'[u] = slotOf[u]
    BY <2>1 DEF ThreadedInv, ThreadedTypeOK
  <2>5. \A u \in DoThreads : u # t /\ Started(u) => SocketOf(u)' = SocketOf(u) /\ slotOf[u] # scanAt
    BY <2>2, <2>4 DEF ThreadedInv, ThreadedTypeOK, SlotsInv, SocketOf, Started
  <2>6. threadPc'[t] = "read" /\ slotOf'[t] = scanAt /\ SocketOf(t)' = accepted
    BY <2>1, <2>2 DEF ThreadedInv, ThreadedTypeOK, SocketOf
  <2>7. accepted \in openFds /\ accepted # 0 /\ openFds' = openFds
    BY <2>2 DEF ThreadedInv, ThreadedTypeOK, SlotsInv, Fds
  <2>8. ThreadsOwnSlot'
    BY <2>2, <2>4, <2>5, <2>6, <2>7
    DEF ThreadedInv, ThreadsOwnSlot, SlotsInv, Started, Connected
  <2>9. SlotsInv'
    BY <2>2, <2>4, <2>5, <2>6, <2>7 DEF ThreadedInv, SlotsInv, Started
  <2> QED
    BY <2>3, <2>8, <2>9 DEF ThreadedInv
<1>6. ASSUME NEW t \in DoThreads, ThreadStep(t)
      PROVE  ThreadedInv'
  <2> USE DEF Running, ThreadGoto
  <2>1. CASE ThreadReads(t) \/ ThreadSeesEnd(t) \/ ThreadWrites(t)
    BY <2>1
    DEF ThreadReads, ThreadSeesEnd, ThreadWrites,
        ThreadedInv, ThreadedTypeOK, ThreadsOwnSlot, SlotsInv, Started, Connected, SocketOf
  <2>2. CASE ServerExits(t)
    BY <2>2
    DEF ServerExits,
        ThreadedInv, ThreadedTypeOK, ThreadsOwnSlot, SlotsInv, Started, Connected, SocketOf
  <2>3. CASE ThreadCloses(t)
    BY <2>3
    DEF ThreadCloses,
        ThreadedInv, ThreadedTypeOK, ThreadsOwnSlot, SlotsInv, Started, Connected, SocketOf
  <2>4. CASE ThreadFreesSlot(t)
    BY <2>4
    DEF ThreadFreesSlot,
        ThreadedInv, ThreadedTypeOK, ThreadsOwnSlot, SlotsInv, Started, Connected, SocketOf
  <2> QED
    BY <1>6, <2>1, <2>2, <2>3, <2>4 DEF ThreadStep
<1>7. CASE UNCHANGED threadedVars
  BY <1>7
  DEF threadedVars,
      ThreadedInv, ThreadedTypeOK, ThreadsOwnSlot, SlotsInv, Started, Connected, SocketOf
<1> QED
  BY <1>1, <1>2, <1>3, <1>4, <1>5, <1>6, <1>7 DEF ThreadedNext, MainStep

(* Every thread that is not done with its connection has an open socket of  *)
(* its own in its slot, however main() and the threads use the slots: no    *)
(* slot and no descriptor that is used again is closed by the wrong thread. *)
THEOREM ThreadedServerOwnsSlots == ThreadedSpec => []ThreadsOwnSlot
<1>1. ThreadedInv /\ [ThreadedNext]_threadedVars => ThreadedInv'
  BY ThreadedNextInv
<1>2. ThreadedInv => ThreadsOwnSlot
  BY DEF ThreadedInv
<1> QED
  BY ThreadedInitInv, <1>1, <1>2, PTL DEF ThreadedSpec

-----------------------------------------------------------------------------
(* udp_server.cpp                                                           *)

(* A reply is on its way to the sender of its line. Unless a datagram was   *)
(* duplicated there is one datagram of each client that waits, of its last  *)
(* line, and none of a client that does not.                                *)
DatagramsInv ==
  /\ \A d \in toClient : d.line.from = d.to
  /\ echoing => client_addr # NoLine
  /\ doubled = 0 =>
       /\ \A d \in toServer : d.n = linesSent[d.from] /\ d.from \in inRecv
       /\ \A d \in toClient : d.line.n = linesSent[d.to] /\ d.to \in inRecv
       /\ echoing => client_addr.n = linesSent[client_addr.from] /\ client_addr.from \in inRecv
       /\ \A d \in toServer, e \in toClient : d.from # e.to
       /\ echoing => /\ \A d \in toServer : d.from # client_addr.from
                     /\ \A d \in toClient : d.to # client_addr.from

UdpInv == UdpTypeOK /\ DatagramsInv /\ EchoReachesSender

LEMMA LineTypes ==
  ASSUME NEW d \in Lines
  PROVE  d.from \in UdpClients /\ d.n \in 1..MaxLines /\ d # NoLine
<1>1. d.from \in UdpClients /\ d.n \in 1..MaxLines
  BY DEF Lines
<1>2. d.n # 0 /\ NoLine.n = 0
  BY <1>1 DEF NoLine
<1> QED
  BY <1>1, <1>2

LEMMA UdpInitInv == UdpInit => UdpInv
<1> SUFFICES ASSUME UdpInit PROVE UdpInv
  OBVIOUS
<1>1. UdpTypeOK
  <2>1. linesSent \in [UdpClients -> 0..MaxLines] /\ lost \in 0..MaxFaults /\ doubled \in 0..MaxFaults
    BY UdpAssumption DEF UdpInit
  <2>2. shown \in [UdpClients -> Lines \cup {NoLine}] /\ client_addr \in Lines \cup {NoLine}
    BY DEF UdpInit
  <2>3. /\ inRecv \subseteq UdpClients /\ echoing \in BOOLEAN /\ toServer \subseteq Lines
        /\ toClient \subseteq [to : UdpClients, line : Lines]
    BY DEF UdpInit
  <2> QED
    BY <2>1, <2>2, <2>3 DEF UdpTypeOK
<1>2. DatagramsInv
  BY DEF UdpInit, DatagramsInv
<1>3. EchoReachesSender
  BY DEF UdpInit, EchoReachesSender, NoLine
<1> QED
  BY <1>1, <1>2, <1>3 DEF UdpInv

LEMMA UdpNextTypes ==
  ASSUME UdpTypeOK, echoing => client_addr # NoLine, [UdpNext]_udpVars
  PROVE  UdpTypeOK'
<1> USE UdpAssumption
<1>1. ASSUME NEW c \in UdpClients, SendLine(c)
      PROVE  UdpTypeOK'
  <2>1. [from |-> c, n |-> linesSent[c] + 1] \in Lines
    BY <1>1 DEF SendLine, UdpTypeOK, Lines
  <2> QED
    BY <1>1, <2>1 DEF SendLine, UdpTypeOK
<1>2. ASSUME NEW c \in UdpClients, ReceiveReply(c)
      PROVE  UdpTypeOK'
  <2>1. PICK d \in toClient :
          /\ \/ toClient' = toClient \ {d} /\ UNCHANGED doubled
             \/ Duplicate /\ UNCHANGED toClient
          /\ shown' = [shown EXCEPT ![c] = d.line]
    BY <1>2 DEF ReceiveReply
  <2>2. d.line \in Lines
    BY DEF UdpTypeOK
  <2>3. shown' \in [UdpClients -> Lines \cup {NoLine}]
    BY <2>1, <2>2 DEF UdpTypeOK
  <2>4. doubled' \in 0..MaxFaults
    BY <2>1 DEF UdpTypeOK, Duplicate
  <2> QED
    BY <1>2, <2>1, <2>3, <2>4 DEF ReceiveReply, UdpTypeOK
<1>3. CASE ReceiveRequest
  BY <1>3 DEF ReceiveRequest, UdpTypeOK, Duplicate
<1>4. CASE EchoLine
  <2>1. client_addr \in Lines
    BY <1>4 DEF EchoLine, UdpTypeOK
  <2>2. client_addr.from \in UdpClients
    BY <2>1, LineTypes
  <2>3. [to |-> client_addr.from, line |-> client_addr] \in [to : UdpClients, line : Lines]
    BY <2>1, <2>2
  <2> QED
    BY <1>4, <2>3 DEF EchoLine, UdpTypeOK
<1>5. CASE LoseRequest \/ LoseReply
  BY <1>5 DEF LoseRequest, LoseReply, UdpTypeOK
<1>6. CASE UNCHANGED udpVars
  BY <1>6 DEF udpVars, UdpTypeOK
<1> QED
  BY <1>1, <1>2, <1>3, <1>4, <1>5, <1>6 DEF UdpNext

LEMMA UdpNextDatagrams ==
  ASSUME UdpInv, [UdpNext]_udpVars
  PROVE  DatagramsInv'
<1>0. /\ \A d \in toServer : d \in Lines
      /\ \A d \in toClient : d.line \in Lines /\ d.to \in UdpClients
      /\ echoing => client_addr \in Lines
      /\ linesSent \in [UdpClients -> 0..MaxLines]
      /\ doubled \in Nat
  BY UdpAssumption DEF UdpInv, UdpTypeOK, DatagramsInv
<1>1. ASSUME NEW c \in UdpClients, SendLine(c)
      PROVE  DatagramsInv'
  <2> DEFINE new == [from |-> c, n |-> linesSent[c] + 1]
  <2>1. new.from = c /\ new.n = linesSent[c] + 1
    OBVIOUS
  <2>2. linesSent'[c] = linesSent[c] + 1 /\ \A e \in UdpClients \ {c} : linesSent'[e] = linesSent[e]
    BY <1>0, <1>1 DEF SendLine
  <2>3. c \notin inRecv /\ inRecv' = inRecv \cup {c} /\ toServer' = toServer \cup {new}
    BY <1>1 DEF SendLine
  <2>4. UNCHANGED <<toClient, client_addr, echoing, doubled>>
    BY <1>1 DEF SendLine
  <2>5. \A d \in Lines : d.from \in UdpClients
    BY LineTypes
  <2> HIDE DEF new
  <2> QED
    BY <1>0, <2>1, <2>2, <2>3, <2>4, <2>5 DEF UdpInv, DatagramsInv
<1>2. ASSUME NEW c \in UdpClients, ReceiveReply(c)
      PROVE  DatagramsInv'
  <2>1. PICK d \in toClient :
          /\ d.to = c
          /\ \/ toClient' = toClient \ {d} /\ UNCHANGED doubled
             \/ Duplicate /\ UNCHANGED toClient
    BY <1>2 DEF ReceiveReply
  <2>2. inRecv' = inRecv \ {c} /\ UNCHANGED <<linesSent, toServer, client_addr, echoing>>
    BY <1>2 DEF ReceiveReply
  <2>3. CASE UNCHANGED doubled /\ toClient' = toClient \ {d}
    <3>1. doubled = 0 => \A e \in toClient : e.to = c => e = d
      <4> SUFFICES ASSUME doubled = 0, NEW e \in toClient, e.to = c
                   PROVE  e = d
        OBVIOUS
      <4>1. /\ d \in [to : UdpClients, line : Lines] /\ e \in [to : UdpClients, line : Lines]
            /\ d.line.from = d.to /\ e.line.from = e.to
            /\ d.line.n = linesSent[c] /\ e.line.n = linesSent[c]
        BY <2>1 DEF UdpInv, UdpTypeOK, DatagramsInv
      <4>2. d.line = e.line
        BY <2>1, <4>1 DEF Lines
      <4> QED
        BY <2>1, <4>1, <4>2
    <3> QED
      BY <2>1, <2>2, <2>3, <3>1 DEF UdpInv, DatagramsInv
  <2>4. CASE Duplicate /\ UNCHANGED toClient
    BY <1>0, <2>2, <2>4 DEF UdpInv, DatagramsInv, Duplicate
  <2> QED
    BY <2>1, <2>3, <2>4
<1>3. CASE ReceiveRequest
  <2>1. PICK d \in toServer :
          /\ \/ toServer' = toServer \ {d} /\ UNCHANGED doubled
             \/ Duplicate /\ UNCHANGED toServer
          /\ client_addr' = d
    BY <1>3 DEF ReceiveRequest
  <2>2. echoing' /\ UNCHANGED <<linesSent, inRecv, toClient>>
    BY <1>3 DEF ReceiveRequest
  <2>3. client_addr' # NoLine
    BY <1>0, <2>1, LineTypes
  <2>4. CASE UNCHANGED doubled /\ toServer' = toServer \ {d}
    <3>1. doubled = 0 => \A e \in toServer : e.from = d.from => e = d
      BY <1>0 DEF UdpInv, DatagramsInv, Lines
    <3> QED
      BY <2>1, <2>2, <2>3, <2>4, <3>1 DEF UdpInv, DatagramsInv
  <2>5. CASE Duplicate /\ UNCHANGED toServer
    BY <1>0, <2>1, <2>2, <2>3, <2>5 DEF UdpInv, DatagramsInv, Duplicate
  <2> QED
    BY <2>1, <2>4, <2>5
<1>4. CASE EchoLine
  <2> DEFINE new == [to |-> client_addr.from, line |-> client_addr]
  <2>1. new.to = client_addr.from /\ new.line = client_addr
    OBVIOUS
  <2>2. /\ echoing /\ echoing' = FALSE /\ toClient' = toClient \cup {new}
        /\ UNCHANGED <<linesSent, inRecv, toServer, client_addr, doubled>>
    BY <1>4 DEF EchoLine
  <2> HIDE DEF new
  <2> QED
    BY <2>1, <2>2 DEF UdpInv, DatagramsInv
<1>5. CASE LoseRequest \/ LoseReply
  BY <1>5 DEF LoseRequest, LoseReply, UdpInv, DatagramsInv
<1>6. CASE UNCHANGED udpVars
  BY <1>6 DEF udpVars, UdpInv, DatagramsInv
<1> QED
  BY <1>1, <1>2, <1>3, <1>4, <1>5, <1>6 DEF UdpNext

LEMMA UdpNextEchoes ==
  ASSUME UdpInv, [UdpNext]_udpVars
  PROVE  EchoReachesSender'
<1>0. /\ shown \in [UdpClients -> Lines \cup {NoLine}]
      /\ linesSent \in [UdpClients -> 0..MaxLines]
      /\ lost \in Nat /\ doubled \in Nat
  BY UdpAssumption DEF UdpInv, UdpTypeOK
<1>1. ASSUME NEW c \in UdpClients, SendLine(c)
      PROVE  EchoReachesSender'
  <2> DEFINE new == [from |-> c, n |-> linesSent[c] + 1]
  <2>1. new.from = c
    OBVIOUS
  <2>2. \A e \in UdpClients \ {c} : linesSent'[e] = linesSent[e]
    BY <1>0, <1>1 DEF SendLine
  <2>3. /\ inRecv' = inRecv \cup {c} /\ toServer' = toServer \cup {new}
        /\ UNCHANGED <<shown, toClient, client_addr, echoing, lost, doubled>>
    BY <1>1 DEF SendLine
  <2> HIDE DEF new
  <2> QED
    BY <2>1, <2>2, <2>3 DEF UdpInv, EchoReachesSender
<1>2. ASSUME NEW c \in UdpClients, ReceiveReply(c)
      PROVE  EchoReachesSender'
  <2>1. PICK d \in toClient :
          /\ d.to = c
          /\ \/ toClient' = toClient \ {d} /\ UNCHANGED doubled
             \/ Duplicate /\ UNCHANGED toClient
          /\ shown' = [shown EXCEPT ![c] = d.line]
    BY <1>2 DEF ReceiveReply
  <2>2. inRecv' = inRecv \ {c} /\ UNCHANGED <<linesSent, toServer, client_addr, echoing, lost>>
    BY <1>2 DEF ReceiveReply
  <2>3. shown'[c] = d.line /\ \A e \in UdpClients \ {c} : shown'[e] = shown[e]
    BY <1>0, <2>1
  <2>4. d.line.from = c /\ (doubled = 0 => d.line.n = linesSent[c])
    BY <2>1 DEF UdpInv, DatagramsInv
  <2>5. doubled' = 0 => doubled = 0
    BY <1>0, <2>1 DEF Duplicate
  <2> QED
    BY <2>1, <2>2, <2>3, <2>4, <2>5 DEF UdpInv, EchoReachesSender
<1>3. CASE ReceiveRequest
  BY <1>0, <1>3 DEF ReceiveRequest, Duplicate, UdpInv, EchoReachesSender
<1>4. CASE EchoLine
  <2> DEFINE new == [to |-> client_addr.from, line |-> client_addr]
  <2>1. new.to = client_addr.from
    OBVIOUS
  <2>2. /\ toClient' = toClient \cup {new}
        /\ UNCHANGED <<linesSent, inRecv, shown, toServer, client_addr, lost, doubled>>
    BY <1>4 DEF EchoLine
  <2> HIDE DEF new
  <2> QED
    BY <2>1, <2>2 DEF UdpInv, EchoReachesSender
<1>5. CASE LoseRequest \/ LoseReply
  BY <1>0, <1>5 DEF LoseRequest, LoseReply, UdpInv, EchoReachesSender
<1>6. CASE UNCHANGED udpVars
  BY <1>6 DEF udpVars, UdpInv, EchoReachesSender
<1> QED
  BY <1>1, <1>2, <1>3, <1>4, <1>5, <1>6 DEF UdpNext

LEMMA UdpNextInv == ASSUME UdpInv, [UdpNext]_udpVars PROVE UdpInv'
<1>1. UdpTypeOK /\ (echoing => client_addr # NoLine)
  BY DEF UdpInv, DatagramsInv
<1> QED
  BY <1>1, UdpNextTypes, UdpNextDatagrams, UdpNextEchoes DEF UdpInv

(* A client of udp_server.cpp prints lines of its own, the last one unless  *)
(* a datagram was duplicated, and waits in vain only when one was lost.     *)
THEOREM UdpEchoReachesSender == UdpSpec => []EchoReachesSender
<1>1. UdpInv /\ [UdpNext]_udpVars => UdpInv'
  BY UdpNextInv
<1>2. UdpInv => EchoReachesSender
  BY DEF UdpInv
<1> QED
  BY UdpInitInv, <1>1, <1>2, PTL DEF UdpSpec

-----------------------------------------------------------------------------
(* http_header_parser.cpp                                                   *)

NoLength == Seq(Tokens \ {"length"})

(* While the server goes on, nothing has been said, and the state of the    *)
(* parser is that of the lines it has read. No request declares a body.     *)
ParserInv ==
  /\ ParserTypeOK /\ AnswersAsAWhole
  /\ toSend \in NoLength /\ buffer \in NoLength
  /\ parserPc # "closed" =>
       /\ sentence = "none"
       /\ Parsed(buffer, startLine, checkedIndex)
       /\ checkstate = "REQUESTLINE" => startLine = 0
       /\ checkstate = "HEADER" => Headers(buffer, startLine)

LEMMA ParserInitInv == ParserInit => ParserInv
<1> SUFFICES ASSUME ParserInit PROVE ParserInv
  OBVIOUS
<1>1. << >> \in Seq(Tokens) /\ << >> \in NoLength /\ Len(<< >>) = 0
  BY DEF NoLength
<1>2. toSend \in NoLength
  BY ParserAssumption DEF ParserInit, NoLength
<1>3. toSend \in Seq(Tokens)
  BY <1>2 DEF NoLength
<1>4. ParserTypeOK
  <2>1. buffer = << >> /\ Len(buffer) = 0 /\ checkedIndex = 0 /\ startLine = 0
    BY <1>1 DEF ParserInit
  <2>2. buffer \in Seq(Tokens) /\ Len(buffer) <= BUFFER_SIZE
    BY <1>1, <2>1, ParserAssumption
  <2>3. checkedIndex \in 0..Len(buffer) /\ startLine \in 0..checkedIndex
    BY <2>1
  <2>4. checkstate = "REQUESTLINE" /\ parserPc = "recv" /\ sentence = "none"
    BY DEF ParserInit
  <2> QED
    BY <1>3, <2>2, <2>3, <2>4 DEF ParserTypeOK
<1>5. Parsed(buffer, 0, 0)
  BY DEF Parsed, WholeLines
<1>6. Verdict(<< >>) = "NO_REQUEST"
  <2>1. ParseLine(<< >>, 0).status = "LINE_OPEN"
    BY <1>1 DEF ParseLine, LineMarks
  <2>2. Parsed(<< >>, 0, 0) /\ 0 \in 0..Len(<< >>) /\ 0 \in 0..0
    BY <1>1, <1>5 DEF ParserInit
  <2>3. ParseLine(<< >>, 0).status # "LINE_OK"
    BY <2>1
  <2> QED
    BY <1>1, <2>2, <2>3, RequestIncomplete, Zenon
<1> QED
  BY <1>1, <1>2, <1>4, <1>5, <1>6 DEF ParserInit, ParserInv, AnswersAsAWhole

LEMMA NoLengthIsText == ASSUME NEW s \in NoLength PROVE s \in Seq(Tokens)
BY DEF NoLength

(* Without a Content-Length no body is waited for.                          *)
LEMMA NoLengthNoBody ==
  ASSUME NEW s \in NoLength, NEW c \in 0..Len(s)
  PROVE  ~HasLength(s, c)
BY DEF NoLength, HasLength

LEMMA NextLineType ==
  ASSUME ParserTypeOK
  PROVE  NextLine.checked \in checkedIndex .. Len(buffer)
<1> DEFINE marks == LineMarks(buffer, checkedIndex)
           i == FirstOf(marks)
<1>1. CASE marks = {}
  BY <1>1 DEF NextLine, ParseLine, ParserTypeOK
<1>2. CASE marks # {}
  <2>1. i \in checkedIndex + 1 .. Len(buffer)
    BY <1>2, FirstMark DEF ParserTypeOK
  <2>2. NextLine.checked \in {i - 1, i} \/ (NextLine.checked = i + 1 /\ i # Len(buffer))
    BY <1>2 DEF NextLine, ParseLine, CR, LF
  <2> HIDE DEF i
  <2> QED
    BY <2>1, <2>2 DEF ParserTypeOK
<1> QED
  BY <1>1, <1>2

LEMMA RecvKeeps == ASSUME ParserInv, RecvSegment PROVE ParserInv'
<1>1. PICK n \in 1..Len(toSend) :
        /\ n <= Room
        /\ buffer' = buffer \o SubSeq(toSend, 1, n)
        /\ toSend' = SubSeq(toSend, n + 1, Len(toSend))
  BY DEF RecvSegment
<1> DEFINE t == SubSeq(toSend, 1, n)
<1>2. /\ parserPc = "recv" /\ parserPc' = "parse"
      /\ UNCHANGED <<checkedIndex, startLine, checkstate, sentence>>
  BY DEF RecvSegment
<1>3. toSend \in NoLength /\ buffer \in NoLength
  BY DEF ParserInv
<1>4. t \in NoLength /\ Len(t) = n /\ toSend' \in NoLength
  BY <1>1, <1>3 DEF NoLength
<1>5. buffer' \in NoLength /\ Len(buffer') = Len(buffer) + n
  BY <1>1, <1>3, <1>4 DEF NoLength
<1>6. Len(buffer') <= BUFFER_SIZE
  BY <1>1, <1>3, <1>5, ParserAssumption DEF Room, NoLength
<1>7. /\ buffer \in Seq(Tokens) /\ t \in Seq(Tokens) /\ toSend' \in Seq(Tokens)
      /\ buffer' \in Seq(Tokens)
  BY <1>3, <1>4, <1>5, NoLengthIsText
<1>8. ParserTypeOK'
  BY <1>2, <1>5, <1>6, <1>7 DEF ParserInv, ParserTypeOK
<1>9. /\ checkedIndex \in 0..Len(buffer) /\ startLine \in 0..checkedIndex
      /\ startLine \in 0..Len(buffer)
  BY DEF ParserInv, ParserTypeOK
<1>10. Parsed(buffer', startLine, checkedIndex)
  BY <1>1, <1>2, <1>7, <1>9, ParsedStays DEF ParserInv
<1>11. Headers(buffer, startLine) => Headers(buffer', startLine)
  BY <1>1, <1>7, <1>9, HeadersStay
<1> QED
  BY <1>2, <1>4, <1>5, <1>8, <1>10, <1>11 DEF ParserInv, AnswersAsAWhole

(* What a step that reads on knows of the line at hand.                     *)
AtHand ==
  /\ buffer \in Seq(Tokens) /\ buffer \in NoLength
  /\ checkedIndex \in 0..Len(buffer) /\ startLine \in 0..checkedIndex
  /\ Parsed(buffer, startLine, checkedIndex)
  /\ checkstate = "REQUESTLINE" => startLine = 0
  /\ checkstate = "HEADER" => Headers(buffer, startLine)
  /\ checkstate \in {"REQUESTLINE", "HEADER"}
  /\ sentence = "none"
  /\ parserPc = "parse"
  /\ checkedIndex' = NextLine.checked
  /\ checkedIndex' \in checkedIndex .. Len(buffer)
  /\ toSend' = toSend /\ buffer' = buffer

LEMMA LineAtHand ==
  ASSUME ParserInv, NEW status, LineRead(status)
  PROVE  AtHand /\ NextLine.status = status
BY NextLineType DEF ParserInv, ParserTypeOK, LineRead, AtHand

(* Where the line ends is a place in the buffer, and startLine follows.     *)
LEMMA LineReadTypes ==
  ASSUME ParserInv, AtHand, startLine' \in {startLine, checkedIndex'},
         checkstate' \in {"REQUESTLINE", "HEADER"},
         parserPc' \in {"recv", "parse", "closed"}, sentence' \in {"none", "correct", "wrong"}
  PROVE  ParserTypeOK' /\ buffer' \in NoLength /\ toSend' \in NoLength
<1>1. /\ buffer' = buffer /\ toSend' = toSend
      /\ buffer \in Seq(Tokens) /\ toSend \in Seq(Tokens) /\ Len(buffer) <= BUFFER_SIZE
      /\ buffer \in NoLength /\ toSend \in NoLength
  BY DEF ParserInv, ParserTypeOK, AtHand
<1>2. checkedIndex' \in 0..Len(buffer) /\ startLine' \in 0..checkedIndex'
  BY DEF AtHand
<1> QED
  BY <1>1, <1>2 DEF ParserTypeOK

LEMMA RequestLineKeepsInv == ASSUME ParserInv, RequestLine PROVE ParserInv'
<1> DEFINE c == NextLine.checked
<1>1. AtHand /\ NextLine.status = "LINE_OK"
  BY LineAtHand DEF RequestLine
<1>2. /\ checkstate = "REQUESTLINE" /\ startLine' = c /\ checkedIndex' = c
      /\ startLine = 0
  BY <1>1 DEF RequestLine, AtHand
<1>3. IF ThisLine = <<"get">> THEN Headers(buffer, c) ELSE Verdict(buffer) = "BAD_REQUEST"
  BY <1>1, <1>2, RequestLineRead DEF NextLine, ThisLine, AtHand
<1>4. Parsed(buffer, c, c)
  <2>1. c \in Nat /\ WholeLines(buffer, c)
    BY <1>1, LineFound DEF NextLine, AtHand
  <2> QED
    BY <2>1 DEF Parsed
<1>5. CASE ThisLine = <<"get">>
  <2>1. checkstate' = "HEADER" /\ parserPc' = "parse" /\ sentence' = "none"
    BY <1>1, <1>5 DEF RequestLine, RequestLineOk, AtHand
  <2>2. ParserTypeOK' /\ buffer' \in NoLength /\ toSend' \in NoLength
    BY <1>1, <1>2, <2>1, LineReadTypes
  <2> QED
    BY <1>1, <1>2, <1>3, <1>4, <1>5, <2>1, <2>2 DEF ParserInv, AnswersAsAWhole, AtHand
<1>6. CASE ThisLine # <<"get">>
  <2>1. checkstate' = "REQUESTLINE" /\ parserPc' = "closed" /\ sentence' = "wrong"
    BY <1>2, <1>6 DEF RequestLine, RequestLineOk, Say
  <2>2. ParserTypeOK' /\ buffer' \in NoLength /\ toSend' \in NoLength
    BY <1>1, <1>2, <2>1, LineReadTypes
  <2> QED
    BY <1>1, <1>2, <1>3, <1>6, <2>1, <2>2 DEF ParserInv, AnswersAsAWhole, AtHand
<1> QED
  BY <1>5, <1>6

LEMMA HeaderLineKeepsInv == ASSUME ParserInv, HeaderLine PROVE ParserInv'
<1> DEFINE c == NextLine.checked
<1>1. AtHand /\ NextLine.status = "LINE_OK"
  BY LineAtHand DEF HeaderLine
<1>2. /\ checkstate = "HEADER" /\ checkstate' = "HEADER" /\ startLine' = c /\ checkedIndex' = c
      /\ Headers(buffer, startLine)
  BY <1>1 DEF HeaderLine, AtHand
<1>3. c \in 0..Len(buffer) /\ startLine \in Nat
  BY <1>1, <1>2 DEF AtHand
<1>4. Parsed(buffer, c, c)
  <2>1. WholeLines(buffer, c)
    BY <1>1, LineFound DEF NextLine, AtHand
  <2> QED
    BY <1>3, <2>1 DEF Parsed
<1>5. CASE ThisLine # << >>
  <2>1. Headers(buffer, c)
    BY <1>1, <1>2, <1>5, HeaderRead DEF NextLine, ThisLine, AtHand
  <2>2. parserPc' = "parse" /\ sentence' = "none"
    BY <1>1, <1>5 DEF HeaderLine, AtHand
  <2>3. ParserTypeOK' /\ buffer' \in NoLength /\ toSend' \in NoLength
    BY <1>1, <1>2, <2>2, LineReadTypes
  <2> QED
    BY <1>1, <1>2, <1>4, <2>1, <2>2, <2>3 DEF ParserInv, AnswersAsAWhole, AtHand
<1>6. CASE ThisLine = << >>
  <2>1. c = startLine + 2 /\ HeadersEndAt(buffer, c)
    BY <1>1, <1>2, <1>6, EmptyLineRead DEF NextLine, ThisLine, AtHand
  <2>2. c - 2 \in 0..Len(buffer)
    BY <1>3, <2>1
  <2>3. buffer \in NoLength /\ buffer \in Seq(Tokens)
    BY <1>1 DEF AtHand
  <2>4. ~HasLength(buffer, c - 2)
    BY <2>2, <2>3, NoLengthNoBody
  <2>5. Verdict(buffer) = "GET_REQUEST"
    BY <1>3, <2>1, <2>3, <2>4, HeadersOver
  <2>6. parserPc' = "closed" /\ sentence' = "correct"
    BY <1>6 DEF HeaderLine, Say
  <2>7. ParserTypeOK' /\ buffer' \in NoLength /\ toSend' \in NoLength
    BY <1>1, <1>2, <2>6, LineReadTypes
  <2> QED
    BY <1>1, <1>2, <2>5, <2>6, <2>7 DEF ParserInv, AnswersAsAWhole, AtHand
<1> QED
  BY <1>5, <1>6

LEMMA NoReturnKeepsInv == ASSUME ParserInv, NoReturn PROVE ParserInv'
<1>1. AtHand /\ NextLine.status # "LINE_OK"
  <2>1. PICK status \in {"LINE_OPEN", "LINE_BAD"} : LineRead(status)
    BY DEF NoReturn
  <2>2. AtHand /\ NextLine.status = status
    BY <2>1, LineAtHand
  <2> QED
    BY <2>2
<1>2. startLine' = startLine /\ checkstate' = checkstate /\ checkedIndex' = NextLine.checked
  BY <1>1 DEF NoReturn, AtHand
<1>3. Parsed(buffer, startLine, NextLine.checked)
  BY <1>1, NoLineFound DEF NextLine, AtHand
<1>4. Verdict(buffer) = "NO_REQUEST"
  BY <1>1, RequestIncomplete DEF NextLine, AtHand
<1>5. parserPc' = "recv" /\ sentence' = "none"
  BY <1>1 DEF NoReturn, AtHand
<1>6. ParserTypeOK' /\ buffer' \in NoLength /\ toSend' \in NoLength
  BY <1>1, <1>2, <1>5, LineReadTypes DEF AtHand
<1> QED
  BY <1>1, <1>2, <1>3, <1>4, <1>5, <1>6 DEF ParserInv, AnswersAsAWhole, AtHand

LEMMA ParserNextInv == ASSUME ParserInv, [ParserNext]_parserVars PROVE ParserInv'
<1>1. CASE RecvNothing
  BY <1>1 DEF RecvNothing, ParserInv, ParserTypeOK, AnswersAsAWhole
<1>2. CASE UNCHANGED parserVars
  BY <1>2 DEF parserVars, ParserInv, ParserTypeOK, AnswersAsAWhole
<1> QED
  BY <1>1, <1>2, RecvKeeps, RequestLineKeepsInv, HeaderLineKeepsInv, NoReturnKeepsInv
  DEF ParserNext

(* What http_header_parser.cpp answers is the verdict on all it received,   *)
(* in whatever segments, and it waits for more only while there is none.    *)
THEOREM ParserAnswersAsAWhole == ParserSpec => []AnswersAsAWhole
<1>1. ParserInv /\ [ParserNext]_parserVars => ParserInv'
  BY ParserNextInv
<1>2. ParserInv => AnswersAsAWhole
  BY DEF ParserInv
<1> QED
  BY ParserInitInv, <1>1, <1>2, PTL DEF ParserSpec

-----------------------------------------------------------------------------
(* select.cpp, poll.cpp and epoll.cpp                                       *)

(* What is waited for: open connections, each at one position.              *)
PositionsInv ==
  /\ newConn => arriving
  /\ arriving => conns # ConnFds
  /\ \A p \in Positions : fds[p] \in conns \cup {NoFd}
  /\ \A p, q \in Positions : fds[p] = fds[q] /\ fds[p] # NoFd => p = q
  /\ loopKind # "poll" => \A p \in Positions : fds[p] \in {p, NoFd}

(* What is still to be looked at was ready when the wait ended, and is.     *)
ReadyInv ==
  ~garbage =>
    /\ loopKind = "poll" => \A p \in ready : p < maxFd
    /\ loopPc \in {"accept", "serve"} =>
         IF loopKind = "epoll"
         THEN \A p \in ready : fds[p] \in conns /\ far[fds[p]] = "reset"
         ELSE at > 0 /\ \A p \in ready : p >= at => fds[p] \in conns /\ Readable(fds[p])
    /\ loopPc \in {"exited", "spinning"} => \E f \in ConnFds : far[f] = "reset"

LoopInv == LoopTypeOK /\ PositionsInv /\ ReadyInv

LEMMA MinIs ==
  ASSUME NEW S, S \subseteq Nat, S # {}
  PROVE  Min(S) \in S /\ \A n \in S : Min(S) <= n
<1>1. Min(S) = FirstOf(S)
  BY DEF Min, FirstOf
<1> QED
  BY <1>1, FirstExists

LEMMA MaxOfTwo ==
  ASSUME NEW m \in Nat, NEW n \in Nat
  PROVE  Max({m, n}) \in {m, n} /\ Max({m, n}) >= m /\ Max({m, n}) >= n
<1>1. \E x \in {m, n} : \A y \in {m, n} : x >= y
  <2>1. CASE m >= n
    BY <2>1
  <2>2. CASE ~(m >= n)
    BY <2>2
  <2> QED
    BY <2>1, <2>2
<1>2. Max({m, n}) \in {m, n} /\ \A y \in {m, n} : Max({m, n}) >= y
  BY <1>1 DEF Max
<1> QED
  BY <1>2

(* poll.cpp has more entries than clients, so one is free.                  *)
LEMMA FreePlace ==
  ASSUME LoopTypeOK, PositionsInv
  PROVE  \E p \in Positions \ {0} : fds[p] = NoFd
<1> SUFFICES ASSUME \A p \in Positions \ {0} : fds[p] # NoFd
             PROVE  FALSE
  OBVIOUS
<1> DEFINE places == 1..Listenfd + ConnNum
           held == [p \in places |-> fds[p]]
<1>1. places \subseteq Positions \ {0}
  BY LoopAssumption DEF Positions, Listenfd
<1>2. held \in [places -> ConnFds]
  BY <1>1 DEF LoopTypeOK
<1>3. /\ IsFiniteSet(places) /\ Cardinality(places) = Listenfd + ConnNum
      /\ IsFiniteSet(ConnFds) /\ Cardinality(ConnFds) = ConnNum
  BY LoopAssumption, FS_Interval DEF ConnFds, Listenfd
<1>4. \E p, q \in places : p # q /\ held[p] = held[q]
  <2> HIDE DEF held, places
  <2> QED
    BY <1>2, <1>3, FS_PigeonHole, LoopAssumption DEF Listenfd
<1> QED
  BY <1>1, <1>4 DEF PositionsInv

LEMMA LoopInitInv == LoopInit => LoopInv
<1> SUFFICES ASSUME LoopInit PROVE LoopInv
  OBVIOUS
<1>1. LoopTypeOK
  <2>1. garbage \in BOOLEAN
    <3>1. CASE ready = {}
      BY <3>1 DEF LoopInit
    <3>2. CASE ready # {}
      BY <3>2 DEF LoopInit
    <3> QED
      BY <3>1, <3>2
  <2>2. ready \subseteq Positions /\ maxFd \in Positions /\ at \in Nat
    BY LoopAssumption DEF LoopInit, Positions, Listenfd
  <2>3. /\ far \in [ConnFds -> {"open", "closed", "reset"}]
        /\ fds \in [Positions -> ConnFds \cup {NoFd}]
    BY DEF LoopInit
  <2> QED
    BY <2>1, <2>2, <2>3 DEF LoopInit, LoopTypeOK
<1>2. PositionsInv
  BY DEF LoopInit, PositionsInv
<1>3. ReadyInv
  BY DEF LoopInit, ReadyInv
<1> QED
  BY <1>1, <1>2, <1>3 DEF LoopInv

(* The clients: what is readable stays so.                                  *)
LEMMA PeerKeeps ==
  ASSUME LoopInv, PeerConnects \/ \E f \in ConnFds : PeerSends(f) \/ PeerLeaves(f)
  PROVE  LoopInv'
<1>1. CASE PeerConnects
  BY <1>1 DEF PeerConnects, LoopInv, LoopTypeOK, PositionsInv, ReadyInv, Readable
<1>2. ASSUME NEW f \in ConnFds, PeerSends(f)
      PROVE  LoopInv'
  BY <1>2 DEF PeerSends, LoopInv, LoopTypeOK, PositionsInv, ReadyInv, Readable
<1>3. ASSUME NEW f \in ConnFds, PeerLeaves(f)
      PROVE  LoopInv'
  <2>1. /\ far[f] = "open" /\ f \in conns
        /\ \/ far' = [far EXCEPT ![f] = "closed"] /\ UNCHANGED unread
           \/ far' = [far EXCEPT ![f] = "reset"] /\ unread' = unread \ {f}
    BY <1>3 DEF PeerLeaves
  <2> QED
    BY <1>3, <2>1 DEF PeerLeaves, LoopInv, LoopTypeOK, PositionsInv, ReadyInv, Readable
<1> QED
  BY <1>1, <1>2, <1>3

LEMMA WaitKeeps == ASSUME LoopInv, WaitForEvents PROVE LoopInv'
<1>1. ~(loopKind = "select" /\ \E p \in Positions : fds[p] \notin conns \cup {NoFd})
  BY DEF LoopInv, PositionsInv
<1>2. /\ ready' = (ready \ Waited) \cup EventsAt
      /\ newConn' = arriving /\ loopPc' = "accept" /\ at' = 1 /\ loopPc = "wait"
      /\ UNCHANGED <<loopKind, garbage, arriving, conns, unread, far, fds, maxFd>>
  BY <1>1 DEF WaitForEvents
<1>3. Waited \subseteq Positions /\ EventsAt \subseteq Waited
  <2>1. Waited \subseteq Positions
    BY LoopAssumption DEF Waited, LoopInv, LoopTypeOK, Positions, Listenfd
  <2> QED
    BY <2>1 DEF EventsAt
<1>4. LoopTypeOK'
  BY <1>2, <1>3 DEF LoopInv, LoopTypeOK
<1>5. PositionsInv'
  BY <1>2 DEF LoopInv, PositionsInv
<1>6. \A p \in EventsAt : fds[p] \in conns /\ Signalled(fds[p])
  BY <1>3 DEF EventsAt, LoopInv, PositionsInv
<1>7. ~garbage => ready \ Waited = {}
  <2>1. CASE loopKind = "poll"
    BY <2>1, LoopAssumption DEF LoopInv, LoopTypeOK, ReadyInv, Waited, Positions, Listenfd
  <2>2. CASE loopKind # "poll"
    BY <2>2 DEF LoopInv, LoopTypeOK, Waited
  <2> QED
    BY <2>1, <2>2
<1>8. ReadyInv'
  BY <1>2, <1>3, <1>6, <1>7 DEF ReadyInv, Signalled, Readable, LoopInv, LoopTypeOK, Positions, Waited
<1> QED
  BY <1>4, <1>5, <1>8 DEF LoopInv

LEMMA AcceptKeeps == ASSUME LoopInv, AcceptConn PROVE LoopInv'
<1>1. PICK f \in ConnFds \ conns :
        /\ conns' = conns \cup {f}
        /\ far' = [far EXCEPT ![f] = "open"]
        /\ fds' = [fds EXCEPT ![PlaceOf(f)] = f]
        /\ maxFd' = Max({maxFd, f})
  <2>1. conns # ConnFds /\ conns \subseteq ConnFds
    BY DEF AcceptConn, LoopInv, PositionsInv, LoopTypeOK
  <2>2. ConnFds \ conns # {} /\ ConnFds \ conns \subseteq Nat
    <3>1. ConnFds \ conns # {}
      BY <2>1
    <3>2. ConnFds \subseteq Nat
      BY LoopAssumption DEF ConnFds, Listenfd
    <3> QED
      BY <3>1, <3>2
  <2>3. Min(ConnFds \ conns) \in ConnFds \ conns
    BY <2>2, MinIs
  <2> QED
    BY <2>3 DEF AcceptConn
<1>2. /\ loopPc = "accept" /\ loopPc' = "serve" /\ arriving' = FALSE /\ newConn' = FALSE
      /\ UNCHANGED <<loopKind, garbage, unread, ready, at>>
  BY DEF AcceptConn
<1>3. PICK place \in Positions :
        /\ fds[place] = NoFd
        /\ loopKind # "poll" => place = f
        /\ fds' = [fds EXCEPT ![place] = f]
  <2>1. CASE loopKind = "poll"
    <3>1. {p \in Positions \ {0} : fds[p] = NoFd} # {}
      BY FreePlace DEF LoopInv
    <3>2. {p \in Positions \ {0} : fds[p] = NoFd} \subseteq Nat
      BY DEF Positions
    <3>3. PlaceOf(f) \in Positions /\ fds[PlaceOf(f)] = NoFd
      BY <2>1, <3>1, <3>2, MinIs DEF PlaceOf
    <3> QED
      BY <1>1, <2>1, <3>3
  <2>2. CASE loopKind # "poll"
    <3>1. f \in Positions /\ f # NoFd
      BY DEF ConnFds, Positions, Listenfd, NoFd
    <3>2. fds[f] = NoFd
      BY <2>2, <3>1 DEF LoopInv, PositionsInv
    <3> QED
      BY <1>1, <2>2, <3>1, <3>2 DEF PlaceOf
  <2> QED
    BY <2>1, <2>2
<1>4. maxFd' \in Positions /\ maxFd' >= maxFd
  <2>1. maxFd \in Nat /\ f \in Nat /\ f \in Positions /\ maxFd \in Positions
    BY LoopAssumption DEF ConnFds, Positions, Listenfd, LoopInv, LoopTypeOK
  <2> QED
    BY <1>1, <2>1, MaxOfTwo
<1>5. \A p \in Positions : fds'[p] = IF p = place THEN f ELSE fds[p]
  BY <1>3 DEF LoopInv, LoopTypeOK
<1>6. \A g \in ConnFds : far'[g] = IF g = f THEN "open" ELSE far[g]
  BY <1>1 DEF LoopInv, LoopTypeOK
<1>7. \A p \in Positions : fds[p] # f
  BY DEF LoopInv, PositionsInv, ConnFds, NoFd, Listenfd
<1>8. LoopTypeOK'
  BY <1>1, <1>2, <1>3, <1>4 DEF LoopInv, LoopTypeOK
<1>9. PositionsInv'
  BY <1>1, <1>2, <1>3, <1>5, <1>7 DEF LoopInv, PositionsInv
<1>10. ~garbage => \A p \in ready : p < maxFd \/ loopKind # "poll"
  BY DEF LoopInv, ReadyInv
<1>11. NoFd \notin conns /\ ready \subseteq Positions /\ conns \subseteq ConnFds
       /\ maxFd \in Nat /\ maxFd' \in Nat
  BY <1>4 DEF LoopInv, LoopTypeOK, ConnFds, NoFd, Listenfd, Positions
<1>12. ReadyInv'
  BY <1>1, <1>2, <1>3, <1>4, <1>5, <1>6, <1>7, <1>10, <1>11
  DEF LoopInv, ReadyInv, Readable, Positions
<1> QED
  BY <1>8, <1>9, <1>12 DEF LoopInv

(* The position that is looked at.                                          *)
LEMMA ServedPosition ==
  ASSUME LoopInv, ToServe # {}
  PROVE  /\ Min(ToServe) \in Positions /\ Min(ToServe) \in ready /\ at <= Min(ToServe)
         /\ Min(ToServe) \in Nat
<1>1. ToServe \subseteq Positions /\ Positions \subseteq Nat
  <2>1. ready \subseteq Positions
    BY DEF LoopInv, LoopTypeOK
  <2>2. Positions \subseteq Nat
    BY DEF Positions
  <2> QED
    BY <2>1, <2>2 DEF ToServe
<1>2. Min(ToServe) \in ToServe
  BY <1>1, MinIs
<1> QED
  BY <1>1, <1>2 DEF ToServe

LEMMA ServeKeeps ==
  ASSUME LoopInv, NEW f \in ConnFds, Echo(f) \/ HangUp(f) \/ ReadReset(f)
  PROVE  LoopInv'
<1> DEFINE place == Min(ToServe)
<1>1. /\ loopKind # "epoll" /\ loopPc = "serve" /\ fds[place] = f
      /\ place \in Positions /\ place \in ready /\ at <= place /\ place \in Nat
  BY ServedPosition DEF Echo, HangUp, ReadReset, Serving
<1>2. \A p \in ready : p \in Nat /\ p \in Positions
  BY DEF LoopInv, LoopTypeOK, Positions
<1>3. at \in Nat
  BY DEF LoopInv, LoopTypeOK
<1>4. CASE ReadReset(f)
  BY <1>4 DEF ReadReset, LoopInv, LoopTypeOK, PositionsInv, ReadyInv, Readable
<1>5. CASE Echo(f)
  <2>1. /\ unread' = unread \ {f} /\ at' = place + 1
        /\ far' = far \/ far' = [far EXCEPT ![f] = "reset"]
        /\ UNCHANGED <<loopKind, garbage, arriving, conns, fds, maxFd, ready, newConn, loopPc>>
    BY <1>5 DEF Echo
  <2> HIDE DEF place
  <2>2. LoopTypeOK' /\ PositionsInv'
    BY <1>1, <2>1 DEF LoopInv, LoopTypeOK, PositionsInv
  <2>3. \A p \in Positions : p # place => fds[p] # f
    BY <1>1 DEF LoopInv, PositionsInv, ConnFds, NoFd, Listenfd
  <2>4. \A g \in ConnFds : g # f => far'[g] = far[g]
    BY <2>1 DEF LoopInv, LoopTypeOK
  <2>5. conns \subseteq ConnFds
    BY DEF LoopInv, LoopTypeOK
  <2>6. ReadyInv'
    BY <1>1, <1>2, <1>3, <2>1, <2>3, <2>4, <2>5 DEF LoopInv, ReadyInv, Readable
  <2> QED
    BY <2>2, <2>6 DEF LoopInv
<1>6. CASE HangUp(f)
  <2>1. /\ f \in conns \ unread /\ conns' = conns \ {f} /\ at' = place + 1
        /\ fds' = [fds EXCEPT ![place] = NoFd]
        /\ UNCHANGED <<loopKind, garbage, arriving, unread, far, maxFd, ready, newConn, loopPc>>
    BY <1>6 DEF HangUp
  <2> HIDE DEF place
  <2>2. \A p \in Positions : fds'[p] = IF p = place THEN NoFd ELSE fds[p]
    BY <2>1 DEF LoopInv, LoopTypeOK
  <2>3. \A p \in Positions : p # place => fds[p] # f
    BY <1>1 DEF LoopInv, PositionsInv, ConnFds, NoFd, Listenfd
  <2>4. LoopTypeOK'
    BY <1>1, <2>1 DEF LoopInv, LoopTypeOK
  <2>5. conns' # ConnFds
    BY <2>1
  <2>6. PositionsInv'
    BY <1>1, <2>1, <2>2, <2>3, <2>5 DEF LoopInv, PositionsInv
  <2>7. ReadyInv'
    BY <1>1, <1>2, <1>3, <2>1, <2>2, <2>3 DEF LoopInv, ReadyInv, Readable
  <2> QED
    BY <2>4, <2>6, <2>7 DEF LoopInv
<1> QED
  BY <1>4, <1>5, <1>6

LEMMA LoopNextInv == ASSUME LoopInv, [LoopNext]_loopVars PROVE LoopInv'
<1>1. CASE NothingToAccept \/ RoundOver
  BY <1>1 DEF NothingToAccept, RoundOver, LoopInv, LoopTypeOK, PositionsInv, ReadyInv, Readable
<1>2. CASE ReadNoFd
  <2>1. ~garbage => FALSE
    <3>1. /\ loopKind # "epoll" /\ loopPc = "serve" /\ fds[Min(ToServe)] = NoFd
          /\ Min(ToServe) \in ready /\ Min(ToServe) >= at
      BY <1>2, ServedPosition DEF ReadNoFd, Serving
    <3> QED
      BY <3>1 DEF LoopInv, ReadyInv, LoopTypeOK, ConnFds, NoFd, Listenfd
  <2> QED
    BY <1>2, <2>1 DEF ReadNoFd, LoopInv, LoopTypeOK, PositionsInv, ReadyInv
<1>3. CASE Spin
  BY <1>3 DEF Spin, LoopInv, LoopTypeOK, PositionsInv, ReadyInv
<1>4. CASE UNCHANGED loopVars
  BY <1>4 DEF loopVars, LoopInv, LoopTypeOK, PositionsInv, ReadyInv, Readable
<1> QED
  BY <1>1, <1>2, <1>3, <1>4, PeerKeeps, WaitKeeps, AcceptKeeps, ServeKeeps DEF LoopNext, LoopStep

(* The loops of chapter 4 end, or block in read(), only because a client    *)
(* reset its connection, unless poll.cpp happens to find events in revents  *)
(* that nobody has set.                                                     *)
THEOREM LoopsDieByResetOnly == LoopSpec => []LoopDiesByResetOnly
<1>1. LoopInv /\ [LoopNext]_loopVars => LoopInv'
  BY LoopNextInv
<1>2. LoopInv => LoopDiesByResetOnly
  BY DEF LoopInv, LoopTypeOK, ReadyInv, LoopDiesByResetOnly, ToServe
<1> QED
  BY LoopInitInv, <1>1, <1>2, PTL DEF LoopSpec

-----------------------------------------------------------------------------
(* chapter_5/threadpool.h: the draft of the pool                            *)

(* The lock is taken for ever by the worker that took the first request.    *)
Jammed ==
  \/ taken = 0 /\ queueLocked = FALSE
  \/ taken = 1 /\ queueLocked = TRUE

LEMMA JammedInit == DraftInit => Jammed
BY DEF DraftInit, Jammed

(* One step, from a state in which the lock tells how many were taken.      *)
LEMMA JammedStep ==
  ASSUME Jammed, [DraftNext]_draftVars
  PROVE  Jammed' /\ taken' <= 1 /\ (taken = 1 => workqueue' = workqueue)
<1> USE DEF Jammed
<1>1. ASSUME NEW a \in Appenders, AppendRequest(a) PROVE Jammed' /\ taken' <= 1 /\ taken # 1
  BY <1>1 DEF AppendRequest
<1>2. ASSUME NEW a \in Appenders, PostRequest(a)
      PROVE  Jammed' /\ taken' <= 1 /\ workqueue' = workqueue
  BY <1>2 DEF PostRequest
<1>3. ASSUME NEW w \in DraftWorkers,
             TestStop(w) \/ WaitForRequest(w) \/ WaitCutShort(w) \/ FindNoRequest(w) \/ ProcessRequest(w)
      PROVE  Jammed' /\ taken' <= 1 /\ workqueue' = workqueue
  BY <1>3 DEF TestStop, WaitForRequest, WaitCutShort, FindNoRequest, ProcessRequest
<1>4. ASSUME NEW w \in DraftWorkers, TakeRequest(w) PROVE Jammed' /\ taken' <= 1 /\ taken # 1
  BY <1>4 DEF TakeRequest
<1>5. CASE UNCHANGED draftVars
  BY <1>5 DEF draftVars
<1> QED
  BY <1>1, <1>2, <1>3, <1>4, <1>5 DEF DraftNext

(* Once a worker of chapter_5/threadpool.h has taken a request, no other is *)
(* ever taken or appended: the unlock that line 122 lacks jams the pool.    *)
THEOREM DraftJams == DraftSpec => JamsAfterOneRequest
<1>1. DraftInit => Jammed
  BY JammedInit
<1>2. Jammed /\ [DraftNext]_draftVars => Jammed'
  BY JammedStep
<1>3. Jammed /\ [DraftNext]_draftVars
        => [/\ taken' <= 1
            /\ taken = 1 => workqueue' = workqueue]_draftVars
  BY JammedStep
<1> QED
  BY <1>1, <1>2, <1>3, PTL DEF DraftSpec, JamsAfterOneRequest

LEMMA DraftInitTypes == DraftInit => DraftTypeOK
<1> SUFFICES ASSUME DraftInit PROVE DraftTypeOK
  OBVIOUS
<1>1. 0 \in 0..DraftMaxRequests + 1 /\ 0 \in 0..MaxPosts
  BY DraftAssumption
<1>2. /\ appendPc \in [Appenders -> {"start", "post"}]
      /\ draftPc \in [DraftWorkers -> {"test", "wait", "lock", "process", "ended"}]
  BY DEF DraftInit
<1> QED
  BY <1>1, <1>2 DEF DraftInit, DraftTypeOK

LEMMA DraftNextTypes == ASSUME DraftTypeOK, [DraftNext]_draftVars PROVE DraftTypeOK'
<1> USE DraftAssumption DEF DraftTypeOK, DraftGoto
<1>1. ASSUME NEW a \in Appenders, AppendRequest(a) \/ PostRequest(a)
      PROVE  DraftTypeOK'
  BY <1>1 DEF AppendRequest, PostRequest
<1>2. ASSUME NEW w \in DraftWorkers,
             TestStop(w) \/ WaitCutShort(w) \/ FindNoRequest(w) \/ ProcessRequest(w)
      PROVE  DraftTypeOK'
  BY <1>2 DEF TestStop, WaitCutShort, FindNoRequest, ProcessRequest
<1>3. ASSUME NEW w \in DraftWorkers, WaitForRequest(w)
      PROVE  DraftTypeOK'
  BY <1>3 DEF WaitForRequest
<1>4. ASSUME NEW w \in DraftWorkers, TakeRequest(w)
      PROVE  DraftTypeOK'
  BY <1>4 DEF TakeRequest
<1>5. CASE UNCHANGED draftVars
  BY <1>5 DEF draftVars
<1> QED
  BY <1>1, <1>2, <1>3, <1>4, <1>5 DEF DraftNext

-----------------------------------------------------------------------------
(* tcp_server.cpp with processes                                            *)

LEMMA ForkServerInitTypes == ForkServerInit => ForkServerTypeOK
<1> SUFFICES ASSUME ForkServerInit PROVE ForkServerTypeOK
  OBVIOUS
<1>1. 0 \in 0..QueueLimit /\ 0 \in 0..FdLimit
  BY ForkServerAssumption
<1>2. worker \in [Workers -> {"none", "serving", "zombie"}]
  BY DEF ForkServerInit
<1> QED
  BY <1>1, <1>2 DEF ForkServerInit, ForkServerTypeOK

LEMMA ForkServerNextTypes ==
  ASSUME ForkServerTypeOK, [ForkServerNext]_forkServerVars
  PROVE  ForkServerTypeOK'
<1> USE ForkServerAssumption DEF ForkServerTypeOK
<1>1. CASE ClientQueues
  BY <1>1 DEF ClientQueues
<1>2. ASSUME NEW w \in Workers, WorkerEnds(w)
      PROVE  ForkServerTypeOK'
  BY <1>2 DEF WorkerEnds
<1>3. CASE AcceptClient
  BY <1>3 DEF AcceptClient
<1>4. CASE ForkWorker \/ ReapWorker
  BY <1>4 DEF ForkWorker, ReapWorker, WorkersIn
<1>5. CASE EnterSigChild \/ LeaveSigChild
  BY <1>5 DEF EnterSigChild, LeaveSigChild
<1>6. CASE UNCHANGED forkServerVars
  BY <1>6 DEF forkServerVars
<1> QED
  BY <1>1, <1>2, <1>3, <1>4, <1>5, <1>6 DEF ForkServerNext, ForkServerStep

-----------------------------------------------------------------------------
(* All of them                                                              *)

ServersInv ==
  ThreadedInv /\ ForkServerTypeOK /\ UdpInv /\ LoopInv /\ ParserInv /\ DraftTypeOK

(* A step of one server is none of the others.                              *)
LEMMA OneServerSteps ==
  ASSUME [Next]_allVars
  PROVE  /\ [ThreadedNext]_threadedVars /\ [ForkServerNext]_forkServerVars
         /\ [UdpNext]_udpVars /\ [LoopNext]_loopVars
         /\ [ParserNext]_parserVars /\ [DraftNext]_draftVars
BY DEF Next, ThreadsRun, ForksRun, UdpRuns, LoopsRun, ParserRuns, DraftRuns, allVars

(* The types of all the servers, and with them what each of them promises.  *)
THEOREM ServersSafe ==
  Spec => [](TypeOK /\ ThreadsOwnSlot /\ EchoReachesSender /\ LoopDiesByResetOnly /\ AnswersAsAWhole)
<1>1. Init => ServersInv
  BY ThreadedInitInv, ForkServerInitTypes, UdpInitInv, LoopInitInv, ParserInitInv, DraftInitTypes
  DEF Init, ServersInv
<1>2. ServersInv /\ [Next]_allVars => ServersInv'
  <2> SUFFICES ASSUME ServersInv, [Next]_allVars PROVE ServersInv'
    OBVIOUS
  <2>1. ThreadedInv' /\ ForkServerTypeOK'
    BY OneServerSteps, ThreadedNextInv, ForkServerNextTypes DEF ServersInv
  <2>2. UdpInv' /\ LoopInv'
    BY OneServerSteps, UdpNextInv, LoopNextInv DEF ServersInv
  <2>3. ParserInv' /\ DraftTypeOK'
    BY OneServerSteps, ParserNextInv, DraftNextTypes DEF ServersInv
  <2> QED
    BY <2>1, <2>2, <2>3 DEF ServersInv
<1>3. ServersInv => TypeOK /\ ThreadsOwnSlot /\ EchoReachesSender /\ LoopDiesByResetOnly /\ AnswersAsAWhole
  <2>1. LoopInv => LoopDiesByResetOnly
    BY DEF LoopInv, LoopTypeOK, ReadyInv, LoopDiesByResetOnly, ToServe
  <2> QED
    BY <2>1 DEF ServersInv, ThreadedInv, UdpInv, LoopInv, ParserInv, TypeOK
<1> QED
  BY <1>1, <1>2, <1>3, PTL DEF Spec
=============================================================================
