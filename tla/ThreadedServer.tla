--------------------------- MODULE ThreadedServer ---------------------------
(***************************************************************************)
(* chapter_4/tcp_server.cpp as it is built: main() accepts, puts each       *)
(* connection into a free slot of clientInfomations and starts a thread     *)
(* with the address of that slot; the thread echoes until its client leaves *)
(* and then frees the slot. The slots are shared without a lock.            *)
(*                                                                          *)
(* The clients are tcp_client.cpp: a line, its answer, the next line; they  *)
(* may leave at any time. pthread_create() succeeds; accept() fails for no  *)
(* other reason than a missing descriptor.                                  *)
(***************************************************************************)
EXTENDS Integers, FiniteSets

CONSTANTS
  ClientNum,   \* MAX_CLIENT_NUM, the slots
  FdNum,       \* the descriptors the process may have, besides its first ones
  QueueNum     \* BACKLOG, the connections that wait for accept()

ASSUME ThreadedAssumption ==
  /\ ClientNum \in Nat \ {0} /\ FdNum \in Nat \ {0} /\ QueueNum \in Nat \ {0}

Slots == 1..ClientNum
Fds == 1..FdNum
DoThreads == 1..ClientNum + 1

VARIABLES
  queue,       \* connections that wait
  openFds,     \* the descriptors that are open
  lineSent,    \* connections that hold a line the server has not read
  peer,        \* the client's end of each: "open", "closed" or "reset"
  slot,        \* c_sockfd of each slot, 0 when it is free
  accepted,    \* c_sockfd of main()
  acceptPc,    \* "accept", "scan", "start", or "exited": the process is gone
  scanAt,      \* i of the scan
  threadPc,    \* "none", "read", "write", "close", "free"
  slotOf       \* p_ClientInfo of each thread

threadedVars ==
  <<queue, openFds, lineSent, peer, slot, accepted, acceptPc, scanAt, threadPc, slotOf>>

ThreadedTypeOK ==
  /\ queue \in 0..QueueNum
  /\ openFds \subseteq Fds /\ lineSent \subseteq openFds
  /\ peer \in [Fds -> {"open", "closed", "reset"}]
  /\ slot \in [Slots -> Fds \cup {0}]
  /\ accepted \in Fds \cup {0}
  /\ acceptPc \in {"accept", "scan", "start", "exited"}
  /\ scanAt \in Slots
  /\ threadPc \in [DoThreads -> {"none", "read", "write", "close", "free"}]
  /\ slotOf \in [DoThreads -> Slots]

ThreadedInit ==
  /\ queue = 0
  /\ openFds = {} /\ lineSent = {}
  /\ peer = [f \in Fds |-> "closed"]
  /\ slot = [s \in Slots |-> 0]
  /\ accepted = 0
  /\ acceptPc = "accept"
  /\ scanAt = 1
  /\ threadPc = [t \in DoThreads |-> "none"]
  /\ slotOf = [t \in DoThreads |-> 1]

-----------------------------------------------------------------------------
(* The clients                                                              *)

ClientConnects ==
  /\ acceptPc # "exited" /\ queue < QueueNum
  /\ queue' = queue + 1
  /\ UNCHANGED <<openFds, lineSent, peer, slot, accepted, acceptPc, scanAt, threadPc, slotOf>>

(* A line, before the answer to which no other is sent.                     *)
ClientSends(f) ==
  /\ acceptPc # "exited"
  /\ f \in openFds \ lineSent /\ peer[f] = "open"
  /\ ~ \E t \in DoThreads : threadPc[t] = "write" /\ slot[slotOf[t]] = f
  /\ lineSent' = lineSent \cup {f}
  /\ UNCHANGED <<queue, openFds, peer, slot, accepted, acceptPc, scanAt, threadPc, slotOf>>

(* What it has sent is still there to be read, unless it leaves an answer   *)
(* unread and its end of the connection is reset.                           *)
ClientLeaves(f) ==
  /\ f \in openFds /\ peer[f] = "open"
  /\ \/ peer' = [peer EXCEPT ![f] = "closed"] /\ UNCHANGED lineSent
     \/ peer' = [peer EXCEPT ![f] = "reset"] /\ lineSent' = lineSent \ {f}
  /\ UNCHANGED <<queue, openFds, slot, accepted, acceptPc, scanAt, threadPc, slotOf>>

-----------------------------------------------------------------------------
(* main()                                                                   *)

Lowest(S) == CHOOSE n \in S : \A m \in S : n <= m

(* accept(): the lowest free descriptor; without one it fails, exit(-1).    *)
Accept ==
  /\ acceptPc = "accept" /\ queue > 0
  /\ \/ /\ openFds # Fds
        /\ accepted' = Lowest(Fds \ openFds)
        /\ openFds' = openFds \cup {accepted'}
        /\ peer' = [peer EXCEPT ![accepted'] = "open"]
        /\ queue' = queue - 1
        /\ acceptPc' = "scan" /\ scanAt' = 1
     \/ /\ openFds = Fds
        /\ acceptPc' = "exited"
        /\ UNCHANGED <<queue, openFds, peer, accepted, scanAt>>
  /\ UNCHANGED <<lineSent, slot, threadPc, slotOf>>

(* One slot after the other, and again after a second without a free one.   *)
ScanSlot ==
  /\ acceptPc = "scan"
  /\ \/ slot[scanAt] = 0 /\ acceptPc' = "start" /\ UNCHANGED scanAt
     \/ slot[scanAt] # 0 /\ scanAt' = (scanAt % ClientNum) + 1 /\ UNCHANGED acceptPc
  /\ UNCHANGED <<queue, openFds, lineSent, peer, slot, accepted, threadPc, slotOf>>

StartThread ==
  /\ acceptPc = "start"
  /\ slot' = [slot EXCEPT ![scanAt] = accepted]
  /\ LET t == Lowest({d \in DoThreads : threadPc[d] = "none"})
     IN  threadPc' = [threadPc EXCEPT ![t] = "read"] /\ slotOf' = [slotOf EXCEPT ![t] = scanAt]
  /\ acceptPc' = "accept"
  /\ UNCHANGED <<queue, openFds, lineSent, peer, accepted, scanAt>>

-----------------------------------------------------------------------------
(* do_thread()                                                              *)

Running(t, label) == acceptPc # "exited" /\ threadPc[t] = label

SocketOf(t) == slot[slotOf[t]]

ThreadGoto(t, label) == threadPc' = [threadPc EXCEPT ![t] = label]

ThreadReads(t) ==
  /\ Running(t, "read") /\ SocketOf(t) \in lineSent
  /\ lineSent' = lineSent \ {SocketOf(t)}
  /\ ThreadGoto(t, "write")
  /\ UNCHANGED <<queue, openFds, peer, slot, accepted, acceptPc, scanAt, slotOf>>

(* Mutant: the thread gives its slot back before it closes the socket.      *)
ThreadFreesFirst(t) ==
  /\ Running(t, "read") /\ SocketOf(t) \in openFds \ lineSent
  /\ peer[SocketOf(t)] = "closed"
  /\ slot' = [slot EXCEPT ![slotOf[t]] = 0]
  /\ ThreadGoto(t, "close")
  /\ UNCHANGED <<queue, openFds, lineSent, peer, accepted, acceptPc, scanAt, slotOf>>

ThreadSeesEnd(t) ==
  /\ Running(t, "read") /\ SocketOf(t) \in openFds \ lineSent
  /\ peer[SocketOf(t)] = "closed"
  /\ ThreadGoto(t, "close")
  /\ UNCHANGED <<queue, openFds, lineSent, peer, slot, accepted, acceptPc, scanAt, slotOf>>

(* read() or write() on a connection that was reset: exit(-1), or SIGPIPE,  *)
(* ends the server with all its threads.                                    *)
ServerExits(t) ==
  /\ Running(t, "read") \/ Running(t, "write")
  /\ SocketOf(t) \in openFds /\ peer[SocketOf(t)] = "reset"
  /\ acceptPc' = "exited"
  /\ UNCHANGED <<queue, openFds, lineSent, peer, slot, accepted, scanAt, threadPc, slotOf>>

(* The answer to a client that has left resets the connection, though the   *)
(* thread may read the end of the stream before it hears of that.           *)
ThreadWrites(t) ==
  /\ Running(t, "write") /\ peer[SocketOf(t)] # "reset"
  /\ \/ UNCHANGED peer
     \/ peer[SocketOf(t)] = "closed" /\ peer' = [peer EXCEPT ![SocketOf(t)] = "reset"]
  /\ ThreadGoto(t, "read")
  /\ UNCHANGED <<queue, openFds, lineSent, slot, accepted, acceptPc, scanAt, slotOf>>

ThreadCloses(t) ==
  /\ Running(t, "close")
  /\ openFds' = openFds \ {SocketOf(t)}
  /\ lineSent' = lineSent \ {SocketOf(t)}
  /\ ThreadGoto(t, "free")
  /\ UNCHANGED <<queue, peer, slot, accepted, acceptPc, scanAt, slotOf>>

(* Mutant: the slot keeps the closed descriptor.                            *)
ThreadForgetsSlot(t) ==
  /\ Running(t, "free")
  /\ ThreadGoto(t, "none")
  /\ UNCHANGED <<queue, openFds, lineSent, peer, slot, accepted, acceptPc, scanAt, slotOf>>

ThreadFreesSlot(t) ==
  /\ Running(t, "free")
  /\ slot' = [slot EXCEPT ![slotOf[t]] = 0]
  /\ ThreadGoto(t, "none")
  /\ UNCHANGED <<queue, openFds, lineSent, peer, accepted, acceptPc, scanAt, slotOf>>

-----------------------------------------------------------------------------
MainStep == Accept \/ ScanSlot \/ StartThread

ThreadStep(t) ==
  \/ ThreadReads(t) \/ ThreadSeesEnd(t) \/ ServerExits(t)
  \/ ThreadWrites(t) \/ ThreadCloses(t) \/ ThreadFreesSlot(t)

ThreadedNext ==
  \/ ClientConnects
  \/ \E f \in Fds : ClientSends(f) \/ ClientLeaves(f)
  \/ MainStep
  \/ \E t \in DoThreads : ThreadStep(t)

(* Nobody stays for ever.                                                   *)
ThreadedSpec ==
  /\ ThreadedInit /\ [][ThreadedNext]_threadedVars
  /\ WF_threadedVars(MainStep)
  /\ \A t \in DoThreads : WF_threadedVars(ThreadStep(t))
  /\ \A f \in Fds : WF_threadedVars(ClientLeaves(f))

-----------------------------------------------------------------------------
(* What is to be shown.                                                     *)

(* Although main() looks for a free slot while threads free theirs, every   *)
(* thread that is not done with its connection finds an open socket of its  *)
(* own in its slot: the socket is closed (line 109) before the slot is      *)
(* freed (line 110), so that neither a reused slot nor a reused descriptor  *)
(* is closed by the wrong thread.                                           *)
ThreadsOwnSlot ==
  \A t \in DoThreads : threadPc[t] \in {"read", "write", "close"} =>
    /\ SocketOf(t) \in openFds
    /\ \A u \in DoThreads \ {t} :
         threadPc[u] \in {"read", "write", "close"} => SocketOf(u) # SocketOf(t)

(* A connection that main() accepted while all slots were taken gets a      *)
(* thread as soon as clients leave: the scan comes to the slot that was     *)
(* freed. The server may be gone before: a client that resets its           *)
(* connection ends it for all.                                              *)
AcceptedIsServed == acceptPc = "scan" ~> acceptPc \in {"accept", "exited"}
=============================================================================
