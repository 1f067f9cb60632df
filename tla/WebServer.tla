----------------------------- MODULE WebServer ------------------------------
(***************************************************************************)
(* The half-sync/half-reactive web server: the epoll loop of                *)
(* webserver/main.cpp, the connection objects of webserver/http_conn.cpp    *)
(* and the worker threads, on top of the kernel's sockets and epoll.        *)
(*                                                                          *)
(* A connection is passed around by its descriptor: epoll reports it once   *)
(* (EPOLLONESHOT), main() reads the bytes and appends the object to the     *)
(* pool, a worker parses and arms the descriptor again, main() writes the   *)
(* reply. Nothing else protects a connection object from two threads. What  *)
(* is parsed and what is sent are left to module HttpConn: here process()   *)
(* has one of the outcomes of Outcomes.                                     *)
(***************************************************************************)
EXTENDS Integers, Sequences, FiniteSets

CONSTANTS
  Fds,           \* the descriptors that connections can keep
  ListenFd,      \* listenfd
  Workers,       \* the threads of the pool
  Main,          \* the thread that runs main()
  Nothing,       \* no connection, no value
  NULL,          \* the null request of the pool, which main() never appends
  MaxRequests,   \* m_max_requsts of the pool
  MaxUsers,      \* MAX_FD
  MaxEvents,     \* MAX_EVENT_NUMBER
  MaxBacklog,    \* bound: connections that wait to be accepted
  Outcomes       \* what process() may come to, a subset of OutcomeSet

(* NO_REQUEST; a reply to send; process_write() failed (BAD_REQUEST).       *)
OutcomeSet == {"incomplete", "reply", "bad"}

ASSUME ServerAssumption ==
  /\ IsFiniteSet(Fds) /\ ListenFd \notin Fds
  /\ IsFiniteSet(Workers) /\ Main \notin Workers
  /\ Nothing \notin Fds \cup {NULL} \cup Int
  /\ NULL \notin Fds
  /\ MaxRequests \in Nat \ {0}
  /\ MaxUsers \in Nat \ {0}
  /\ MaxEvents \in Nat \ {0}
  /\ MaxBacklog \in Nat \ {0}
  /\ Outcomes \subseteq OutcomeSet

Sources == Fds \cup {ListenFd}

VARIABLES
  backlog,     \* connections that wait to be accepted
  edge,        \* epoll has an event of listenfd to report
  open,        \* the descriptors the process has open
  interest,    \* what each descriptor is armed for: "in", "out" or "off"
  readable,    \* bytes wait in the socket's receive buffer
  shut,        \* the peer has closed (EPOLLRDHUP, EPOLLHUP or EPOLLERR)
  blocked,     \* the socket's send buffer is full
  batch,       \* the events of the last epoll_wait() still to be handled
  live,        \* the descriptors whose object has m_sockfd # -1
  reply,       \* the descriptors whose object has m_write_idx # 0
  userCount,   \* m_user_count
  store,       \* the value each thread is about to store in m_user_count
  pending,     \* the pool's queue
  active       \* the connection each worker is processing

kernel == <<backlog, edge, open, interest, readable, shut, blocked>>
server == <<batch, live, reply, userCount, store>>
pool == <<pending, active>>
vars == <<kernel, server, pool>>

Pool == INSTANCE RequestQueue WITH Requests <- Fds

TypeOK ==
  /\ backlog \in 0..MaxBacklog
  /\ edge \in BOOLEAN
  /\ open \in SUBSET Fds
  /\ interest \in [Fds -> {"off", "in", "out"}]
  /\ readable \in [Fds -> BOOLEAN]
  /\ shut \in [Fds -> BOOLEAN]
  /\ blocked \in [Fds -> BOOLEAN]
  /\ batch \in [Sources -> {"none", "accept", "hup", "in", "out"}]
  /\ live \in SUBSET open
  /\ reply \in SUBSET Fds
  /\ userCount \in Int
  /\ store \in [Workers \cup {Main} -> Int \cup {Nothing}]
  /\ pending \in Seq(Fds)
  /\ active \in [Workers -> Fds \cup {Nothing}]

Init ==
  /\ backlog = 0 /\ edge = FALSE
  /\ open = {}
  /\ interest = [fd \in Fds |-> "off"]
  /\ readable = [fd \in Fds |-> FALSE]
  /\ shut = [fd \in Fds |-> FALSE]
  /\ blocked = [fd \in Fds |-> FALSE]
  /\ batch = [s \in Sources |-> "none"]
  /\ live = {} /\ reply = {}
  /\ userCount = 0
  /\ store = [t \in Workers \cup {Main} |-> Nothing]
  /\ Pool!Init

-----------------------------------------------------------------------------
(* The clients and the network.                                             *)

Connect ==
  /\ backlog < MaxBacklog
  /\ backlog' = backlog + 1
  /\ edge' = TRUE
  /\ UNCHANGED <<open, interest, readable, shut, blocked, server, pool>>

ClientSend(fd) ==
  /\ fd \in open /\ ~readable[fd] /\ ~shut[fd]
  /\ readable' = [readable EXCEPT ![fd] = TRUE]
  /\ UNCHANGED <<backlog, edge, open, interest, shut, blocked, server, pool>>

ClientClose(fd) ==
  /\ fd \in open /\ ~shut[fd]
  /\ shut' = [shut EXCEPT ![fd] = TRUE]
  /\ UNCHANGED <<backlog, edge, open, interest, readable, blocked, server, pool>>

ClientDrain(fd) ==
  /\ blocked[fd]
  /\ blocked' = [blocked EXCEPT ![fd] = FALSE]
  /\ UNCHANGED <<backlog, edge, open, interest, readable, shut, server, pool>>

-----------------------------------------------------------------------------
(* m_user_count++ and m_user_count-- are a load and a store: the variable   *)
(* is a plain int that main() and the workers change without a lock.        *)

LoadToAdd(t, n) == store' = [store EXCEPT ![t] = userCount + n]

Store(t) ==
  /\ store[t] # Nothing
  /\ userCount' = store[t]
  /\ store' = [store EXCEPT ![t] = Nothing]

(* Mutant: close_conn() does not look whether the object is closed already. *)
CloseConnTwice(t, fd) ==
  /\ live' = live \ {fd}
  /\ LoadToAdd(t, -1)
  /\ UNCHANGED userCount

(* close_conn(): the object forgets the descriptor, which stays open and    *)
(* registered with epoll.                                                   *)
CloseConn(t, fd) ==
  /\ live' = live \ {fd}
  /\ IF fd \in live THEN LoadToAdd(t, -1) ELSE UNCHANGED store
  /\ UNCHANGED userCount

(* modfd(m_epollfd, m_sockfd, ev): fails on a closed object, whose m_sockfd *)
(* is -1.                                                                   *)
Arm(fd, ev) ==
  interest' = IF fd \in live THEN [interest EXCEPT ![fd] = ev] ELSE interest

-----------------------------------------------------------------------------
(* main(): the event loop. Its thread is between two handlers when it has   *)
(* nothing to store.                                                        *)

MainFree == store[Main] = Nothing

(* The branch of lines 109-155 that an event of s would take now, if epoll  *)
(* has one to report. A hangup comes first, whatever else is reported.      *)
Event(s) ==
  CASE s = ListenFd -> IF edge THEN "accept" ELSE "none"
    [] s # ListenFd -> CASE interest[s] = "off" -> "none"
                         [] interest[s] # "off" /\ shut[s] -> "hup"
                         [] interest[s] = "in" /\ ~shut[s] /\ readable[s] -> "in"
                         [] interest[s] = "out" /\ ~shut[s] /\ ~blocked[s] -> "out"
                         [] OTHER -> "none"

(* Mutant: EPOLLONESHOT is left out of addfd() and modfd().                 *)
EpollWaitRepeated ==
  /\ MainFree /\ \A s \in Sources : batch[s] = "none"
  /\ \E s \in Sources : Event(s) # "none"
  /\ batch' = [s \in Sources |-> Event(s)]
  /\ edge' = FALSE
  /\ UNCHANGED <<backlog, open, interest, readable, shut, blocked>>
  /\ UNCHANGED <<live, reply, userCount, store, pool>>

(* epoll_wait() reports all events there are, or as many as fit, and        *)
(* disarms the one-shot descriptors it reports.                             *)
EpollWait ==
  /\ MainFree /\ \A s \in Sources : batch[s] = "none"
  /\ LET ready == {s \in Sources : Event(s) # "none"} IN
       \E S \in SUBSET ready :
         /\ S # {}
         /\ S = ready \/ Cardinality(S) = MaxEvents
         /\ batch' = [s \in Sources |-> IF s \in S THEN Event(s) ELSE "none"]
         /\ interest' = [fd \in Fds |-> IF fd \in S THEN "off" ELSE interest[fd]]
         /\ edge' = (edge /\ ListenFd \notin S)
  /\ UNCHANGED <<backlog, open, readable, shut, blocked, live, reply, userCount, store, pool>>

(* The handler that is called for an event of s of kind k.                  *)
Handles(s, k) ==
  /\ MainFree /\ batch[s] = k
  /\ batch' = [batch EXCEPT ![s] = "none"]

(* accept() fails (EMFILE): the connection stays in the backlog.            *)
AcceptFails ==
  /\ Handles(ListenFd, "accept")
  /\ backlog = 0 \/ open = Fds
  /\ UNCHANGED <<kernel, live, reply, userCount, store, pool>>

(* show_error(): the connection is closed at once, and with it the          *)
(* descriptor, which may be one beyond those of Fds.                        *)
AcceptBusy ==
  /\ Handles(ListenFd, "accept")
  /\ backlog > 0 /\ userCount >= MaxUsers
  /\ backlog' = backlog - 1
  /\ UNCHANGED <<edge, open, interest, readable, shut, blocked>>
  /\ UNCHANGED <<live, reply, userCount, store, pool>>

(* init_conn(). The client may have sent, or closed, before the accept().   *)
(* The test of m_user_count and its load for the ++ are one step.           *)
AcceptConn(fd, r, s) ==
  /\ Handles(ListenFd, "accept")
  /\ backlog > 0 /\ fd \notin open /\ userCount < MaxUsers
  /\ backlog' = backlog - 1
  /\ open' = open \cup {fd}
  /\ interest' = [interest EXCEPT ![fd] = "in"]
  /\ readable' = [readable EXCEPT ![fd] = r]
  /\ shut' = [shut EXCEPT ![fd] = s]
  /\ blocked' = [blocked EXCEPT ![fd] = FALSE]
  /\ live' = live \cup {fd}
  /\ reply' = reply \ {fd}
  /\ LoadToAdd(Main, 1)
  /\ UNCHANGED <<edge, userCount, pool>>

(* Mutant: main() calls removefd() where it should call close_conn().       *)
HandleHupRemoves(fd) ==
  /\ Handles(fd, "hup")
  /\ open' = open \ {fd}
  /\ UNCHANGED <<backlog, edge, interest, readable, shut, blocked, live, reply, userCount, store, pool>>

HandleHup(fd) ==
  /\ Handles(fd, "hup")
  /\ CloseConn(Main, fd)
  /\ UNCHANGED <<kernel, reply, pool>>

(* read() returns true: all bytes were taken, and the object goes to the    *)
(* pool. main() does not look at what append() returns.                     *)
HandleRead(fd) ==
  /\ Handles(fd, "in")
  /\ fd \in live /\ ~shut[fd]
  /\ readable' = [readable EXCEPT ![fd] = FALSE]
  /\ IF Len(pending) <= MaxRequests THEN Pool!Accept(fd) ELSE UNCHANGED pool
  /\ UNCHANGED <<backlog, edge, open, interest, shut, blocked, live, reply, userCount, store>>

(* read() returns false: the request fills the buffer (recv() with no room  *)
(* returns 0), the peer has closed meanwhile, or m_sockfd is -1. What a     *)
(* closed object leaves unread no longer matters.                           *)
HandleReadFails(fd) ==
  /\ Handles(fd, "in")
  /\ readable' = [readable EXCEPT ![fd] = readable[fd] /\ fd \notin live]
  /\ CloseConn(Main, fd)
  /\ UNCHANGED <<backlog, edge, open, interest, shut, blocked, reply, pool>>

(* Mutant: EAGAIN is answered without modfd().                              *)
HandleWriteBlocksUnarmed(fd) ==
  /\ Handles(fd, "out")
  /\ fd \in live /\ fd \in reply
  /\ blocked' = [blocked EXCEPT ![fd] = TRUE]
  /\ UNCHANGED <<backlog, edge, open, interest, readable, shut, live, reply, userCount, store, pool>>

(* write() waits for room (EAGAIN).                                         *)
HandleWriteBlocks(fd) ==
  /\ Handles(fd, "out")
  /\ fd \in live /\ fd \in reply
  /\ blocked' = [blocked EXCEPT ![fd] = TRUE]
  /\ Arm(fd, "out")
  /\ UNCHANGED <<backlog, edge, open, readable, shut, live, reply, userCount, store, pool>>

(* Mutant: a kept connection is not initialised again.                      *)
HandleWriteKeepsReply(fd) ==
  /\ Handles(fd, "out")
  /\ fd \in live
  /\ Arm(fd, "in")
  /\ UNCHANGED <<backlog, edge, open, readable, shut, blocked, live, reply, userCount, store, pool>>

(* write() is done and the connection is kept; also what write() does when  *)
(* there is nothing to send.                                                *)
HandleWriteKeeps(fd) ==
  /\ Handles(fd, "out")
  /\ fd \in live \/ fd \notin reply
  /\ reply' = reply \ {fd}
  /\ Arm(fd, "in")
  /\ UNCHANGED <<backlog, edge, open, readable, shut, blocked, live, userCount, store, pool>>

(* write() is done and the connection is not kept: it is armed, and then    *)
(* main() closes the object.                                                *)
HandleWriteEnds(fd) ==
  /\ Handles(fd, "out")
  /\ fd \in live /\ fd \in reply
  /\ Arm(fd, "in")
  /\ CloseConn(Main, fd)
  /\ UNCHANGED <<backlog, edge, open, readable, shut, blocked, reply, pool>>

(* writev() fails: the peer has reset the connection, or m_sockfd is -1.    *)
HandleWriteFails(fd) ==
  /\ Handles(fd, "out")
  /\ fd \in reply /\ (shut[fd] \/ fd \notin live)
  /\ CloseConn(Main, fd)
  /\ UNCHANGED <<kernel, reply, pool>>

MainStore ==
  /\ Store(Main)
  /\ UNCHANGED <<kernel, batch, live, reply, pool>>

-----------------------------------------------------------------------------
(* The workers: process() of the connection that the pool hands out.        *)

Dispatch(w) == Pool!Dispatch(w) /\ UNCHANGED <<kernel, server>>

Serves(w, fd) == active[w] = fd /\ fd # Nothing /\ store[w] = Nothing

(* Mutant: process() returns without modfd() when the request is incomplete.*)
ProcessIncompleteUnarmed(w, fd) ==
  /\ Serves(w, fd) /\ "incomplete" \in Outcomes
  /\ Pool!Complete(w)
  /\ UNCHANGED <<kernel, server>>

(* Mutant: process() arms the descriptor before it is done with the object. *)
ProcessArmsEarly(w, fd) ==
  /\ Serves(w, fd) /\ "incomplete" \in Outcomes
  /\ Arm(fd, "in")
  /\ UNCHANGED <<backlog, edge, open, readable, shut, blocked, server, pool>>

(* process_read() returns NO_REQUEST.                                       *)
ProcessIncomplete(w, fd) ==
  /\ Serves(w, fd) /\ "incomplete" \in Outcomes
  /\ Arm(fd, "in")
  /\ Pool!Complete(w)
  /\ UNCHANGED <<backlog, edge, open, readable, shut, blocked, server>>

(* process_write() has filled the write buffer.                             *)
ProcessReply(w, fd) ==
  /\ Serves(w, fd) /\ "reply" \in Outcomes
  /\ reply' = reply \cup {fd}
  /\ Arm(fd, "out")
  /\ Pool!Complete(w)
  /\ UNCHANGED <<backlog, edge, open, readable, shut, blocked, batch, live, userCount, store>>

(* process_write() returns false: the worker closes the object; the modfd   *)
(* that follows names descriptor -1.                                        *)
ProcessBad(w, fd) ==
  /\ Serves(w, fd) /\ "bad" \in Outcomes
  /\ reply' = reply \cup {fd}
  /\ CloseConn(w, fd)
  /\ IF fd \in live THEN UNCHANGED pool ELSE Pool!Complete(w)
  /\ UNCHANGED <<kernel, batch>>

WorkerStore(w) ==
  /\ Store(w)
  /\ Pool!Complete(w)
  /\ UNCHANGED <<kernel, batch, live, reply>>

-----------------------------------------------------------------------------
ClientStep == Connect \/ \E fd \in Fds : ClientSend(fd) \/ ClientClose(fd) \/ ClientDrain(fd)

MainStep ==
  \/ EpollWait \/ AcceptFails \/ AcceptBusy \/ MainStore
  \/ \E fd \in Fds :
       \/ \E r, s \in BOOLEAN : AcceptConn(fd, r, s)
       \/ HandleHup(fd) \/ HandleRead(fd) \/ HandleReadFails(fd)
       \/ HandleWriteBlocks(fd) \/ HandleWriteKeeps(fd)
       \/ HandleWriteEnds(fd) \/ HandleWriteFails(fd)

WorkerStep(w) ==
  \/ Dispatch(w) \/ WorkerStore(w)
  \/ \E fd \in Fds : ProcessIncomplete(w, fd) \/ ProcessReply(w, fd) \/ ProcessBad(w, fd)

Next == ClientStep \/ MainStep \/ \E w \in Workers : WorkerStep(w)

Spec == Init /\ [][Next]_vars

(* The server's threads run; clients do as they please.                     *)
Fairness == WF_vars(MainStep) /\ \A w \in Workers : WF_vars(WorkerStep(w))

FairSpec == Spec /\ Fairness

-----------------------------------------------------------------------------
(* What is to be shown.                                                     *)

Armed(fd) == interest[fd] # "off"
Reported(fd) == batch[fd] # "none"
Queued(fd) == \E i \in 1..Len(pending) : pending[i] = fd
Served(fd) == \E w \in Workers : active[w] = fd
Owned(fd) == Armed(fd) \/ Reported(fd) \/ Queued(fd) \/ Served(fd)

(* A connection is in one place at a time: armed in epoll, reported to      *)
(* main() and not yet handled, in the queue (once), or with a worker (one). *)
(* So no two threads touch a connection object at the same time, which has  *)
(* no lock: EPOLLONESHOT and the order of modfd() and append() are all      *)
(* there is. A modfd() too early, or a descriptor added without the         *)
(* one-shot flag, breaks it.                                                *)
OneOwner ==
  /\ \A fd \in Fds :
       /\ Armed(fd) => ~Reported(fd) /\ ~Queued(fd) /\ ~Served(fd)
       /\ Reported(fd) => ~Queued(fd) /\ ~Served(fd)
       /\ Queued(fd) => ~Served(fd)
  /\ \A i, j \in 1..Len(pending) : pending[i] = pending[j] => i = j
  /\ \A v, w \in Workers : active[v] = active[w] => v = w \/ active[v] = Nothing

(* The pool never holds a connection that has been closed meanwhile: the    *)
(* hangup of a connection that waits in the queue or is being processed is  *)
(* reported only after the worker has armed it again. A worker's connection *)
(* is closed by that worker only.                                           *)
PoolHoldsLive ==
  \A fd \in Fds : /\ Queued(fd) => fd \in live
                  /\ \A w \in Workers :
                       active[w] = fd => (fd \in live <=> store[w] = Nothing)

(* EPOLLOUT is asked for, and write() called, only when the object is live  *)
(* and holds a reply; a request is read into, and processed by, an object   *)
(* without one. An object that main() closes although its descriptor was    *)
(* armed again (line 410 of http_conn.cpp) meets no write() any more.       *)
(* (write() with m_write_idx = 0 is dead code.)                             *)
ReplyWhenWriting ==
  \A fd \in Fds :
    /\ interest[fd] = "out" \/ batch[fd] = "out" => fd \in live /\ fd \in reply
    /\ fd \in live /\ (interest[fd] = "in" \/ batch[fd] = "in" \/ Queued(fd) \/ Served(fd)) =>
         fd \notin reply

(* A live connection that somebody owns keeps an owner, but for the one     *)
(* whose append() a full queue refused: main() ignores the refusal, and the *)
(* descriptor, disarmed by its last event, is never reported again.         *)
LosesOwnerOnlyWhenQueueFull ==
  [][\A fd \in live : fd \in live' /\ Owned(fd) => Owned(fd)' \/ Len(pending) > MaxRequests]_vars

(* Every live connection has an owner, so none hangs for good: true as long *)
(* as no append() is refused, for instance with fewer connections than the  *)
(* MaxRequests + 1 requests that the code admits to the queue.              *)
EveryLiveConnOwned == \A fd \in live : Owned(fd)

(* m_user_count counts the live connections, give or take the updates under *)
(* way.                                                                     *)
UserCountExact ==
  (\A t \in Workers \cup {Main} : store[t] = Nothing) => userCount = Cardinality(live)

(* Nobody loads m_user_count while another thread is about to store it.     *)
UpdatesApart ==
  \A t, u \in Workers \cup {Main} : store[t] # Nothing /\ store[u] # Nothing => t = u

(* The race of a worker's close_conn() with main(), or with another one, is *)
(* the only way for the count to go wrong: through hangups, failed reads,   *)
(* closes of closed objects and refused connections it stays exact.         *)
CountDriftsByRaceOnly == []UpdatesApart => []UserCountExact

(* The comment of main.cpp:132: a connection that the client closes, or     *)
(* that fails, releases its resources. close_conn() leaves the descriptor   *)
(* open and registered.                                                     *)
ClosedConnReleased == open \subseteq live

(* With no append() refused, bytes that reach a live connection are read,   *)
(* or it is closed, or its client does not take the reply it is sent.       *)
BytesAreRead ==
  \A fd \in Fds :
    (fd \in live /\ readable[fd]) ~> (~readable[fd] \/ fd \notin live \/ blocked[fd])

(* With no append() refused, the hangup of a client is noticed, whatever    *)
(* its connection is doing: waiting in the queue, being processed, or       *)
(* blocked on a reply that nobody takes.                                    *)
HangupIsNoticed == \A fd \in Fds : (fd \in live /\ shut[fd]) ~> fd \notin live
=============================================================================
