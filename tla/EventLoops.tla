----------------------------- MODULE EventLoops -----------------------------
(***************************************************************************)
(* chapter_4: select.cpp, poll.cpp and epoll.cpp, three echo servers of one *)
(* thread that differ in how they wait for their sockets.                   *)
(*                                                                          *)
(* fds[p] is the descriptor at position p of what is waited for: an index   *)
(* of the array in poll.cpp, the descriptor itself in the other two. The    *)
(* listening socket is descriptor 3 and is always waited for. There are as  *)
(* many descriptors as clients at a time, so that accept() does not fail.   *)
(***************************************************************************)
EXTENDS Integers, FiniteSetsExt

CONSTANT ConnNum    \* clients at a time; MAX_CLIENT_NUM is more than their descriptors

ASSUME LoopAssumption == ConnNum \in Nat \ {0}

Listenfd == 3
ConnFds == Listenfd + 1 .. Listenfd + ConnNum
Positions == 0..Listenfd + ConnNum
NoFd == -1

VARIABLES
  loopKind,    \* which server runs
  garbage,     \* the revents that poll.cpp never initialised are not all 0
  arriving,    \* somebody waits for accept()
  conns,       \* the open connections
  unread,      \* those with bytes the server has not read
  far,         \* the client's end of each: "open", "closed" or "reset"
  fds,         \* what the server waits for, as above
  maxFd,       \* cur_max_fd, MAXFD
  ready,       \* the positions with POLLIN in revents, or in k_read_set
  newConn,     \* the listening socket was ready
  at,          \* i of the loop over the positions
  loopPc       \* "wait", "accept", "serve", "exited", or "spinning" for ever

loopVars == <<loopKind, garbage, arriving, conns, unread, far, fds, maxFd, ready, newConn, at, loopPc>>

LoopTypeOK ==
  /\ loopKind \in {"select", "poll", "epoll"} /\ garbage \in BOOLEAN
  /\ arriving \in BOOLEAN /\ newConn \in BOOLEAN
  /\ conns \subseteq ConnFds /\ unread \subseteq conns
  /\ far \in [ConnFds -> {"open", "closed", "reset"}]
  /\ fds \in [Positions -> ConnFds \cup {NoFd}]
  /\ maxFd \in Positions
  /\ ready \subseteq Positions
  /\ at \in Nat
  /\ loopPc \in {"wait", "accept", "serve", "exited", "spinning"}

(* fds[] of poll.cpp lives on the stack: its revents hold anything.         *)
LoopInit ==
  /\ loopKind \in {"select", "poll", "epoll"}
  /\ ready \in {{}} \cup (IF loopKind = "poll" THEN {{1}, {2}} ELSE {})
  /\ garbage = (ready # {})
  /\ arriving = FALSE /\ newConn = FALSE
  /\ conns = {} /\ unread = {}
  /\ far = [f \in ConnFds |-> "closed"]
  /\ fds = [p \in Positions |-> NoFd]
  /\ maxFd = IF loopKind = "select" THEN Listenfd
             ELSE IF loopKind = "poll" THEN 1
             ELSE Listenfd + ConnNum
  /\ at = 0
  /\ loopPc = "wait"

-----------------------------------------------------------------------------
(* The clients                                                              *)

PeerConnects ==
  /\ ~arriving /\ conns # ConnFds
  /\ arriving' = TRUE
  /\ UNCHANGED <<loopKind, garbage, conns, unread, far, fds, maxFd, ready, newConn, at, loopPc>>

PeerSends(f) ==
  /\ f \in conns \ unread /\ far[f] = "open"
  /\ unread' = unread \cup {f}
  /\ UNCHANGED <<loopKind, garbage, arriving, conns, far, fds, maxFd, ready, newConn, at, loopPc>>

PeerLeaves(f) ==
  /\ f \in conns /\ far[f] = "open"
  /\ \/ far' = [far EXCEPT ![f] = "closed"] /\ UNCHANGED unread
     \/ far' = [far EXCEPT ![f] = "reset"] /\ unread' = unread \ {f}
  /\ UNCHANGED <<loopKind, garbage, arriving, conns, fds, maxFd, ready, newConn, at, loopPc>>

-----------------------------------------------------------------------------
(* The servers                                                              *)

Readable(f) == f \in unread \/ far[f] # "open"

(* epoll.cpp asks for EPOLLET and for nothing else: it only hears of errors.*)
Signalled(f) == IF loopKind = "epoll" THEN far[f] = "reset" ELSE Readable(f)

(* poll() is told of cur_max_fd positions, counted from 0.                  *)
Waited == IF loopKind = "poll" THEN 0..maxFd - 1 ELSE Positions

EventsAt == {p \in Waited : fds[p] # NoFd /\ Signalled(fds[p])}

(* The wait ends when something is ready, and says nothing of positions it  *)
(* was not told of. A closed descriptor makes select() fail.                *)
WaitForEvents ==
  /\ loopPc = "wait"
  /\ IF loopKind = "select" /\ \E p \in Positions : fds[p] \notin conns \cup {NoFd}
       THEN loopPc' = "exited" /\ UNCHANGED <<ready, newConn>>
       ELSE /\ arriving \/ EventsAt # {}
            /\ ready' = (ready \ Waited) \cup EventsAt
            /\ newConn' = arriving
            /\ loopPc' = "accept"
  /\ at' = 1
  /\ UNCHANGED <<loopKind, garbage, arriving, conns, unread, far, fds, maxFd>>

(* The first free entry of fds[], or the entry of the descriptor.           *)
PlaceOf(f) == IF loopKind = "poll" THEN Min({p \in Positions \ {0} : fds[p] = NoFd}) ELSE f

(* Mutant: MAXFD and cur_max_fd stay behind.                                *)
AcceptBelowMax ==
  /\ loopPc = "accept" /\ newConn
  /\ LET f == Min(ConnFds \ conns)
     IN  /\ conns' = conns \cup {f}
         /\ far' = [far EXCEPT ![f] = "open"]
         /\ fds' = [fds EXCEPT ![PlaceOf(f)] = f]
  /\ arriving' = FALSE /\ newConn' = FALSE
  /\ loopPc' = "serve"
  /\ UNCHANGED <<loopKind, garbage, unread, maxFd, ready, at>>

AcceptConn ==
  /\ loopPc = "accept" /\ newConn
  /\ LET f == Min(ConnFds \ conns)
     IN  /\ conns' = conns \cup {f}
         /\ far' = [far EXCEPT ![f] = "open"]
         /\ fds' = [fds EXCEPT ![PlaceOf(f)] = f]
         /\ maxFd' = Max({maxFd, f})
  /\ arriving' = FALSE /\ newConn' = FALSE
  /\ loopPc' = "serve"
  /\ UNCHANGED <<loopKind, garbage, unread, ready, at>>

NothingToAccept ==
  /\ loopPc = "accept" /\ ~newConn
  /\ loopPc' = "serve"
  /\ UNCHANGED <<loopKind, garbage, arriving, conns, unread, far, fds, maxFd, ready, newConn, at>>

(* The positions still to be looked at; poll.cpp goes one too far.          *)
ToServe == {p \in ready : at <= p /\ p <= maxFd}

(* read() of what fds[] holds at the next of them.                          *)
Serving(f) == loopKind # "epoll" /\ loopPc = "serve" /\ ToServe # {} /\ fds[Min(ToServe)] = f

(* What was read goes back; to a client that left, which answers with RST.  *)
Echo(f) ==
  /\ Serving(f) /\ f \in unread
  /\ unread' = unread \ {f}
  /\ \/ UNCHANGED far
     \/ far[f] = "closed" /\ far' = [far EXCEPT ![f] = "reset"]
  /\ at' = Min(ToServe) + 1
  /\ UNCHANGED <<loopKind, garbage, arriving, conns, fds, maxFd, ready, newConn, loopPc>>

(* Mutant: the closed descriptor stays in the set.                          *)
HangUpOnly(f) ==
  /\ Serving(f) /\ f \in conns \ unread /\ far[f] = "closed"
  /\ conns' = conns \ {f}
  /\ at' = Min(ToServe) + 1
  /\ UNCHANGED <<loopKind, garbage, arriving, unread, far, fds, maxFd, ready, newConn, loopPc>>

HangUp(f) ==
  /\ Serving(f) /\ f \in conns \ unread /\ far[f] = "closed"
  /\ conns' = conns \ {f}
  /\ fds' = [fds EXCEPT ![Min(ToServe)] = NoFd]
  /\ at' = Min(ToServe) + 1
  /\ UNCHANGED <<loopKind, garbage, arriving, unread, far, maxFd, ready, newConn, loopPc>>

(* read() of a connection that was reset fails: exit(-1).                   *)
ReadReset(f) ==
  /\ Serving(f) /\ far[f] = "reset"
  /\ loopPc' = "exited"
  /\ UNCHANGED <<loopKind, garbage, arriving, conns, unread, far, fds, maxFd, ready, newConn, at>>

(* So does read() of descriptor -1, of an entry that is free.               *)
ReadNoFd ==
  /\ Serving(NoFd)
  /\ loopPc' = "exited"
  /\ UNCHANGED <<loopKind, garbage, arriving, conns, unread, far, fds, maxFd, ready, newConn, at>>

(* while (1) of epoll.cpp: an event without EPOLLIN leaves it never, and    *)
(* with EPOLLIN, which is never asked for, there is no event.               *)
Spin ==
  /\ loopKind = "epoll" /\ loopPc \in {"accept", "serve"} /\ ready # {}
  /\ loopPc' = "spinning"
  /\ UNCHANGED <<loopKind, garbage, arriving, conns, unread, far, fds, maxFd, ready, newConn, at>>

RoundOver ==
  /\ loopPc = "serve" /\ ToServe = {}
  /\ loopPc' = "wait"
  /\ UNCHANGED <<loopKind, garbage, arriving, conns, unread, far, fds, maxFd, ready, newConn, at>>

LoopStep ==
  \/ WaitForEvents \/ AcceptConn \/ NothingToAccept
  \/ \E f \in ConnFds : Echo(f) \/ HangUp(f) \/ ReadReset(f)
  \/ ReadNoFd \/ Spin \/ RoundOver

LoopNext == PeerConnects \/ (\E f \in ConnFds : PeerSends(f) \/ PeerLeaves(f)) \/ LoopStep

LoopSpec == LoopInit /\ [][LoopNext]_loopVars /\ WF_loopVars(LoopStep)

-----------------------------------------------------------------------------
(* What is to be shown.                                                     *)

(* A server ends, or blocks in read() while others wait, only because a     *)
(* client reset its connection or, in poll.cpp, because the loop goes to    *)
(* i <= cur_max_fd over revents nobody has set (lines 47 and 76): with      *)
(* revents that happen to be 0 it reads only what is open and ready, though *)
(* a descriptor closed in this round is accepted again in the next.         *)
LoopDiesByResetOnly ==
  ~garbage =>
    /\ loopPc \in {"exited", "spinning"} => \E f \in ConnFds : far[f] = "reset"
    /\ loopKind # "epoll" /\ loopPc = "serve" =>
         \A p \in ToServe : fds[p] \in conns /\ Readable(fds[p])

(* select.cpp and poll.cpp send back what a client has sent, whichever      *)
(* position and descriptor it has, unless the server is gone.               *)
SentIsEchoed ==
  \A f \in ConnFds :
    (f \in unread /\ loopKind # "epoll" /\ ~garbage) ~> (f \notin unread \/ loopPc = "exited")
=============================================================================
