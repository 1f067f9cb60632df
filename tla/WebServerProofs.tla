--------------------------- MODULE WebServerProofs ---------------------------
(***************************************************************************)
(* Theorems about WebServer, for any descriptors, workers and limits.       *)
(***************************************************************************)
EXTENDS WebServer, FiniteSetTheorems, SequenceTheorems, TLAPS

(* Only an open descriptor is anywhere.                                     *)
OwnedAreOpen == \A fd \in Fds : Owned(fd) => fd \in open

(* An idle worker has nothing to store.                                     *)
IdleStoresNothing == \A w \in Workers : active[w] = Nothing => store[w] = Nothing

IInv == /\ TypeOK /\ OwnedAreOpen /\ IdleStoresNothing
        /\ OneOwner /\ PoolHoldsLive /\ ReplyWhenWriting

-----------------------------------------------------------------------------
(* How the operations of the pool move a connection.                        *)

LEMMA Constants ==
  /\ ListenFd \notin Fds /\ Main \notin Workers
  /\ Nothing \notin Fds /\ Nothing \notin Int /\ NULL \notin Fds
  /\ MaxRequests \in Nat /\ MaxBacklog \in Nat
BY ServerAssumption DEF ServerAssumption

(* Append adds one connection to the queue and keeps it free of duplicates. *)
LEMMA AcceptMoves ==
  ASSUME TypeOK, OneOwner, NEW fd \in Fds, ~Queued(fd), Pool!Accept(fd)
  PROVE  /\ active' = active /\ pending' \in Seq(Fds)
         /\ \A g \in Fds : Queued(g)' <=> Queued(g) \/ g = fd
         /\ \A g \in Fds : Served(g)' <=> Served(g)
         /\ \A i, j \in 1..Len(pending') : pending'[i] = pending'[j] => i = j
<1>1. /\ pending \in Seq(Fds) /\ pending' = Append(pending, fd) /\ active' = active
  BY DEF TypeOK, Pool!Accept
<1>2. /\ pending' \in Seq(Fds) /\ Len(pending') = Len(pending) + 1
      /\ \A i \in 1..Len(pending) : pending'[i] = pending[i]
      /\ pending'[Len(pending) + 1] = fd
  BY <1>1, AppendProperties
<1>3. Len(pending) \in Nat
  BY <1>1
<1>4. ASSUME NEW g \in Fds PROVE Queued(g)' <=> Queued(g) \/ g = fd
  <2>1. ASSUME Queued(g)' PROVE Queued(g) \/ g = fd
    <3>1. PICK i \in 1..Len(pending') : pending'[i] = g
      BY <2>1 DEF Queued
    <3>2. i \in 1..Len(pending) \/ i = Len(pending) + 1
      BY <1>2, <1>3
    <3> QED
      BY <3>1, <3>2, <1>2 DEF Queued
  <2>2. ASSUME Queued(g) PROVE Queued(g)'
    <3>1. PICK i \in 1..Len(pending) : pending[i] = g
      BY <2>2 DEF Queued
    <3>2. i \in 1..Len(pending')
      BY <1>2, <1>3
    <3> QED
      BY <3>1, <3>2, <1>2 DEF Queued
  <2>3. ASSUME g = fd PROVE Queued(g)'
    <3>1. Len(pending) + 1 \in 1..Len(pending')
      BY <1>2, <1>3
    <3> QED
      BY <3>1, <2>3, <1>2 DEF Queued
  <2> QED
    BY <2>1, <2>2, <2>3
<1>5. ASSUME NEW i \in 1..Len(pending'), NEW j \in 1..Len(pending'), pending'[i] = pending'[j]
      PROVE  i = j
  <2>1. /\ i \in 1..Len(pending) \/ i = Len(pending) + 1
        /\ j \in 1..Len(pending) \/ j = Len(pending) + 1
    BY <1>2, <1>3
  <2>2. \A k \in 1..Len(pending) : pending[k] # fd
    BY DEF Queued
  <2> QED
    BY <1>2, <1>5, <2>1, <2>2 DEF OneOwner
<1> QED
  BY <1>1, <1>2, <1>4, <1>5 DEF Served

(* Dispatch moves the head of the queue, which is nobody's else, to w.      *)
LEMMA DispatchMoves ==
  ASSUME TypeOK, OneOwner, NEW w \in Workers, Pool!Dispatch(w)
  PROVE  /\ active[w] = Nothing /\ pending' \in Seq(Fds)
         /\ \E fd \in Fds :
              /\ Queued(fd)
              /\ active' = [active EXCEPT ![w] = fd]
              /\ \A g \in Fds : Queued(g)' <=> Queued(g) /\ g # fd
              /\ \A g \in Fds : Served(g)' <=> Served(g) \/ g = fd
         /\ \A i, j \in 1..Len(pending') : pending'[i] = pending'[j] => i = j
<1>1. /\ pending \in Seq(Fds) /\ pending # << >> /\ pending' = Tail(pending)
      /\ active[w] = Nothing /\ active \in [Workers -> Fds \cup {Nothing}]
  BY DEF TypeOK, Pool!Dispatch
<1> DEFINE fd == Head(pending)
<1>2. /\ fd \in Fds /\ fd = pending[1] /\ Len(pending) \in Nat /\ Len(pending) > 0
      /\ pending' \in Seq(Fds) /\ Len(pending') = Len(pending) - 1
      /\ \A i \in 1..Len(pending') : pending'[i] = pending[i + 1]
  BY <1>1, HeadTailProperties
<1>3. active' = [active EXCEPT ![w] = fd]
  BY <1>2, Constants DEF Pool!Dispatch
<1>4. Queued(fd)
  <2>1. 1 \in 1..Len(pending)
    BY <1>2
  <2> QED
    BY <1>2, <2>1 DEF Queued
<1>5. ASSUME NEW g \in Fds PROVE Queued(g)' <=> Queued(g) /\ g # fd
  <2>1. ASSUME Queued(g)' PROVE Queued(g) /\ g # fd
    <3>1. PICK i \in 1..Len(pending') : pending'[i] = g
      BY <2>1 DEF Queued
    <3>2. i + 1 \in 1..Len(pending) /\ pending[i + 1] = g /\ i + 1 # 1 /\ 1 \in 1..Len(pending)
      BY <3>1, <1>2
    <3> QED
      BY <3>2, <1>2 DEF Queued, OneOwner
  <2>2. ASSUME Queued(g), g # fd PROVE Queued(g)'
    <3>1. PICK i \in 1..Len(pending) : pending[i] = g
      BY <2>2 DEF Queued
    <3>2. i - 1 \in 1..Len(pending') /\ pending'[i - 1] = pending[(i - 1) + 1] /\ (i - 1) + 1 = i
      BY <3>1, <2>2, <1>2
    <3> QED
      BY <3>1, <3>2 DEF Queued
  <2> QED
    BY <2>1, <2>2
<1>6. ASSUME NEW g \in Fds PROVE Served(g)' <=> Served(g) \/ g = fd
  BY <1>1, <1>3, Constants DEF Served
<1>7. ASSUME NEW i \in 1..Len(pending'), NEW j \in 1..Len(pending'), pending'[i] = pending'[j]
      PROVE  i = j
  <2>1. i + 1 \in 1..Len(pending) /\ j + 1 \in 1..Len(pending) /\ pending[i + 1] = pending[j + 1]
    BY <1>2, <1>7
  <2> QED
    BY <2>1 DEF OneOwner
<1> QED
  BY <1>1, <1>2, <1>3, <1>4, <1>5, <1>6, <1>7

(* Complete takes its connection from w, which alone had it.                *)
LEMMA CompleteMoves ==
  ASSUME TypeOK, OneOwner, NEW w \in Workers, NEW fd \in Fds, active[w] = fd, Pool!Complete(w)
  PROVE  /\ pending' = pending
         /\ active' = [active EXCEPT ![w] = Nothing]
         /\ \A g \in Fds : Queued(g)' <=> Queued(g)
         /\ \A g \in Fds : Served(g)' <=> Served(g) /\ g # fd
BY Constants DEF TypeOK, OneOwner, Pool!Complete, Queued, Served

-----------------------------------------------------------------------------
(* Every variable keeps its type.                                           *)

LEMMA InitInv == Init => IInv
<1> SUFFICES ASSUME Init PROVE IInv
  OBVIOUS
<1>1. TypeOK
  <2>1. /\ backlog \in 0..MaxBacklog /\ userCount \in Int
        /\ pending \in Seq(Fds) /\ active \in [Workers -> Fds \cup {Nothing}]
    BY Constants DEF Init, Pool!Init
  <2>2. store \in [Workers \cup {Main} -> Int \cup {Nothing}]
    BY DEF Init
  <2>3. batch \in [Sources -> {"none", "accept", "hup", "in", "out"}]
    BY DEF Init
  <2>4. /\ interest \in [Fds -> {"off", "in", "out"}] /\ readable \in [Fds -> BOOLEAN]
        /\ shut \in [Fds -> BOOLEAN] /\ blocked \in [Fds -> BOOLEAN]
    BY DEF Init
  <2> QED
    BY <2>1, <2>2, <2>3, <2>4 DEF Init, TypeOK
<1>2. \A fd \in Fds : ~Owned(fd)
  BY Constants DEF Init, Pool!Init, Owned, Armed, Reported, Queued, Served, Sources
<1>3. OneOwner
  BY <1>2, Constants DEF Init, Pool!Init, OneOwner, Owned
<1>4. PoolHoldsLive
  BY <1>2, Constants DEF Init, Pool!Init, PoolHoldsLive, Owned
<1>5. IdleStoresNothing /\ OwnedAreOpen
  BY <1>2 DEF Init, IdleStoresNothing, OwnedAreOpen
<1>6. ReplyWhenWriting
  <2>1. \A fd \in Fds : interest[fd] = "off" /\ batch[fd] = "none" /\ fd \notin live
    BY DEF Init, Sources
  <2> QED
    BY <2>1 DEF ReplyWhenWriting
<1> QED
  BY <1>1, <1>3, <1>4, <1>5, <1>6 DEF IInv

LEMMA CloseConnType ==
  ASSUME TypeOK, NEW t \in Workers \cup {Main}, NEW fd \in Fds, CloseConn(t, fd)
  PROVE  /\ live' \in SUBSET open /\ userCount' \in Int
         /\ store' \in [Workers \cup {Main} -> Int \cup {Nothing}]
BY DEF TypeOK, CloseConn, LoadToAdd

LEMMA StoreType ==
  ASSUME TypeOK, NEW t \in Workers \cup {Main}, Store(t)
  PROVE  /\ userCount' \in Int
         /\ store' \in [Workers \cup {Main} -> Int \cup {Nothing}]
BY DEF TypeOK, Store

LEMMA NextType == IInv /\ [Next]_vars => TypeOK'
<1> SUFFICES ASSUME IInv, [Next]_vars PROVE TypeOK'
  OBVIOUS
<1>a. TypeOK /\ OneOwner
  BY DEF IInv
<1> USE Constants DEF kernel, server, pool, Sources
<1>1. CASE ClientStep
  <2>1. CASE Connect
    <3>1. backlog' \in 0..MaxBacklog /\ edge' \in BOOLEAN
      BY <2>1, <1>a DEF Connect, TypeOK
    <3> QED
      BY <2>1, <3>1, <1>a DEF Connect, TypeOK
  <2>2. ASSUME NEW fd \in Fds, ClientSend(fd) PROVE TypeOK'
    BY <2>2, <1>a DEF ClientSend, TypeOK
  <2>3. ASSUME NEW fd \in Fds, ClientClose(fd) PROVE TypeOK'
    BY <2>3, <1>a DEF ClientClose, TypeOK
  <2>4. ASSUME NEW fd \in Fds, ClientDrain(fd) PROVE TypeOK'
    BY <2>4, <1>a DEF ClientDrain, TypeOK
  <2> QED
    BY <1>1, <2>1, <2>2, <2>3, <2>4 DEF ClientStep
<1>2. CASE EpollWait
  <2>1. /\ interest' \in [Fds -> {"off", "in", "out"}] /\ edge' \in BOOLEAN
        /\ batch' \in [Sources -> {"none", "accept", "hup", "in", "out"}]
    BY <1>2, <1>a DEF EpollWait, TypeOK, Event
  <2> QED
    BY <1>2, <2>1, <1>a DEF EpollWait, TypeOK
<1>3. CASE AcceptFails \/ AcceptBusy
  BY <1>3, <1>a DEF AcceptFails, AcceptBusy, Handles, TypeOK
<1>4. ASSUME NEW fd \in Fds, NEW r \in BOOLEAN, NEW s \in BOOLEAN, AcceptConn(fd, r, s)
      PROVE  TypeOK'
  BY <1>4, <1>a DEF AcceptConn, Handles, LoadToAdd, TypeOK
<1>5. ASSUME NEW fd \in Fds, HandleHup(fd) PROVE TypeOK'
  BY <1>5, <1>a, CloseConnType DEF HandleHup, Handles, TypeOK
<1>6. ASSUME NEW fd \in Fds, HandleRead(fd) PROVE TypeOK'
  <2>1. pending' \in Seq(Fds) /\ active' = active
    <3>1. CASE Len(pending) <= MaxRequests
      <4>1. pending \in Seq(Fds) /\ pending' = Append(pending, fd) /\ active' = active
        BY <1>6, <3>1, <1>a DEF HandleRead, Pool!Accept, TypeOK
      <4> QED
        BY <4>1, AppendProperties
    <3>2. CASE ~(Len(pending) <= MaxRequests)
      BY <1>6, <3>2, <1>a DEF HandleRead, TypeOK
    <3> QED
      BY <3>1, <3>2
  <2> QED
    BY <1>6, <2>1, <1>a DEF HandleRead, Handles, TypeOK
<1>7. ASSUME NEW fd \in Fds, HandleReadFails(fd) PROVE TypeOK'
  BY <1>7, <1>a, CloseConnType DEF HandleReadFails, Handles, TypeOK
<1>8. ASSUME NEW fd \in Fds, HandleWriteBlocks(fd) \/ HandleWriteKeeps(fd) PROVE TypeOK'
  <2>1. CASE HandleWriteBlocks(fd)
    BY <2>1, <1>a DEF HandleWriteBlocks, Arm, Handles, TypeOK
  <2>2. CASE HandleWriteKeeps(fd)
    BY <2>2, <1>a DEF HandleWriteKeeps, Arm, Handles, TypeOK
  <2> QED
    BY <1>8, <2>1, <2>2
<1>9. ASSUME NEW fd \in Fds, HandleWriteEnds(fd) \/ HandleWriteFails(fd) PROVE TypeOK'
  BY <1>9, <1>a, CloseConnType DEF HandleWriteEnds, HandleWriteFails, Arm, Handles, TypeOK
<1>10. CASE MainStore
  BY <1>10, <1>a, StoreType DEF MainStore, TypeOK
<1>11. ASSUME NEW w \in Workers, Dispatch(w) PROVE TypeOK'
  BY <1>11, <1>a, DispatchMoves DEF Dispatch, TypeOK
<1>12. ASSUME NEW w \in Workers, NEW fd \in Fds,
              ProcessIncomplete(w, fd) \/ ProcessReply(w, fd)
       PROVE  TypeOK'
  BY <1>12, <1>a DEF ProcessIncomplete, ProcessReply, Serves, Arm, Pool!Complete, TypeOK
<1>13. ASSUME NEW w \in Workers, NEW fd \in Fds, ProcessBad(w, fd) PROVE TypeOK'
  <2>1. pending' = pending /\ active' \in [Workers -> Fds \cup {Nothing}]
    BY <1>13, <1>a DEF ProcessBad, Pool!Complete, TypeOK
  <2> QED
    BY <1>13, <2>1, <1>a, CloseConnType DEF ProcessBad, TypeOK
<1>14. ASSUME NEW w \in Workers, WorkerStore(w) PROVE TypeOK'
  BY <1>14, <1>a, StoreType DEF WorkerStore, Pool!Complete, TypeOK
<1>15. CASE UNCHANGED vars
  BY <1>15, <1>a DEF vars, TypeOK
<1> QED
  BY <1>1, <1>2, <1>3, <1>4, <1>5, <1>6, <1>7, <1>8, <1>9, <1>10, <1>11, <1>12, <1>13,
     <1>14, <1>15
  DEF Next, MainStep, WorkerStep

-----------------------------------------------------------------------------
(* The invariant, taken apart into what concerns one descriptor and what    *)
(* concerns the pool as a whole.                                            *)

At(fd) ==
  /\ Armed(fd) => ~Reported(fd) /\ ~Queued(fd) /\ ~Served(fd)
  /\ Reported(fd) => ~Queued(fd) /\ ~Served(fd)
  /\ Queued(fd) => ~Served(fd)
  /\ Owned(fd) => fd \in open
  /\ Queued(fd) => fd \in live
  /\ \A w \in Workers : active[w] = fd => (fd \in live <=> store[w] = Nothing)
  /\ interest[fd] = "out" \/ batch[fd] = "out" => fd \in live /\ fd \in reply
  /\ fd \in live /\ (interest[fd] = "in" \/ batch[fd] = "in" \/ Queued(fd) \/ Served(fd)) =>
       fd \notin reply

Apart ==
  /\ \A i, j \in 1..Len(pending) : pending[i] = pending[j] => i = j
  /\ \A v, w \in Workers : active[v] = active[w] => v = w \/ active[v] = Nothing
  /\ IdleStoresNothing

LEMMA TakenApart == TypeOK => (IInv <=> Apart /\ \A fd \in Fds : At(fd))
<1> SUFFICES ASSUME TypeOK PROVE IInv <=> Apart /\ \A fd \in Fds : At(fd)
  OBVIOUS
<1>1. ASSUME IInv PROVE Apart /\ \A fd \in Fds : At(fd)
  <2>1. Apart
    BY <1>1 DEF IInv, Apart, OneOwner
  <2>2. ASSUME NEW fd \in Fds PROVE At(fd)
    BY <1>1 DEF IInv, At, OneOwner, OwnedAreOpen, PoolHoldsLive, ReplyWhenWriting
  <2> QED
    BY <2>1, <2>2
<1>2. ASSUME Apart, \A fd \in Fds : At(fd) PROVE IInv
  <2>1. OneOwner /\ IdleStoresNothing
    BY <1>2 DEF Apart, At, OneOwner
  <2>2. OwnedAreOpen /\ PoolHoldsLive
    BY <1>2 DEF At, OwnedAreOpen, PoolHoldsLive
  <2>3. ReplyWhenWriting
    BY <1>2 DEF At, ReplyWhenWriting, TypeOK
  <2> QED
    BY <2>1, <2>2, <2>3 DEF IInv
<1> QED
  BY <1>1, <1>2

(* The same under one name, which the temporal prover can prime.            *)
Assembled == Apart /\ \A fd \in Fds : At(fd)

LEMMA TakenAssembled == TypeOK => (IInv <=> Assembled)
BY TakenApart DEF Assembled

(* What a step does elsewhere is no concern of descriptor g.                *)
LEMMA Elsewhere ==
  ASSUME NEW g \in Fds, At(g),
         interest'[g] = interest[g], batch'[g] = batch[g],
         Queued(g)' <=> Queued(g), Served(g)' <=> Served(g),
         g \in live' <=> g \in live, g \in reply' <=> g \in reply, g \in open => g \in open',
         \A w \in Workers : active'[w] = g =>
                            active[w] = g /\ (store'[w] = Nothing <=> store[w] = Nothing)
  PROVE  At(g)'
BY DEF At, Armed, Reported, Owned

(* A step that leaves the pool alone leaves its part of the invariant.      *)
LEMMA SamePool ==
  ASSUME Apart, UNCHANGED pool,
         \A w \in Workers : store'[w] = store[w]
  PROVE  /\ Apart'
         /\ \A g \in Fds : (Queued(g)' <=> Queued(g)) /\ (Served(g)' <=> Served(g))
BY DEF Apart, pool, IdleStoresNothing, Queued, Served

(* Steps that concern no connection: clients, failed accepts, main()'s      *)
(* store.                                                                   *)
LEMMA NobodyMoves ==
  ASSUME IInv, UNCHANGED <<interest, live, reply, open, pool>>,
         \A g \in Fds : batch'[g] = batch[g],
         \A w \in Workers : store'[w] = store[w]
  PROVE  Apart' /\ \A g \in Fds : At(g)'
<1>1. Apart /\ \A g \in Fds : At(g)
  BY TakenApart DEF IInv
<1>2. Apart'
  BY <1>1, SamePool
<1>3. ASSUME NEW g \in Fds PROVE At(g)'
  <2>1. At(g)
    BY <1>1
  <2>2. (Queued(g)' <=> Queued(g)) /\ (Served(g)' <=> Served(g)) /\ active' = active
    BY <1>1, SamePool DEF pool
  <2> QED
    BY <2>1, <2>2, Elsewhere
<1> QED
  BY <1>2, <1>3

(* A handler of main() for descriptor fd that leaves the pool alone: it has *)
(* fd to itself, and need only leave fd itself in order.                    *)
LEMMA MainMoves ==
  ASSUME IInv, NEW fd \in Fds, batch[fd] # "none",
         Handles(fd, batch[fd]), UNCHANGED <<open, pool>>,
         \A w \in Workers : store'[w] = store[w],
         \A g \in Fds \ {fd} : /\ interest'[g] = interest[g]
                               /\ (g \in live' <=> g \in live) /\ (g \in reply' <=> g \in reply),
         interest'[fd] = "out" => fd \in live' /\ fd \in reply',
         fd \in live' /\ interest'[fd] = "in" => fd \notin reply'
  PROVE  Apart' /\ \A g \in Fds : At(g)'
<1>1. Apart /\ \A g \in Fds : At(g)
  BY TakenApart DEF IInv
<1>2. /\ Apart'
      /\ \A g \in Fds : (Queued(g)' <=> Queued(g)) /\ (Served(g)' <=> Served(g))
  BY <1>1, SamePool
<1>3. active' = active
  BY DEF pool
<1>4. batch'[fd] = "none" /\ \A g \in Fds \ {fd} : batch'[g] = batch[g]
  BY DEF Handles, IInv, TypeOK, Sources
<1>5. ASSUME NEW g \in Fds, g # fd PROVE At(g)'
  <2>1. At(g)
    BY <1>1
  <2> QED
    BY <2>1, <1>2, <1>3, <1>4, <1>5, Elsewhere
<1>6. At(fd)'
  <2>1. ~Queued(fd) /\ ~Served(fd) /\ fd \in open
    BY <1>1 DEF At, Reported, Owned
  <2>2. ~Queued(fd)' /\ ~Served(fd)' /\ ~Reported(fd)' /\ fd \in open'
    BY <2>1, <1>2, <1>4 DEF Reported
  <2>3. \A w \in Workers : active'[w] # fd
    BY <2>1, <1>3 DEF Served
  <2>4. /\ interest'[fd] = "out" \/ batch'[fd] = "out" => fd \in live' /\ fd \in reply'
        /\ fd \in live' /\ (interest'[fd] = "in" \/ batch'[fd] = "in" \/ Queued(fd)' \/ Served(fd)')
             => fd \notin reply'
    BY <2>2, <1>4
  <2> QED
    BY <2>2, <2>3, <2>4 DEF At
<1> QED
  BY <1>2, <1>5, <1>6

(* A worker that is done with descriptor fd, which it has to itself, and    *)
(* leaves it disarmed or armed in order.                                    *)
LEMMA WorkerLeaves ==
  ASSUME IInv, NEW w \in Workers, NEW fd \in Fds, active[w] = fd, Pool!Complete(w),
         UNCHANGED <<open, live, batch>>,
         store'[w] = Nothing, \A v \in Workers \ {w} : store'[v] = store[v],
         \A g \in Fds \ {fd} : interest'[g] = interest[g] /\ (g \in reply' <=> g \in reply),
         interest'[fd] = "out" => fd \in live /\ fd \in reply',
         fd \in live /\ interest'[fd] = "in" => fd \notin reply'
  PROVE  Apart' /\ \A g \in Fds : At(g)'
<1>1. TypeOK /\ OneOwner /\ Apart /\ Nothing \notin Fds /\ \A g \in Fds : At(g)
  BY TakenApart, Constants DEF IInv
<1>2. /\ pending' = pending
      /\ \A g \in Fds : Queued(g)' <=> Queued(g)
      /\ \A g \in Fds : Served(g)' <=> Served(g) /\ g # fd
      /\ \A v \in Workers : active'[v] = IF v = w THEN Nothing ELSE active[v]
  BY <1>1, CompleteMoves DEF TypeOK
<1>3. Apart'
  BY <1>1, <1>2 DEF Apart, IdleStoresNothing
<1>4. ASSUME NEW g \in Fds, g # fd PROVE At(g)'
  <2>1. At(g)
    BY <1>1
  <2>2. \A v \in Workers : active'[v] = g => active[v] = g /\ store'[v] = store[v]
    BY <1>1, <1>2
  <2> QED
    BY <2>1, <2>2, <1>2, <1>4, Elsewhere
<1>5. At(fd)'
  <2>1. Served(fd) /\ At(fd)
    BY <1>1 DEF Served
  <2>2. ~Reported(fd)' /\ ~Queued(fd)' /\ ~Served(fd)' /\ fd \in open' /\ batch'[fd] = "none"
    BY <2>1, <1>2 DEF At, Reported, Owned
  <2>3. \A v \in Workers : active'[v] # fd
    BY <2>2 DEF Served
  <2> QED
    BY <2>2, <2>3 DEF At
<1> QED
  BY <1>3, <1>4, <1>5

-----------------------------------------------------------------------------
(* Every step preserves the invariant.                                      *)

LEMMA NextApart == IInv /\ [Next]_vars => Apart' /\ \A g \in Fds : At(g)'
<1> SUFFICES ASSUME IInv, [Next]_vars PROVE Apart' /\ \A g \in Fds : At(g)'
  OBVIOUS
<1> DEFINE Goal == Apart' /\ \A g \in Fds : At(g)'
<1>a. TypeOK /\ OneOwner /\ Apart /\ \A g \in Fds : At(g)
  BY TakenApart DEF IInv
<1>b. Main \notin Workers /\ ListenFd \notin Fds /\ Nothing \notin Fds
  BY Constants
<1>c. ASSUME NEW fd, CloseConn(Main, fd)
      PROVE  \A w \in Workers : store'[w] = store[w]
  BY <1>c, <1>a, <1>b DEF CloseConn, LoadToAdd, TypeOK
<1>d. ASSUME NEW fd \in Fds, batch[fd] # "none" PROVE interest[fd] = "off" /\ At(fd)
  BY <1>d, <1>a DEF At, Armed, Reported
<1>1. CASE ClientStep
  <2>1. UNCHANGED <<interest, live, reply, open, pool, batch, store>>
    BY <1>1 DEF ClientStep, Connect, ClientSend, ClientClose, ClientDrain, server
  <2> QED
    BY <2>1, NobodyMoves
<1>2. CASE EpollWait
  <2>1. PICK S \in SUBSET Sources :
             /\ \A s \in S : Event(s) # "none"
             /\ batch' = [s \in Sources |-> IF s \in S THEN Event(s) ELSE "none"]
             /\ interest' = [fd \in Fds |-> IF fd \in S THEN "off" ELSE interest[fd]]
    BY <1>2 DEF EpollWait
  <2>2. UNCHANGED <<open, live, reply, store, pending, active>>
    BY <1>2 DEF EpollWait, pool
  <2>3. /\ Apart'
        /\ \A g \in Fds : (Queued(g)' <=> Queued(g)) /\ (Served(g)' <=> Served(g))
    BY <2>2, <1>a, SamePool DEF pool
  <2>4. ASSUME NEW g \in Fds, g \notin S PROVE At(g)'
    <3>1. batch'[g] = batch[g] /\ interest'[g] = interest[g]
      BY <1>2, <2>1, <2>4 DEF EpollWait, Sources
    <3>2. At(g)
      BY <1>a
    <3> QED
      BY <3>1, <3>2, <2>2, <2>3, Elsewhere
  <2>5. ASSUME NEW g \in Fds, g \in S PROVE At(g)'
    <3>1. /\ batch'[g] = Event(g) /\ interest'[g] = "off" /\ Event(g) # "none"
      BY <2>1, <2>5 DEF Sources
    <3>2. /\ interest[g] # "off"
          /\ Event(g) = "out" => interest[g] = "out"
          /\ Event(g) = "in" => interest[g] = "in"
      BY <3>1, <1>b DEF Event
    <3>3. At(g) /\ Armed(g)
      BY <1>a, <3>2 DEF Armed
    <3>4. ~Queued(g)' /\ ~Served(g)' /\ ~Armed(g)' /\ g \in open'
      BY <3>1, <3>3, <2>2, <2>3 DEF At, Armed, Owned
    <3>5. \A w \in Workers : active'[w] # g
      BY <3>4 DEF Served
    <3>6. /\ batch'[g] = "out" => g \in live' /\ g \in reply'
          /\ g \in live' /\ batch'[g] = "in" => g \notin reply'
      BY <3>1, <3>2, <3>3, <2>2 DEF At
    <3> QED
      BY <3>1, <3>4, <3>5, <3>6 DEF At
  <2> QED
    BY <2>3, <2>4, <2>5
<1>3. CASE AcceptFails \/ AcceptBusy
  <2>1. /\ UNCHANGED <<interest, live, reply, open, pool, store>>
        /\ \A g \in Fds : batch'[g] = batch[g]
    BY <1>3, <1>a, <1>b DEF AcceptFails, AcceptBusy, Handles, kernel, TypeOK, Sources
  <2> QED
    BY <2>1, NobodyMoves
<1>4. ASSUME NEW fd \in Fds, NEW r \in BOOLEAN, NEW s \in BOOLEAN, AcceptConn(fd, r, s)
      PROVE  Goal
  <2>1. /\ UNCHANGED <<pending, active>> /\ fd \notin open /\ open' = open \cup {fd}
        /\ live' = live \cup {fd} /\ reply' = reply \ {fd} /\ interest'[fd] = "in"
        /\ \A g \in Fds : batch'[g] = batch[g] /\ (g # fd => interest'[g] = interest[g])
        /\ \A w \in Workers : store'[w] = store[w]
    BY <1>4, <1>a, <1>b DEF AcceptConn, Handles, LoadToAdd, pool, TypeOK, Sources
  <2>2. /\ Apart'
        /\ \A g \in Fds : (Queued(g)' <=> Queued(g)) /\ (Served(g)' <=> Served(g))
    BY <2>1, <1>a, SamePool DEF pool
  <2>3. ASSUME NEW g \in Fds, g # fd PROVE At(g)'
    <3>1. At(g)
      BY <1>a
    <3> QED
      BY <3>1, <2>1, <2>2, <2>3, Elsewhere
  <2>4. At(fd)'
    <3>1. ~Reported(fd) /\ ~Queued(fd) /\ ~Served(fd)
      BY <1>a, <2>1 DEF At, Owned
    <3>2. ~Reported(fd)' /\ ~Queued(fd)' /\ ~Served(fd)' /\ batch'[fd] = "none"
      BY <3>1, <2>1, <2>2 DEF Reported
    <3>3. \A w \in Workers : active'[w] # fd
      BY <3>2 DEF Served
    <3> QED
      BY <3>2, <3>3, <2>1 DEF At
  <2> QED
    BY <2>2, <2>3, <2>4
<1>5. ASSUME NEW fd \in Fds, HandleHup(fd) PROVE Goal
  <2>1. /\ batch[fd] # "none" /\ Handles(fd, batch[fd])
        /\ UNCHANGED <<interest, reply, open, pool>> /\ live' = live \ {fd}
        /\ \A w \in Workers : store'[w] = store[w]
    BY <1>5, <1>c DEF HandleHup, Handles, kernel, CloseConn
  <2>2. interest'[fd] # "out" /\ interest'[fd] # "in"
    BY <1>5, <2>1, <1>d
  <2> QED
    BY <2>1, <2>2, MainMoves
<1>6. ASSUME NEW fd \in Fds, HandleRead(fd) PROVE Goal
  <2>1. /\ batch[fd] = "in" /\ Handles(fd, "in") /\ fd \in live
        /\ UNCHANGED <<interest, open, live, reply, userCount, store>>
    BY <1>6 DEF HandleRead, Handles
  <2>2. CASE ~(Len(pending) <= MaxRequests)
    <3>1. UNCHANGED pool
      BY <1>6, <2>2 DEF HandleRead
    <3>2. At(fd) /\ interest[fd] = "off"
      BY <1>a, <2>1 DEF At, Armed, Reported
    <3> QED
      BY <2>1, <3>1, <3>2, MainMoves
  <2>3. CASE Len(pending) <= MaxRequests
    <3>1. /\ Pool!Accept(fd) /\ At(fd)
          /\ ~Armed(fd) /\ ~Queued(fd) /\ ~Served(fd) /\ fd \in open /\ fd \notin reply
      BY <1>6, <1>a, <2>1, <2>3 DEF HandleRead, At, Reported, Owned
    <3>2. /\ active' = active
          /\ \A g \in Fds : Queued(g)' <=> Queued(g) \/ g = fd
          /\ \A g \in Fds : Served(g)' <=> Served(g)
          /\ \A i, j \in 1..Len(pending') : pending'[i] = pending'[j] => i = j
      BY <3>1, <1>a, AcceptMoves
    <3>3. batch'[fd] = "none" /\ \A g \in Fds \ {fd} : batch'[g] = batch[g]
      BY <2>1, <1>a DEF Handles, TypeOK, Sources
    <3>4. Apart'
      BY <3>2, <2>1, <1>a DEF Apart, IdleStoresNothing
    <3>5. ASSUME NEW g \in Fds, g # fd PROVE At(g)'
      <4>1. At(g)
        BY <1>a
      <4> QED
        BY <4>1, <3>5, <3>2, <3>3, <2>1, Elsewhere
    <3>6. At(fd)'
      <4>1. /\ ~Armed(fd)' /\ ~Served(fd)' /\ ~Reported(fd)' /\ fd \in open' /\ fd \in live'
            /\ fd \notin reply' /\ batch'[fd] # "out" /\ interest'[fd] # "out"
        BY <3>1, <3>2, <3>3, <2>1 DEF Armed, Reported
      <4>2. \A w \in Workers : active'[w] # fd
        BY <4>1 DEF Served
      <4> QED
        BY <4>1, <4>2 DEF At
    <3> QED
      BY <3>4, <3>5, <3>6
  <2> QED
    BY <2>2, <2>3
<1>7. ASSUME NEW fd \in Fds, HandleReadFails(fd) PROVE Goal
  <2>1. /\ batch[fd] # "none" /\ Handles(fd, batch[fd])
        /\ UNCHANGED <<interest, reply, open, pool>> /\ live' = live \ {fd}
        /\ \A w \in Workers : store'[w] = store[w]
    BY <1>7, <1>c DEF HandleReadFails, Handles, CloseConn
  <2>2. interest'[fd] # "out" /\ interest'[fd] # "in"
    BY <1>7, <2>1, <1>d DEF HandleReadFails
  <2> QED
    BY <2>1, <2>2, MainMoves
<1>8. ASSUME NEW fd \in Fds, HandleWriteBlocks(fd) PROVE Goal
  <2>1. /\ batch[fd] # "none" /\ Handles(fd, batch[fd])
        /\ interest' = [interest EXCEPT ![fd] = "out"] /\ fd \in live /\ fd \in reply
        /\ UNCHANGED <<live, reply, open, store, pool>>
    BY <1>8 DEF HandleWriteBlocks, Handles, Arm
  <2> QED
    BY <2>1, <1>a, MainMoves DEF TypeOK
<1>9. ASSUME NEW fd \in Fds, HandleWriteKeeps(fd) PROVE Goal
  <2>1. /\ batch[fd] # "none" /\ Handles(fd, batch[fd])
        /\ interest' = IF fd \in live THEN [interest EXCEPT ![fd] = "in"] ELSE interest
        /\ reply' = reply \ {fd}
        /\ UNCHANGED <<live, open, store, pool>>
    BY <1>9 DEF HandleWriteKeeps, Handles, Arm
  <2>2. /\ \A g \in Fds \ {fd} : interest'[g] = interest[g]
        /\ interest'[fd] # "out"
    BY <2>1, <1>a, <1>d DEF TypeOK
  <2> QED
    BY <2>1, <2>2, MainMoves
<1>10. ASSUME NEW fd \in Fds, HandleWriteEnds(fd) PROVE Goal
  <2>1. /\ batch[fd] # "none" /\ Handles(fd, batch[fd])
        /\ interest' = [interest EXCEPT ![fd] = "in"]
        /\ UNCHANGED <<reply, open, pool>> /\ live' = live \ {fd}
        /\ \A w \in Workers : store'[w] = store[w]
    BY <1>10, <1>c DEF HandleWriteEnds, Handles, Arm, CloseConn
  <2>2. interest'[fd] = "in" /\ \A g \in Fds \ {fd} : interest'[g] = interest[g]
    BY <2>1, <1>a DEF TypeOK
  <2> QED
    BY <2>1, <2>2, MainMoves
<1>11. ASSUME NEW fd \in Fds, HandleWriteFails(fd) PROVE Goal
  <2>1. /\ batch[fd] # "none" /\ Handles(fd, batch[fd])
        /\ UNCHANGED <<interest, reply, open, pool>> /\ live' = live \ {fd}
        /\ \A w \in Workers : store'[w] = store[w]
    BY <1>11, <1>c DEF HandleWriteFails, Handles, kernel, CloseConn
  <2>2. interest'[fd] # "out" /\ interest'[fd] # "in"
    BY <1>11, <2>1, <1>d
  <2> QED
    BY <2>1, <2>2, MainMoves
<1>12. CASE MainStore
  <2>1. /\ UNCHANGED <<interest, live, reply, open, pool, batch>>
        /\ \A w \in Workers : store'[w] = store[w]
    BY <1>12, <1>a, <1>b DEF MainStore, Store, kernel, TypeOK
  <2> QED
    BY <2>1, NobodyMoves
<1>13. ASSUME NEW w \in Workers, Dispatch(w) PROVE Goal
  <2>1. /\ UNCHANGED <<interest, live, reply, open, batch, store>> /\ Pool!Dispatch(w)
    BY <1>13 DEF Dispatch, kernel, server
  <2>2. PICK fd \in Fds :
              /\ Queued(fd) /\ active' = [active EXCEPT ![w] = fd]
              /\ \A g \in Fds : Queued(g)' <=> Queued(g) /\ g # fd
              /\ \A g \in Fds : Served(g)' <=> Served(g) \/ g = fd
    BY <2>1, <1>a, DispatchMoves
  <2>3. /\ active[w] = Nothing
        /\ \A i, j \in 1..Len(pending') : pending'[i] = pending'[j] => i = j
    BY <2>1, <1>a, DispatchMoves
  <2>4. \A v \in Workers : active'[v] = IF v = w THEN fd ELSE active[v]
    BY <2>2, <1>a DEF TypeOK
  <2>5. /\ At(fd) /\ fd \in live /\ ~Served(fd) /\ ~Armed(fd) /\ ~Reported(fd) /\ fd \in open
        /\ fd \notin reply
    BY <1>a, <2>2 DEF At, Owned
  <2>6. \A v \in Workers : active[v] # fd
    BY <2>5 DEF Served
  <2>7. Apart'
    BY <2>3, <2>4, <2>6, <2>1, <1>a, <1>b DEF Apart, IdleStoresNothing
  <2>8. ASSUME NEW g \in Fds, g # fd PROVE At(g)'
    <3>1. At(g)
      BY <1>a
    <3> QED
      BY <3>1, <2>8, <2>1, <2>2, <2>4, Elsewhere
  <2>9. At(fd)'
    <3>1. /\ ~Armed(fd)' /\ ~Reported(fd)' /\ ~Queued(fd)' /\ fd \in open' /\ fd \in live'
          /\ fd \notin reply' /\ batch'[fd] = "none" /\ interest'[fd] = "off"
      BY <2>5, <2>1, <2>2 DEF Armed, Reported
    <3>2. \A v \in Workers : active'[v] = fd => store'[v] = Nothing
      BY <2>4, <2>6, <2>3, <2>1, <1>a DEF Apart, IdleStoresNothing
    <3> QED
      BY <3>1, <3>2 DEF At
  <2> QED
    BY <2>7, <2>8, <2>9
<1>14. ASSUME NEW w \in Workers, NEW fd \in Fds, ProcessIncomplete(w, fd) PROVE Goal
  <2>1. /\ active[w] = fd /\ store[w] = Nothing /\ Pool!Complete(w)
        /\ UNCHANGED <<open, live, batch, store, reply>>
    BY <1>14 DEF ProcessIncomplete, Serves, server
  <2>2. fd \in live /\ Served(fd) /\ fd \notin reply
    BY <2>1, <1>a DEF At, Served
  <2>3. interest' = [interest EXCEPT ![fd] = "in"]
    BY <1>14, <2>2 DEF ProcessIncomplete, Arm
  <2> QED
    BY <2>1, <2>2, <2>3, <1>a, WorkerLeaves DEF TypeOK
<1>15. ASSUME NEW w \in Workers, NEW fd \in Fds, ProcessReply(w, fd) PROVE Goal
  <2>1. /\ active[w] = fd /\ store[w] = Nothing /\ Pool!Complete(w)
        /\ reply' = reply \cup {fd}
        /\ UNCHANGED <<open, live, batch, store>>
    BY <1>15 DEF ProcessReply, Serves
  <2>2. fd \in live
    BY <2>1, <1>a DEF At
  <2>3. interest' = [interest EXCEPT ![fd] = "out"]
    BY <1>15, <2>2 DEF ProcessReply, Arm
  <2> QED
    BY <2>1, <2>2, <2>3, <1>a, WorkerLeaves DEF TypeOK
<1>16. ASSUME NEW w \in Workers, NEW fd \in Fds, ProcessBad(w, fd) PROVE Goal
  <2>1. active[w] = fd /\ store[w] = Nothing /\ CloseConn(w, fd)
    BY <1>16 DEF ProcessBad, Serves
  <2>2. fd \in live /\ Served(fd) /\ At(fd)
    BY <2>1, <1>a DEF At, Served
  <2>3. /\ UNCHANGED <<interest, batch, open, pool>>
        /\ live' = live \ {fd} /\ reply' = reply \cup {fd}
    BY <1>16, <2>2 DEF ProcessBad, CloseConn, kernel
  <2>4. \A v \in Workers : store'[v] = IF v = w THEN userCount - 1 ELSE store[v]
    BY <2>1, <2>2, <1>a DEF CloseConn, LoadToAdd, TypeOK
  <2>5. store'[w] # Nothing
    BY <2>4, <1>a, Constants DEF TypeOK
  <2>6. \A v \in Workers : active[v] = fd => v = w
    BY <2>1, <1>a, <1>b DEF Apart
  <2>7. Apart'
    BY <2>1, <2>3, <2>4, <1>a, <1>b DEF Apart, IdleStoresNothing, pool
  <2>8. /\ active' = active
        /\ \A g \in Fds : (Queued(g)' <=> Queued(g)) /\ (Served(g)' <=> Served(g))
    BY <2>3 DEF pool, Queued, Served
  <2>9. ASSUME NEW g \in Fds, g # fd PROVE At(g)'
    <3>1. At(g)
      BY <1>a
    <3>2. \A v \in Workers : active'[v] = g => active[v] = g /\ store'[v] = store[v]
      BY <2>1, <2>4, <2>8, <2>9
    <3> QED
      BY <3>1, <3>2, <2>3, <2>8, <2>9, Elsewhere
  <2>10. At(fd)'
    <3>1. /\ ~Armed(fd)' /\ ~Reported(fd)' /\ ~Queued(fd)' /\ fd \in open' /\ fd \notin live'
      BY <2>2, <2>3, <2>8 DEF At, Armed, Reported, Owned
    <3>2. \A v \in Workers : active'[v] = fd => store'[v] # Nothing
      BY <2>5, <2>6, <2>8
    <3>3. interest'[fd] # "out" /\ batch'[fd] # "out"
      BY <3>1 DEF Armed, Reported
    <3> QED
      BY <3>1, <3>2, <3>3 DEF At
  <2> QED
    BY <2>7, <2>9, <2>10
<1>17. ASSUME NEW w \in Workers, WorkerStore(w) PROVE Goal
  <2>1. /\ store[w] # Nothing /\ Pool!Complete(w)
        /\ UNCHANGED <<interest, reply, open, live, batch>>
        /\ \A v \in Workers : store'[v] = IF v = w THEN Nothing ELSE store[v]
    BY <1>17, <1>a DEF WorkerStore, Store, kernel, TypeOK
  <2>2. PICK fd \in Fds : active[w] = fd
    BY <2>1, <1>a DEF Apart, IdleStoresNothing, TypeOK
  <2>3. fd \notin live /\ interest'[fd] # "out"
    BY <2>1, <2>2, <1>a DEF At
  <2> QED
    BY <2>1, <2>2, <2>3, WorkerLeaves
<1>18. CASE UNCHANGED vars
  <2>1. UNCHANGED <<interest, live, reply, open, pool, batch, store>>
    BY <1>18 DEF vars, kernel, server
  <2> QED
    BY <2>1, NobodyMoves
<1> QED
  BY <1>1, <1>2, <1>3, <1>4, <1>5, <1>6, <1>7, <1>8, <1>9, <1>10, <1>11, <1>12, <1>13,
     <1>14, <1>15, <1>16, <1>17, <1>18
  DEF Next, MainStep, WorkerStep

-----------------------------------------------------------------------------
(* The invariant holds in every reachable state of the server.              *)
THEOREM Invariance == Spec => []IInv
<1>1. IInv /\ [Next]_vars => IInv'
  <2> SUFFICES ASSUME IInv, [Next]_vars PROVE IInv'
    OBVIOUS
  <2>1. TypeOK' /\ Apart' /\ \A g \in Fds : At(g)'
    BY NextType, NextApart
  <2>2. Assembled'
    BY <2>1 DEF Assembled
  <2>3. TypeOK' => (IInv' <=> Assembled')
    BY TakenAssembled, PTL
  <2> QED
    BY <2>1, <2>2, <2>3
<1> QED
  BY InitInv, <1>1, PTL DEF Spec

(* Every variable keeps its type.                                           *)
THEOREM TypeCorrect == Spec => []TypeOK
<1>1. IInv => TypeOK
  BY DEF IInv
<1> QED
  BY <1>1, Invariance, PTL

(* No two threads ever hold the same connection object, and none holds it   *)
(* while epoll may report it.                                               *)
THEOREM Ownership == Spec => []OneOwner
<1>1. IInv => OneOwner
  BY DEF IInv
<1> QED
  BY <1>1, Invariance, PTL

(* process() never runs on a connection that somebody else has closed.      *)
THEOREM NoStaleConnection == Spec => []PoolHoldsLive
<1>1. IInv => PoolHoldsLive
  BY DEF IInv
<1> QED
  BY <1>1, Invariance, PTL

(* write() is called with a reply to send, read() and process() without.    *)
THEOREM ReplyOrder == Spec => []ReplyWhenWriting
<1>1. IInv => ReplyWhenWriting
  BY DEF IInv
<1> QED
  BY <1>1, Invariance, PTL

-----------------------------------------------------------------------------
(* Who forgets a connection.                                                *)

(* A descriptor that a step does not move keeps its owner.                  *)
LEMMA OwnerStays ==
  ASSUME NEW fd \in Fds, interest'[fd] = interest[fd], batch'[fd] = batch[fd],
         Queued(fd)' <=> Queued(fd), Served(fd)' <=> Served(fd), Owned(fd)
  PROVE  Owned(fd)'
BY DEF Owned, Armed, Reported

(* main() reads from connection fd and the queue refuses it.                *)
Refused(fd) == HandleRead(fd) /\ Len(pending) > MaxRequests

(* Only the connection that is being read, by a step that finds the queue   *)
(* full, loses its owner and stays live.                                    *)
LEMMA OwnerKept ==
  IInv /\ [Next]_vars =>
    \A fd \in live : fd \in live' /\ Owned(fd) => Owned(fd)' \/ Refused(fd)
<1> SUFFICES ASSUME IInv, [Next]_vars, NEW fd \in live, fd \in live', Owned(fd)
             PROVE  Owned(fd)' \/ Refused(fd)
  OBVIOUS
<1>a. /\ TypeOK /\ OneOwner /\ PoolHoldsLive /\ fd \in Fds
      /\ ListenFd \notin Fds /\ Nothing \notin Fds /\ MaxRequests \in Nat
  BY Constants DEF IInv, TypeOK
<1>b. ASSUME UNCHANGED pool
      PROVE  (Queued(fd)' <=> Queued(fd)) /\ (Served(fd)' <=> Served(fd))
  BY <1>b DEF pool, Queued, Served
<1>c. ASSUME NEW g \in Fds, Handles(g, batch[g]), g # fd PROVE batch'[fd] = batch[fd]
  BY <1>c, <1>a DEF Handles, TypeOK, Sources
<1>1. CASE ClientStep \/ MainStore \/ UNCHANGED vars
  <2>1. UNCHANGED <<interest, batch, pool>>
    BY <1>1 DEF ClientStep, Connect, ClientSend, ClientClose, ClientDrain, MainStore, vars,
       kernel, server
  <2> QED
    BY <2>1, <1>a, <1>b, OwnerStays
<1>2. CASE EpollWait
  <2>1. PICK S \in SUBSET Sources :
             /\ \A s \in S : Event(s) # "none"
             /\ batch' = [s \in Sources |-> IF s \in S THEN Event(s) ELSE "none"]
             /\ interest' = [g \in Fds |-> IF g \in S THEN "off" ELSE interest[g]]
    BY <1>2 DEF EpollWait
  <2>2. UNCHANGED pool /\ \A s \in Sources : batch[s] = "none"
    BY <1>2 DEF EpollWait
  <2>3. CASE fd \in S
    BY <2>1, <2>3, <1>a DEF Owned, Reported, Sources
  <2>4. CASE fd \notin S
    BY <2>1, <2>2, <2>4, <1>a, <1>b, OwnerStays DEF Sources
  <2> QED
    BY <2>3, <2>4
<1>3. CASE AcceptFails \/ AcceptBusy
  <2>1. UNCHANGED <<interest, pool>> /\ batch'[fd] = batch[fd]
    BY <1>3, <1>a DEF AcceptFails, AcceptBusy, Handles, kernel, TypeOK, Sources
  <2> QED
    BY <2>1, <1>a, <1>b, OwnerStays
<1>4. ASSUME NEW g \in Fds, NEW r \in BOOLEAN, NEW s \in BOOLEAN, AcceptConn(g, r, s)
      PROVE  Owned(fd)'
  <2>1. UNCHANGED pool /\ batch'[fd] = batch[fd] /\ interest' = [interest EXCEPT ![g] = "in"]
    BY <1>4, <1>a DEF AcceptConn, Handles, TypeOK, Sources
  <2>2. CASE g = fd
    BY <2>1, <2>2, <1>a DEF Owned, Armed, TypeOK
  <2>3. CASE g # fd
    BY <2>1, <2>3, <1>a, <1>b, OwnerStays DEF TypeOK
  <2> QED
    BY <2>2, <2>3
<1>5. ASSUME NEW g \in Fds, HandleHup(g) \/ HandleReadFails(g) \/ HandleWriteFails(g)
      PROVE  Owned(fd)'
  <2>1. g # fd /\ Handles(g, batch[g]) /\ UNCHANGED <<interest, pool>>
    BY <1>5 DEF HandleHup, HandleReadFails, HandleWriteFails, CloseConn, Handles, kernel
  <2> QED
    BY <2>1, <1>a, <1>b, <1>c, OwnerStays
<1>6. ASSUME NEW g \in Fds, HandleRead(g)
      PROVE  Owned(fd)' \/ Refused(fd)
  <2>1. Handles(g, batch[g]) /\ interest' = interest /\ Reported(g)
    BY <1>6 DEF HandleRead, Handles, Reported
  <2>2. CASE ~(Len(pending) <= MaxRequests)
    <3>1. UNCHANGED pool
      BY <1>6, <2>2 DEF HandleRead
    <3>2. CASE g = fd
      BY <1>6, <2>2, <3>2, <1>a DEF TypeOK, Refused
    <3>3. CASE g # fd
      BY <2>1, <3>1, <3>3, <1>a, <1>b, <1>c, OwnerStays
    <3> QED
      BY <3>2, <3>3
  <2>3. CASE Len(pending) <= MaxRequests
    <3>1. Pool!Accept(g) /\ ~Queued(g)
      BY <1>6, <2>1, <2>3, <1>a DEF HandleRead, OneOwner
    <3>2. /\ Queued(fd)' <=> Queued(fd) \/ fd = g
          /\ Served(fd)' <=> Served(fd)
      BY <3>1, <1>a, AcceptMoves
    <3>3. CASE g = fd
      BY <3>2, <3>3 DEF Owned
    <3>4. CASE g # fd
      BY <2>1, <3>2, <3>4, <1>a, <1>c, OwnerStays
    <3> QED
      BY <3>3, <3>4
  <2> QED
    BY <2>2, <2>3
<1>7. ASSUME NEW g \in Fds, HandleWriteBlocks(g) \/ HandleWriteKeeps(g) \/ HandleWriteEnds(g)
      PROVE  Owned(fd)'
  <2>1. PICK ev \in {"in", "out"} : Arm(g, ev) /\ Handles(g, batch[g]) /\ UNCHANGED pool
    BY <1>7 DEF HandleWriteBlocks, HandleWriteKeeps, HandleWriteEnds, Handles
  <2>2. CASE g = fd
    BY <2>1, <2>2, <1>a DEF Owned, Armed, Arm, TypeOK
  <2>3. CASE g # fd
    <3>1. interest'[fd] = interest[fd]
      BY <2>1, <2>3, <1>a DEF Arm, TypeOK
    <3> QED
      BY <2>1, <2>3, <3>1, <1>a, <1>b, <1>c, OwnerStays
  <2> QED
    BY <2>2, <2>3
<1>8. ASSUME NEW w \in Workers, Dispatch(w) PROVE Owned(fd)'
  <2>1. Pool!Dispatch(w) /\ UNCHANGED <<interest, batch>>
    BY <1>8 DEF Dispatch, kernel, server
  <2>2. PICK g \in Fds : /\ Queued(fd)' <=> Queued(fd) /\ fd # g
                         /\ Served(fd)' <=> Served(fd) \/ fd = g
    BY <2>1, <1>a, DispatchMoves
  <2> QED
    BY <2>1, <2>2 DEF Owned, Armed, Reported
<1>9. ASSUME NEW w \in Workers, NEW g \in Fds, ProcessIncomplete(w, g) \/ ProcessReply(w, g)
      PROVE  Owned(fd)'
  <2>1. PICK ev \in {"in", "out"} :
          Arm(g, ev) /\ Pool!Complete(w) /\ active[w] = g /\ batch' = batch
    BY <1>9 DEF ProcessIncomplete, ProcessReply, Serves, server
  <2>2. CASE g = fd
    BY <2>1, <2>2, <1>a DEF Owned, Armed, Arm, TypeOK
  <2>3. CASE g # fd
    <3>1. interest'[fd] = interest[fd]
      BY <2>1, <2>3, <1>a DEF Arm, TypeOK
    <3>2. (Queued(fd)' <=> Queued(fd)) /\ (Served(fd)' <=> Served(fd))
      BY <2>1, <2>3, <1>a, CompleteMoves
    <3> QED
      BY <2>1, <3>1, <3>2, <1>a, OwnerStays
  <2> QED
    BY <2>2, <2>3
<1>10. ASSUME NEW w \in Workers, NEW g \in Fds, ProcessBad(w, g) PROVE Owned(fd)'
  <2>1. g \in live
    BY <1>10, <1>a DEF ProcessBad, Serves, PoolHoldsLive
  <2>2. UNCHANGED <<interest, batch, pool>>
    BY <1>10, <2>1 DEF ProcessBad, kernel
  <2> QED
    BY <2>2, <1>a, <1>b, OwnerStays
<1>11. ASSUME NEW w \in Workers, WorkerStore(w) PROVE Owned(fd)'
  <2>1. Pool!Complete(w) /\ UNCHANGED <<interest, batch>> /\ store[w] # Nothing
    BY <1>11 DEF WorkerStore, Store, kernel
  <2>2. PICK g \in Fds : active[w] = g
    BY <2>1, <1>a DEF IInv, IdleStoresNothing, TypeOK
  <2>3. g # fd
    BY <2>1, <2>2, <1>a DEF PoolHoldsLive
  <2>4. (Queued(fd)' <=> Queued(fd)) /\ (Served(fd)' <=> Served(fd))
    BY <2>1, <2>2, <2>3, <1>a, CompleteMoves
  <2> QED
    BY <2>1, <2>4, <1>a, OwnerStays
<1> QED
  BY <1>1, <1>2, <1>3, <1>4, <1>5, <1>6, <1>7, <1>8, <1>9, <1>10, <1>11
  DEF Next, MainStep, WorkerStep

(* Nothing but a full queue makes the server forget a live connection.      *)
THEOREM OnlyFullQueueForgets == Spec => LosesOwnerOnlyWhenQueueFull
<1> DEFINE Kept == \A fd \in live : fd \in live' /\ Owned(fd) =>
                                      Owned(fd)' \/ Len(pending) > MaxRequests
<1>1. IInv /\ [Next]_vars => [Kept]_vars
  BY OwnerKept DEF Refused
<1> QED
  BY <1>1, Invariance, PTL DEF Spec, LosesOwnerOnlyWhenQueueFull

(* Nobody is forgotten before the first request that the queue refuses: at  *)
(* the start every live connection has an owner, and so it stays, old       *)
(* connections and new ones, through every step but a refused append().     *)
THEOREM NobodyForgotten ==
  Spec => /\ EveryLiveConnOwned
          /\ [][EveryLiveConnOwned => EveryLiveConnOwned' \/ \E fd \in live : Refused(fd)]_vars
<1> DEFINE Stays == EveryLiveConnOwned => EveryLiveConnOwned' \/ \E fd \in live : Refused(fd)
<1>1. Init => EveryLiveConnOwned
  BY DEF Init, EveryLiveConnOwned
<1>2. IInv /\ [Next]_vars => [Stays]_vars
  <2> SUFFICES ASSUME IInv, EveryLiveConnOwned, [Next]_vars,
                      \A fd \in live : ~Refused(fd), NEW fd \in live'
               PROVE  Owned(fd)'
    BY DEF EveryLiveConnOwned
  <2>1. CASE fd \in live
    BY <2>1, OwnerKept DEF EveryLiveConnOwned
  <2>2. CASE fd \notin live
    <3>1. PICK g \in Fds, r \in BOOLEAN, s \in BOOLEAN : AcceptConn(g, r, s)
      <4>1. CASE ClientStep
        BY <4>1, <2>2 DEF ClientStep, Connect, ClientSend, ClientClose, ClientDrain, server
      <4>2. CASE MainStep
        BY <4>2, <2>2 DEF MainStep, EpollWait, AcceptFails, AcceptBusy, MainStore, HandleHup,
           HandleRead, HandleReadFails, HandleWriteBlocks, HandleWriteKeeps, HandleWriteEnds,
           HandleWriteFails, CloseConn
      <4>3. ASSUME NEW w \in Workers, WorkerStep(w) PROVE FALSE
        BY <4>3, <2>2 DEF WorkerStep, Dispatch, WorkerStore, ProcessIncomplete, ProcessReply,
           ProcessBad, CloseConn, server
      <4>4. CASE UNCHANGED vars
        BY <4>4, <2>2 DEF vars, server
      <4> QED
        BY <4>1, <4>2, <4>3, <4>4 DEF Next
    <3>2. fd = g /\ g \in Fds /\ interest' = [interest EXCEPT ![g] = "in"] /\ TypeOK
      BY <3>1, <2>2 DEF AcceptConn, IInv
    <3> QED
      BY <3>2 DEF Owned, Armed, TypeOK
  <2> QED
    BY <2>1, <2>2
<1> QED
  BY <1>1, <1>2, Invariance, PTL DEF Spec

-----------------------------------------------------------------------------
(* The count of users, as long as no two updates of it overlap.             *)

Threads == Workers \cup {Main}

(* What a thread is about to store, or the last one has stored, is the      *)
(* number there is.                                                         *)
Counts ==
  /\ (\A t \in Threads : store[t] = Nothing) => userCount = Cardinality(live)
  /\ \A t \in Threads : store[t] # Nothing => store[t] = Cardinality(live)

LEMMA LiveFinite == TypeOK => IsFiniteSet(live) /\ Cardinality(live) \in Nat
<1> SUFFICES ASSUME TypeOK PROVE IsFiniteSet(live) /\ Cardinality(live) \in Nat
  OBVIOUS
<1>1. live \in SUBSET Fds /\ IsFiniteSet(Fds)
  BY ServerAssumption DEF TypeOK, ServerAssumption
<1> QED
  BY <1>1, FS_Subset, FS_CardinalityType

(* Whoever loads the count while nobody is about to store, and changes the  *)
(* set of live connections by as much, keeps the invariant.                 *)
LEMMA LoadCounts ==
  ASSUME TypeOK, Counts, UpdatesApart', NEW t \in Threads, store[t] = Nothing,
         NEW n \in Int, LoadToAdd(t, n), live' \in SUBSET Fds,
         Cardinality(live') = Cardinality(live) + n, userCount' = userCount
  PROVE  Counts'
<1>1. Cardinality(live) \in Int /\ userCount \in Int
  BY LiveFinite DEF TypeOK
<1>2. \A u \in Threads : store'[u] = IF u = t THEN userCount + n ELSE store[u]
  BY DEF LoadToAdd, TypeOK, Threads
<1>3. store'[t] # Nothing
  BY <1>1, <1>2, Constants
<1>4. \A u \in Threads : u # t => store'[u] = Nothing
  BY <1>3 DEF UpdatesApart, Threads
<1>5. \A u \in Threads : store[u] = Nothing
  BY <1>2, <1>4
<1>6. store'[t] = Cardinality(live')
  BY <1>2, <1>5 DEF Counts
<1> QED
  BY <1>3, <1>4, <1>6 DEF Counts

(* close_conn() counts one less just where there is one less.               *)
LEMMA CloseCounts ==
  ASSUME TypeOK, Counts, UpdatesApart', NEW t \in Threads, store[t] = Nothing,
         NEW fd \in Fds, CloseConn(t, fd)
  PROVE  Counts'
<1>1. live' = live \ {fd} /\ userCount' = userCount /\ live' \in SUBSET Fds
  BY DEF CloseConn, TypeOK
<1>2. CASE fd \in live
  <2>1. Cardinality(live') = Cardinality(live) - 1
    BY <1>1, <1>2, LiveFinite, FS_RemoveElement
  <2>2. Cardinality(live') = Cardinality(live) + (-1)
    BY <2>1, LiveFinite
  <2>3. LoadToAdd(t, -1)
    BY <1>2 DEF CloseConn
  <2> QED
    BY <1>1, <2>2, <2>3, LoadCounts
<1>3. CASE fd \notin live
  <2>1. live' = live /\ store' = store
    BY <1>1, <1>3 DEF CloseConn
  <2> QED
    BY <1>1, <2>1 DEF Counts
<1> QED
  BY <1>2, <1>3

(* The one that stores is the only one, and stores the number there is.     *)
LEMMA StoreCounts ==
  ASSUME TypeOK, Counts, UpdatesApart, NEW t \in Threads, Store(t), live' = live
  PROVE  Counts'
<1>1. store[t] # Nothing /\ userCount' = store[t]
  BY DEF Store
<1>2. \A u \in Threads : store'[u] = Nothing
  BY <1>1 DEF Store, UpdatesApart, Threads, TypeOK
<1>3. userCount' = Cardinality(live')
  BY <1>1 DEF Counts
<1> QED
  BY <1>2, <1>3 DEF Counts

LEMMA CountKept ==
  ASSUME TypeOK, UpdatesApart, UpdatesApart', Counts, [Next]_vars
  PROVE  Counts'
<1> USE DEF Threads
<1>a. ASSUME UNCHANGED <<userCount, store, live>> PROVE Counts'
  BY <1>a DEF Counts
<1>1. CASE ClientStep \/ UNCHANGED vars
  BY <1>1, <1>a
  DEF ClientStep, Connect, ClientSend, ClientClose, ClientDrain, vars, server
<1>2. CASE EpollWait \/ AcceptFails \/ AcceptBusy
  BY <1>2, <1>a DEF EpollWait, AcceptFails, AcceptBusy
<1>3. CASE MainStore
  BY <1>3, StoreCounts DEF MainStore
<1>4. ASSUME NEW fd \in Fds, NEW r \in BOOLEAN, NEW s \in BOOLEAN, AcceptConn(fd, r, s)
      PROVE  Counts'
  <2>1. /\ live' = live \cup {fd} /\ fd \notin live /\ live' \in SUBSET Fds
        /\ LoadToAdd(Main, 1) /\ userCount' = userCount /\ store[Main] = Nothing
    BY <1>4 DEF AcceptConn, TypeOK, Handles, MainFree
  <2>2. Cardinality(live') = Cardinality(live) + 1
    BY <2>1, LiveFinite, FS_AddElement
  <2> QED
    BY <2>1, <2>2, LoadCounts
<1>5. ASSUME NEW fd \in Fds,
             \/ HandleHup(fd) \/ HandleReadFails(fd)
             \/ HandleWriteEnds(fd) \/ HandleWriteFails(fd)
      PROVE  Counts'
  <2>1. store[Main] = Nothing /\ CloseConn(Main, fd)
    BY <1>5 DEF HandleHup, HandleReadFails, HandleWriteEnds, HandleWriteFails, Handles, MainFree
  <2> QED
    BY <2>1, CloseCounts
<1>6. ASSUME NEW fd \in Fds, HandleRead(fd) \/ HandleWriteBlocks(fd) \/ HandleWriteKeeps(fd)
      PROVE  Counts'
  BY <1>6, <1>a DEF HandleRead, HandleWriteBlocks, HandleWriteKeeps
<1>7. ASSUME NEW w \in Workers, NEW fd \in Fds, ProcessBad(w, fd)
      PROVE  Counts'
  <2>1. store[w] = Nothing /\ CloseConn(w, fd)
    BY <1>7 DEF ProcessBad, Serves
  <2> QED
    BY <2>1, CloseCounts
<1>8. ASSUME NEW w \in Workers, WorkerStore(w)
      PROVE  Counts'
  BY <1>8, StoreCounts DEF WorkerStore
<1>9. ASSUME NEW w \in Workers, NEW fd \in Fds,
             ProcessIncomplete(w, fd) \/ ProcessReply(w, fd)
      PROVE  Counts'
  BY <1>9, <1>a DEF ProcessIncomplete, ProcessReply, server
<1>10. ASSUME NEW w \in Workers, Dispatch(w) PROVE Counts'
  BY <1>10, <1>a DEF Dispatch, server
<1> QED
  BY <1>1, <1>2, <1>3, <1>4, <1>5, <1>6, <1>7, <1>8, <1>9, <1>10
  DEF Next, MainStep, WorkerStep

(* m_user_count is right whenever no thread is about to store it, unless    *)
(* two updates of it have overlapped: with requests that come to nothing    *)
(* and are closed by a worker, closes of closed objects and refused         *)
(* connections, the race of line 63 with lines 63 and 77 is the one way for *)
(* it to go wrong. (The run server_count_race shows that race.)             *)
THEOREM CountIsExact == Spec => CountDriftsByRaceOnly
<1>1. Init => Counts
  <2> SUFFICES ASSUME Init PROVE Counts
    OBVIOUS
  <2>1. userCount = 0 /\ live = {} /\ \A t \in Threads : store[t] = Nothing
    BY DEF Init, Threads
  <2>2. Cardinality({}) = 0
    BY FS_EmptySet
  <2> QED
    BY <2>1, <2>2 DEF Counts
<1>2. TypeOK /\ UpdatesApart /\ UpdatesApart' /\ Counts /\ [Next]_vars => Counts'
  BY CountKept
<1>3. Counts => UserCountExact
  BY DEF Counts, UserCountExact, Threads
<1> QED
  BY <1>1, <1>2, <1>3, TypeCorrect, PTL DEF Spec, CountDriftsByRaceOnly
=============================================================================
