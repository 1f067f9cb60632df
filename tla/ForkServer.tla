----------------------------- MODULE ForkServer -----------------------------
(***************************************************************************)
(* chapter_4/tcp_server.cpp: server_multiprocess() and sigChildCatch(), a   *)
(* parent that accepts and forks one child per connection. The handler of   *)
(* SIGCHLD sleeps and polls until no child is left, and while it runs       *)
(* nothing is accepted. The parent never closes its copy of a connection.   *)
(*                                                                          *)
(* A child echoes until its client leaves or resets the connection; either  *)
(* way it ends, and only it.                                                *)
(***************************************************************************)
EXTENDS Integers, FiniteSets

CONSTANTS
  Workers,     \* names for the children there may be at a time
  FdLimit,     \* the descriptors the parent may have for connections
  QueueLimit   \* BACKLOG

ASSUME ForkServerAssumption == FdLimit \in Nat \ {0} /\ QueueLimit \in Nat \ {0}

VARIABLES
  waitingClients, \* connections that wait for accept()
  keptFds,        \* the connections the parent has accepted, and still has open
  forkServerPc,   \* "accept", "fork", "exited"
  inSigChild,     \* the parent is in sigChildCatch(), where SIGCHLD is blocked
  sigPending,     \* a SIGCHLD is pending
  worker          \* "none", "serving" or "zombie"

forkServerVars == <<waitingClients, keptFds, forkServerPc, inSigChild, sigPending, worker>>

ForkServerTypeOK ==
  /\ waitingClients \in 0..QueueLimit
  /\ keptFds \in 0..FdLimit
  /\ forkServerPc \in {"accept", "fork", "exited"}
  /\ inSigChild \in BOOLEAN /\ sigPending \in BOOLEAN
  /\ worker \in [Workers -> {"none", "serving", "zombie"}]

ForkServerInit ==
  /\ waitingClients = 0
  /\ keptFds = 0
  /\ forkServerPc = "accept"
  /\ inSigChild = FALSE /\ sigPending = FALSE
  /\ worker = [w \in Workers |-> "none"]

ClientQueues ==
  /\ waitingClients < QueueLimit
  /\ waitingClients' = waitingClients + 1
  /\ UNCHANGED <<keptFds, forkServerPc, inSigChild, sigPending, worker>>

WorkersIn(state) == {w \in Workers : worker[w] = state}

(* The child closes the connection, exits and becomes a zombie.             *)
WorkerEnds(w) ==
  /\ w \in WorkersIn("serving")
  /\ worker' = [worker EXCEPT ![w] = "zombie"]
  /\ sigPending' = TRUE
  /\ UNCHANGED <<waitingClients, keptFds, forkServerPc, inSigChild>>

(* accept() fails when no descriptor is left: exit(-1). A signal that       *)
(* interrupts it makes it fail with EINTR, and it is called again.          *)
AcceptClient ==
  /\ forkServerPc = "accept" /\ ~inSigChild /\ waitingClients > 0
  /\ \/ /\ keptFds < FdLimit
        /\ waitingClients' = waitingClients - 1
        /\ keptFds' = keptFds + 1
        /\ forkServerPc' = "fork"
     \/ /\ keptFds = FdLimit
        /\ forkServerPc' = "exited"
        /\ UNCHANGED <<waitingClients, keptFds>>
  /\ UNCHANGED <<inSigChild, sigPending, worker>>

(* fork() may fail: the connection stays open and nobody ever serves it.    *)
ForkWorker ==
  /\ forkServerPc = "fork" /\ ~inSigChild
  /\ \/ \E w \in WorkersIn("none") : worker' = [worker EXCEPT ![w] = "serving"]
     \/ UNCHANGED worker
  /\ forkServerPc' = "accept"
  /\ UNCHANGED <<waitingClients, keptFds, inSigChild, sigPending>>

EnterSigChild ==
  /\ sigPending /\ ~inSigChild /\ forkServerPc # "exited"
  /\ inSigChild' = TRUE
  /\ sigPending' = FALSE
  /\ UNCHANGED <<waitingClients, keptFds, forkServerPc, worker>>

ReapWorker ==
  /\ inSigChild
  /\ \E w \in WorkersIn("zombie") : worker' = [worker EXCEPT ![w] = "none"]
  /\ UNCHANGED <<waitingClients, keptFds, forkServerPc, inSigChild, sigPending>>

(* Mutant: the handler returns while children are still serving, but not    *)
(* when the last of them is gone: the tests of 0 and -1 are swapped.        *)
LeaveWhileServing ==
  /\ inSigChild /\ WorkersIn("zombie") = {} /\ WorkersIn("serving") # {}
  /\ inSigChild' = FALSE
  /\ UNCHANGED <<waitingClients, keptFds, forkServerPc, sigPending, worker>>

(* waitpid() returns -1: no child is left, zombie or serving. As long as it *)
(* returns 0, which means that some are serving, the handler sleeps and     *)
(* goes on.                                                                 *)
LeaveSigChild ==
  /\ inSigChild /\ WorkersIn("zombie") \cup WorkersIn("serving") = {}
  /\ inSigChild' = FALSE
  /\ UNCHANGED <<waitingClients, keptFds, forkServerPc, sigPending, worker>>

ForkServerStep == AcceptClient \/ ForkWorker \/ EnterSigChild \/ ReapWorker \/ LeaveSigChild

ForkServerNext == ClientQueues \/ (\E w \in Workers : WorkerEnds(w)) \/ ForkServerStep

ForkServerSpec ==
  /\ ForkServerInit /\ [][ForkServerNext]_forkServerVars
  /\ WF_forkServerVars(ForkServerStep)
  /\ \A w \in Workers : WF_forkServerVars(WorkerEnds(w))

-----------------------------------------------------------------------------
(* What is to be shown.                                                     *)

(* A client that waits is accepted, even if the parent is in the handler    *)
(* with other clients connected, provided that every client leaves at last: *)
(* one that stays keeps everybody else waiting. Every child that ended is   *)
(* collected. Both hold until the parent has used up its descriptors, none  *)
(* of which it gives back, and exits.                                       *)
WaitingClientAccepted ==
  /\ \A n \in 0..FdLimit - 1 :
       (waitingClients > 0 /\ keptFds = n) ~> (keptFds > n \/ forkServerPc = "exited")
  /\ \A w \in Workers : worker[w] = "zombie" ~> (worker[w] = "none" \/ forkServerPc = "exited")
=============================================================================
