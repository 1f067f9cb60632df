----------------------------- MODULE ChildReaper -----------------------------
(***************************************************************************)
(* chapter_2: signal/sig_child.cpp ("handler"), process/wait.cpp            *)
(* ("waiting") and process/waitpid.cpp ("polling"): a parent forks and then *)
(* collects its children in one of three ways.                              *)
(*                                                                          *)
(* The children of the first program end by themselves; those of the other  *)
(* two loop until somebody kills them.                                      *)
(***************************************************************************)
EXTENDS Integers

CONSTANT Forks     \* the rounds of the loop around fork(): 10, 5 and 5

ASSUME ForksAssumption == Forks \in Nat \ {0}

Children == 1..Forks

VARIABLES
  reaperKind,  \* which of the three programs runs
  attempts,    \* i, the calls of fork() made
  lastFork,    \* whether pid is that of a child
  parentPc,    \* "forking", "collecting" or "gone"
  inHandler,   \* the parent is in catchSigChild(), where SIGCHLD is blocked
  sigChld,     \* a SIGCHLD is pending: of several only one is kept
  child        \* "none", "running", "zombie" or "reaped"

reaperVars == <<reaperKind, attempts, lastFork, parentPc, inHandler, sigChld, child>>

ReaperTypeOK ==
  /\ reaperKind \in {"handler", "waiting", "polling"}
  /\ attempts \in 0..Forks
  /\ lastFork \in BOOLEAN
  /\ parentPc \in {"forking", "collecting", "gone"}
  /\ inHandler \in BOOLEAN
  /\ sigChld \in BOOLEAN
  /\ child \in [Children -> {"none", "running", "zombie", "reaped"}]

ReaperInit ==
  /\ reaperKind \in {"handler", "waiting", "polling"}
  /\ attempts = 0
  /\ lastFork = FALSE
  /\ parentPc = "forking"
  /\ inHandler = FALSE
  /\ sigChld = FALSE
  /\ child = [c \in Children |-> "none"]

ChildIs(c, state) == child' = [child EXCEPT ![c] = state]

Zombies == {c \in Children : child[c] = "zombie"}
Living == {c \in Children : child[c] = "running"}

(* The process dies: at once, or when it is killed. The signal is only of   *)
(* interest while somebody handles it.                                      *)
ChildEnds(c) ==
  /\ child[c] = "running"
  /\ ChildIs(c, "zombie")
  /\ sigChld' = (reaperKind = "handler" /\ parentPc # "gone")
  /\ UNCHANGED <<reaperKind, attempts, lastFork, parentPc, inHandler>>

(* fork() may fail; the loop goes on all the same.                          *)
Fork ==
  /\ parentPc = "forking" /\ ~inHandler /\ attempts < Forks
  /\ attempts' = attempts + 1
  /\ \/ ChildIs(attempts + 1, "running") /\ lastFork' = TRUE
     \/ UNCHANGED child /\ lastFork' = FALSE
  /\ UNCHANGED <<reaperKind, parentPc, inHandler, sigChld>>

(* What pid is after the last round decides whether the parent stays.       *)
LeaveForkLoop ==
  /\ parentPc = "forking" /\ ~inHandler /\ attempts = Forks
  /\ parentPc' = IF lastFork THEN "collecting" ELSE "gone"
  /\ sigChld' = (sigChld /\ lastFork)
  /\ UNCHANGED <<reaperKind, attempts, lastFork, inHandler, child>>

-----------------------------------------------------------------------------
(* catchSigChild()                                                          *)

EnterHandler ==
  /\ sigChld /\ ~inHandler /\ parentPc # "gone"
  /\ inHandler' = TRUE
  /\ sigChld' = FALSE
  /\ UNCHANGED <<reaperKind, attempts, lastFork, parentPc, child>>

(* Mutant: one waitpid() for one signal.                                    *)
HandlerReapOne(c) ==
  /\ inHandler /\ c \in Zombies
  /\ ChildIs(c, "reaped")
  /\ inHandler' = FALSE
  /\ UNCHANGED <<reaperKind, attempts, lastFork, parentPc, sigChld>>

(* waitpid(-1, NULL, WNOHANG) > 0                                           *)
HandlerReap(c) ==
  /\ inHandler /\ c \in Zombies
  /\ ChildIs(c, "reaped")
  /\ UNCHANGED <<reaperKind, attempts, lastFork, parentPc, inHandler, sigChld>>

(* 0, nobody has ended, or -1, nobody is left.                              *)
HandlerReturn ==
  /\ inHandler /\ Zombies = {}
  /\ inHandler' = FALSE
  /\ UNCHANGED <<reaperKind, attempts, lastFork, parentPc, sigChld, child>>

-----------------------------------------------------------------------------
(* wait() and waitpid(-1, &st, WNOHANG) in the loop of main(): a poll that  *)
(* returns 0 changes nothing, a wait() blocks until there is a zombie.      *)

CollectChild(c) ==
  /\ reaperKind \in {"waiting", "polling"} /\ parentPc = "collecting"
  /\ c \in Zombies
  /\ ChildIs(c, "reaped")
  /\ UNCHANGED <<reaperKind, attempts, lastFork, parentPc, inHandler, sigChld>>

AllCollected ==
  /\ reaperKind \in {"waiting", "polling"} /\ parentPc = "collecting"
  /\ Zombies \cup Living = {}
  /\ parentPc' = "gone"
  /\ UNCHANGED <<reaperKind, attempts, lastFork, inHandler, sigChld, child>>

-----------------------------------------------------------------------------
ParentStep ==
  \/ Fork \/ LeaveForkLoop
  \/ EnterHandler \/ (\E c \in Children : HandlerReap(c)) \/ HandlerReturn
  \/ (\E c \in Children : CollectChild(c)) \/ AllCollected

ReaperNext == ParentStep \/ \E c \in Children : ChildEnds(c)

ReaperSpec == ReaperInit /\ [][ReaperNext]_reaperVars /\ WF_reaperVars(ParentStep)

-----------------------------------------------------------------------------
(* What is to be shown.                                                     *)

(* Every child that ends is collected, however many SIGCHLD merge into one  *)
(* and wherever in the fork loop or in the handler the signal arrives,      *)
(* unless the parent returns because its last fork() failed.                *)
EveryChildReaped ==
  \A c \in Children : child[c] = "zombie" ~> child[c] = "reaped" \/ (parentPc = "gone" /\ ~lastFork)
=============================================================================
