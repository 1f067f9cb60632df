----------------------------- MODULE ThreadLife -----------------------------
(***************************************************************************)
(* chapter_3/thread: pthread_create.cpp ("join"), pthread_exit.cpp          *)
(* ("exit"), pthread_attr.cpp ("detached") and pthread_join.cpp ("sleep",   *)
(* whose pthread_join() is commented out): main() creates one thread and    *)
(* ends in one of four ways while the thread prints. A line of cout is in   *)
(* the buffer of stdout until endl has written it; the end of a process     *)
(* writes out what is in that buffer without waiting for another thread.    *)
(***************************************************************************)
EXTENDS Integers

CONSTANT Prints     \* how often callback() prints: 5 times, once in the last two

ASSUME LifeAssumption == Prints \in Nat \ {0}

VARIABLES
  lifeKind,    \* which program runs
  mainThread,  \* "creating", "running", "exited" by pthread_exit(), or "returned"
  printed,     \* the lines of the thread that were written
  inBuffer,    \* its lines in the buffer of stdout, 0 or 1
  doubled,     \* its lines that were written twice
  childThread  \* "none", "running", "ended" or "killed" with the process

lifeVars == <<lifeKind, mainThread, printed, inBuffer, doubled, childThread>>

LifeTypeOK ==
  /\ lifeKind \in {"join", "exit", "detached", "sleep"}
  /\ mainThread \in {"creating", "running", "exited", "returned"}
  /\ printed \in 0..Prints
  /\ inBuffer \in 0..1 /\ doubled \in 0..1
  /\ childThread \in {"none", "running", "ended", "killed"}

LifeInit ==
  /\ lifeKind \in {"join", "exit", "detached", "sleep"}
  /\ mainThread = "creating"
  /\ printed = 0
  /\ inBuffer = 0 /\ doubled = 0
  /\ childThread = "none"

CreateThread ==
  /\ mainThread = "creating"
  /\ mainThread' = "running"
  /\ childThread' = "running"
  /\ UNCHANGED <<lifeKind, printed, inBuffer, doubled>>

(* cout << ...: the line is put into the buffer.                            *)
BufferLine ==
  /\ childThread = "running" /\ printed < Prints /\ inBuffer = 0
  /\ inBuffer' = 1
  /\ UNCHANGED <<lifeKind, mainThread, printed, doubled, childThread>>

(* << endl: it is written and taken out of the buffer.                      *)
PrintLine ==
  /\ childThread = "running" /\ inBuffer = 1
  /\ printed' = printed + 1
  /\ inBuffer' = 0
  /\ UNCHANGED <<lifeKind, mainThread, doubled, childThread>>

EndThread ==
  /\ childThread = "running" /\ printed = Prints
  /\ childThread' = "ended"
  /\ UNCHANGED <<lifeKind, mainThread, printed, inBuffer, doubled>>

(* The return of main() ends the process and with it every thread. main()   *)
(* waits for the thread only where it joins it; sleep(1) promises nothing.  *)
(* A line in the buffer is lost with the thread, or written at exit, or     *)
(* written by both.                                                         *)
ReturnFromMain ==
  /\ mainThread = "running" /\ lifeKind # "exit"
  /\ lifeKind = "join" => childThread = "ended"
  /\ mainThread' = "returned"
  /\ childThread' = IF childThread = "ended" THEN "ended" ELSE "killed"
  /\ \/ UNCHANGED <<printed, doubled>>
     \/ inBuffer = 1 /\ printed' = printed + 1 /\ doubled' \in 0..1
  /\ inBuffer' = 0
  /\ UNCHANGED lifeKind

ExitMainThread ==
  /\ mainThread = "running" /\ lifeKind = "exit"
  /\ mainThread' = "exited"
  /\ UNCHANGED <<lifeKind, printed, inBuffer, doubled, childThread>>

LifeOver == mainThread \in {"exited", "returned"} /\ childThread \in {"ended", "killed"}

LifeNext ==
  \/ CreateThread \/ BufferLine \/ PrintLine \/ EndThread \/ ReturnFromMain \/ ExitMainThread

LifeSpec == LifeInit /\ [][LifeNext]_lifeVars

-----------------------------------------------------------------------------
(* What is to be shown.                                                     *)

(* The question at the end of pthread_attr.cpp, why the output of the       *)
(* thread is sometimes missing and sometimes there twice: both come only    *)
(* where main() returns without a join. A joined thread, and one whose      *)
(* creator left through pthread_exit(), prints each line exactly once.      *)
OutputOddOnlyByReturn ==
  LifeOver /\ (printed < Prints \/ doubled > 0) => lifeKind \in {"detached", "sleep"}
=============================================================================
