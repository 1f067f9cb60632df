------------------------------ MODULE DraftPool ------------------------------
(***************************************************************************)
(* chapter_5/threadpool.h with locker.h, the draft of the web server's      *)
(* pool. It differs in run(), which does not unlock the queue after it has  *)
(* taken a request, and in m_stop, which nobody initialises.                *)
(*                                                                          *)
(* Requests are counted; process() does not touch the pool. What is done    *)
(* between lock() and unlock() is one step.                                 *)
(***************************************************************************)
EXTENDS Integers

CONSTANTS
  Appenders,         \* the threads that call append()
  DraftWorkers,      \* m_threads
  DraftMaxRequests,  \* m_max_requsts
  MaxPosts           \* bound: how far m_queuestat counts

ASSUME DraftAssumption == DraftMaxRequests \in Nat \ {0} /\ MaxPosts \in Nat

VARIABLES
  workqueue,     \* how many requests are in m_workqueue
  queuestat,     \* the value of m_queuestat
  queueLocked,   \* somebody holds m_queuelocker between two of the steps below
  draftStop,     \* m_stop, as the memory happened to be
  appendPc,      \* "start", "post"
  draftPc,       \* "test", "wait", "lock", "process", "ended"
  taken          \* how many requests were taken from the queue

draftVars == <<workqueue, queuestat, queueLocked, draftStop, appendPc, draftPc, taken>>

DraftTypeOK ==
  /\ workqueue \in 0..DraftMaxRequests + 1
  /\ queuestat \in 0..MaxPosts
  /\ queueLocked \in BOOLEAN /\ draftStop \in BOOLEAN
  /\ appendPc \in [Appenders -> {"start", "post"}]
  /\ draftPc \in [DraftWorkers -> {"test", "wait", "lock", "process", "ended"}]
  /\ taken \in Nat

DraftInit ==
  /\ workqueue = 0 /\ queuestat = 0
  /\ queueLocked = FALSE
  /\ draftStop \in BOOLEAN
  /\ appendPc = [a \in Appenders |-> "start"]
  /\ draftPc = [w \in DraftWorkers |-> "test"]
  /\ taken = 0

(* The queue may grow by one more than m_max_requsts. A refusal changes     *)
(* nothing.                                                                 *)
AppendRequest(a) ==
  /\ appendPc[a] = "start" /\ ~queueLocked /\ workqueue <= DraftMaxRequests
  /\ workqueue' = workqueue + 1
  /\ appendPc' = [appendPc EXCEPT ![a] = "post"]
  /\ UNCHANGED <<queuestat, queueLocked, draftStop, draftPc, taken>>

PostRequest(a) ==
  /\ appendPc[a] = "post" /\ queuestat < MaxPosts
  /\ queuestat' = queuestat + 1
  /\ appendPc' = [appendPc EXCEPT ![a] = "start"]
  /\ UNCHANGED <<workqueue, queueLocked, draftStop, draftPc, taken>>

DraftGoto(w, label) == draftPc' = [draftPc EXCEPT ![w] = label]

TestStop(w) ==
  /\ draftPc[w] = "test"
  /\ DraftGoto(w, IF draftStop THEN "ended" ELSE "wait")
  /\ UNCHANGED <<workqueue, queuestat, queueLocked, draftStop, appendPc, taken>>

WaitForRequest(w) ==
  /\ draftPc[w] = "wait" /\ queuestat > 0
  /\ queuestat' = queuestat - 1
  /\ DraftGoto(w, "lock")
  /\ UNCHANGED <<workqueue, queueLocked, draftStop, appendPc, taken>>

(* sem_wait() is interrupted by a signal; run() ignores what wait() returns. *)
WaitCutShort(w) ==
  /\ draftPc[w] = "wait"
  /\ DraftGoto(w, "lock")
  /\ UNCHANGED <<workqueue, queuestat, queueLocked, draftStop, appendPc, taken>>

(* The queue is empty: unlock(), the next round.                            *)
FindNoRequest(w) ==
  /\ draftPc[w] = "lock" /\ ~queueLocked /\ workqueue = 0
  /\ DraftGoto(w, "test")
  /\ UNCHANGED <<workqueue, queuestat, queueLocked, draftStop, appendPc, taken>>

(* Mutant: with the unlock() that webserver/threadpool.h has.               *)
TakeAndUnlock(w) ==
  /\ draftPc[w] = "lock" /\ ~queueLocked /\ workqueue > 0
  /\ workqueue' = workqueue - 1
  /\ taken' = taken + 1
  /\ DraftGoto(w, "process")
  /\ UNCHANGED <<queuestat, queueLocked, draftStop, appendPc>>

(* front() and pop_front(); the lock stays with this worker.                *)
TakeRequest(w) ==
  /\ draftPc[w] = "lock" /\ ~queueLocked /\ workqueue > 0
  /\ workqueue' = workqueue - 1
  /\ queueLocked' = TRUE
  /\ taken' = taken + 1
  /\ DraftGoto(w, "process")
  /\ UNCHANGED <<queuestat, draftStop, appendPc>>

ProcessRequest(w) ==
  /\ draftPc[w] = "process"
  /\ DraftGoto(w, "test")
  /\ UNCHANGED <<workqueue, queuestat, queueLocked, draftStop, appendPc, taken>>

DraftNext ==
  \/ \E a \in Appenders : AppendRequest(a) \/ PostRequest(a)
  \/ \E w \in DraftWorkers :
       \/ TestStop(w) \/ WaitForRequest(w) \/ WaitCutShort(w)
       \/ FindNoRequest(w) \/ TakeRequest(w) \/ ProcessRequest(w)

DraftSpec == DraftInit /\ [][DraftNext]_draftVars

-----------------------------------------------------------------------------
(* What is to be shown.                                                     *)

(* The draft serves one request in its life: once a worker has taken it     *)
(* nobody gets the lock again, neither another worker, nor the same one     *)
(* when it comes back, nor any thread that appends.                         *)
JamsAfterOneRequest ==
  [][/\ taken' <= 1
     /\ taken = 1 => workqueue' = workqueue]_draftVars
=============================================================================
