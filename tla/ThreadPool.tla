----------------------------- MODULE ThreadPool -----------------------------
(***************************************************************************)
(* webserver/threadpool.h with the sem and locker classes of                *)
(* webserver/locker.h, step by step.                                        *)
(*                                                                          *)
(* A step ends where another thread can see the difference: at a lock, an   *)
(* unlock, a semaphore operation or a read of m_stop. What a thread does    *)
(* between a lock and the matching unlock is one step, because the mutex    *)
(* hides it.                                                                *)
(***************************************************************************)
EXTENDS Integers, Sequences, FiniteSets

CONSTANTS
  Workers,        \* the threads the constructor creates
  Callers,        \* the threads that call append() (main() in the web server)
  Requests,       \* the T* that callers hand over
  NULL,           \* the null T*
  Nothing,        \* no request
  NoThread,       \* the mutex is free
  MaxRequests,    \* m_max_requsts
  StopAtStart,    \* what m_stop may hold when the workers first read it: the
                  \* constructor leaves it indeterminate
  MaxInterrupts   \* bound: how often a signal handler interrupts sem_wait()

ASSUME PoolAssumption ==
  /\ IsFiniteSet(Workers) /\ Workers # {}
  /\ IsFiniteSet(Callers)
  /\ Workers \cap Callers = {}
  /\ NoThread \notin Workers \cup Callers
  /\ Nothing \notin Requests \cup {NULL}
  /\ NULL \notin Requests
  /\ MaxRequests \in Nat \ {0}
  /\ StopAtStart \subseteq BOOLEAN
  /\ MaxInterrupts \in Nat

Threads == Workers \cup Callers

VARIABLES
  queue,        \* m_workqueue
  mutex,        \* the thread that holds m_queuelocker, or NoThread
  tokens,       \* the value of the semaphore m_queuestat
  stop,         \* m_stop
  destroyed,    \* the destructor's body has run
  interrupts,   \* sem_wait() calls that returned EINTR
  pc,           \* where each thread is
  item          \* the caller's argument, or the request a worker serves

vars == <<queue, mutex, tokens, stop, destroyed, interrupts, pc, item>>

WorkerPC == {"loop", "wait", "lock", "take", "process", "ended"}
CallerPC == {"idle", "lock", "push", "post"}

TypeOK ==
  /\ queue \in Seq(Requests \cup {NULL})
  /\ mutex \in Threads \cup {NoThread}
  /\ tokens \in Nat
  /\ stop \in BOOLEAN
  /\ destroyed \in BOOLEAN
  /\ interrupts \in 0..MaxInterrupts
  /\ pc \in [Threads -> WorkerPC \cup CallerPC]
  /\ \A w \in Workers : pc[w] \in WorkerPC
  /\ \A c \in Callers : pc[c] \in CallerPC
  /\ item \in [Threads -> Requests \cup {NULL, Nothing}]

(* Line 57 prints between creations, but no thread waits for another one:   *)
(* the threads start in any order, which the interleaving of their first    *)
(* steps covers.                                                            *)
Init ==
  /\ queue = << >>
  /\ mutex = NoThread
  /\ tokens = 0
  /\ stop \in StopAtStart
  /\ destroyed = FALSE
  /\ interrupts = 0
  /\ pc = [t \in Threads |-> IF t \in Workers THEN "loop" ELSE "idle"]
  /\ item = [t \in Threads |-> Nothing]

Goto(t, label) == pc' = [pc EXCEPT ![t] = label]

-----------------------------------------------------------------------------
(* append(request), called by c.                                            *)

Call(c, r) ==
  /\ pc[c] = "idle" /\ ~destroyed
  /\ Goto(c, "lock")
  /\ item' = [item EXCEPT ![c] = r]
  /\ UNCHANGED <<queue, mutex, tokens, stop, destroyed, interrupts>>

AppendLock(c) ==
  /\ pc[c] = "lock" /\ mutex = NoThread
  /\ mutex' = c
  /\ Goto(c, "push")
  /\ UNCHANGED <<queue, tokens, stop, destroyed, interrupts, item>>

QueueFull == Len(queue) > MaxRequests

(* Mutant: one exit of append() for both outcomes, which posts.             *)
RefuseThenPost(c) ==
  /\ pc[c] = "push" /\ QueueFull
  /\ mutex' = NoThread
  /\ Goto(c, "post")
  /\ item' = [item EXCEPT ![c] = Nothing]
  /\ UNCHANGED <<queue, tokens, stop, destroyed, interrupts>>

Refuse(c) ==
  /\ pc[c] = "push" /\ QueueFull
  /\ mutex' = NoThread
  /\ Goto(c, "idle")
  /\ item' = [item EXCEPT ![c] = Nothing]
  /\ UNCHANGED <<queue, tokens, stop, destroyed, interrupts>>

(* Mutant: the post is forgotten.                                           *)
PushWithoutPost(c) ==
  /\ pc[c] = "push" /\ ~QueueFull
  /\ queue' = Append(queue, item[c])
  /\ mutex' = NoThread
  /\ Goto(c, "idle")
  /\ item' = [item EXCEPT ![c] = Nothing]
  /\ UNCHANGED <<tokens, stop, destroyed, interrupts>>

Push(c) ==
  /\ pc[c] = "push" /\ ~QueueFull
  /\ queue' = Append(queue, item[c])
  /\ mutex' = NoThread
  /\ Goto(c, "post")
  /\ item' = [item EXCEPT ![c] = Nothing]
  /\ UNCHANGED <<tokens, stop, destroyed, interrupts>>

Post(c) ==
  /\ pc[c] = "post"
  /\ tokens' = tokens + 1
  /\ Goto(c, "idle")
  /\ UNCHANGED <<queue, mutex, stop, destroyed, interrupts, item>>

-----------------------------------------------------------------------------
(* run(), the loop of worker w.                                             *)

CheckStop(w) ==
  /\ pc[w] = "loop"
  /\ Goto(w, IF stop THEN "ended" ELSE "wait")
  /\ UNCHANGED <<queue, mutex, tokens, stop, destroyed, interrupts, item>>

(* Mutant: sem_trywait() whose result nobody looks at.                      *)
WaitWithoutBlocking(w) ==
  /\ pc[w] = "wait"
  /\ tokens' = tokens - 1
  /\ Goto(w, "lock")
  /\ UNCHANGED <<queue, mutex, stop, destroyed, interrupts, item>>

Wait(w) ==
  /\ pc[w] = "wait" /\ tokens > 0
  /\ tokens' = tokens - 1
  /\ Goto(w, "lock")
  /\ UNCHANGED <<queue, mutex, stop, destroyed, interrupts, item>>

(* sem::wait() returns false when a signal interrupts it; run() ignores the *)
(* result and goes on without a token.                                      *)
WaitInterrupted(w) ==
  /\ pc[w] = "wait" /\ interrupts < MaxInterrupts
  /\ interrupts' = interrupts + 1
  /\ Goto(w, "lock")
  /\ UNCHANGED <<queue, mutex, tokens, stop, destroyed, item>>

WorkerLock(w) ==
  /\ pc[w] = "lock" /\ mutex = NoThread
  /\ mutex' = w
  /\ Goto(w, "take")
  /\ UNCHANGED <<queue, tokens, stop, destroyed, interrupts, item>>

FindEmpty(w) ==
  /\ pc[w] = "take" /\ queue = << >>
  /\ mutex' = NoThread
  /\ Goto(w, "loop")
  /\ UNCHANGED <<queue, tokens, stop, destroyed, interrupts, item>>

(* Mutant: the mutex is left out around front() and pop_front(), so that a  *)
(* worker may pop an entry other than the one it read.                      *)
TakeUnlocked(w) ==
  /\ pc[w] = "take" /\ queue # << >>
  /\ mutex' = NoThread
  /\ \E r \in {Head(queue), queue[Len(queue)]} :
        /\ queue' = Tail(queue)
        /\ Goto(w, IF r = NULL THEN "loop" ELSE "process")
        /\ item' = [item EXCEPT ![w] = IF r = NULL THEN Nothing ELSE r]
  /\ UNCHANGED <<tokens, stop, destroyed, interrupts>>

(* Mutant: no unlock after pop_front(), as in chapter_5/threadpool.h, the   *)
(* draft of this class. The worker asks for its own mutex on its next round.*)
TakeKeepingMutex(w) ==
  /\ pc[w] = "take" /\ queue # << >>
  /\ queue' = Tail(queue)
  /\ Goto(w, IF Head(queue) = NULL THEN "loop" ELSE "process")
  /\ item' = [item EXCEPT ![w] = IF Head(queue) = NULL THEN Nothing ELSE Head(queue)]
  /\ UNCHANGED <<mutex, tokens, stop, destroyed, interrupts>>

(* front, pop_front, unlock; a null request is dropped.                     *)
Take(w) ==
  /\ pc[w] = "take" /\ queue # << >>
  /\ queue' = Tail(queue)
  /\ mutex' = NoThread
  /\ \/ /\ Head(queue) = NULL
        /\ Goto(w, "loop")
        /\ UNCHANGED item
     \/ /\ Head(queue) # NULL
        /\ Goto(w, "process")
        /\ item' = [item EXCEPT ![w] = Head(queue)]
  /\ UNCHANGED <<tokens, stop, destroyed, interrupts>>

Finish(w) ==
  /\ pc[w] = "process"
  /\ Goto(w, "loop")
  /\ item' = [item EXCEPT ![w] = Nothing]
  /\ UNCHANGED <<queue, mutex, tokens, stop, destroyed, interrupts>>

(* The body of ~threadpool(). It neither wakes nor joins a worker. The      *)
(* members die right after it, and what a worker that still runs then does  *)
(* is undefined: the model keeps them intact, the best case.                *)
Destroy ==
  /\ ~destroyed
  /\ \A c \in Callers : pc[c] = "idle"
  /\ destroyed' = TRUE
  /\ stop' = TRUE
  /\ UNCHANGED <<queue, mutex, tokens, interrupts, pc, item>>

-----------------------------------------------------------------------------
AppendStep(c) == AppendLock(c) \/ Refuse(c) \/ Push(c) \/ Post(c)

RunStep(w) == \/ CheckStop(w) \/ Wait(w) \/ WorkerLock(w)
              \/ FindEmpty(w) \/ Take(w) \/ Finish(w)

Next ==
  \/ \E c \in Callers : \/ \E r \in Requests \cup {NULL} : Call(c, r)
                        \/ AppendStep(c)
  \/ \E w \in Workers : RunStep(w) \/ WaitInterrupted(w)
  \/ Destroy

Spec == Init /\ [][Next]_vars

(* A runnable thread runs, process() returns, and nobody loses the race for *)
(* the mutex for ever (the strong fairness). Nobody has to call append()    *)
(* and no signal has to arrive.                                             *)
Fairness ==
  /\ \A c \in Callers : WF_vars(AppendStep(c)) /\ SF_vars(AppendLock(c))
  /\ \A w \in Workers : WF_vars(RunStep(w)) /\ SF_vars(WorkerLock(w))

FairSpec == Spec /\ Fairness

-----------------------------------------------------------------------------
(* What is to be shown.                                                     *)

Posting == {c \in Callers : pc[c] = "post"}
Seeking == {w \in Workers : pc[w] \in {"lock", "take"}}

(* No wakeup is lost: every queued request is matched by a token of the     *)
(* semaphore, by a caller that has unlocked but not yet posted (line 90     *)
(* comes after line 89), or by a worker on its way to the queue. A push     *)
(* without its post, or a worker that gives up a token without taking,      *)
(* strands a request with every worker asleep.                              *)
NoStrandedRequest ==
  Len(queue) <= tokens + Cardinality(Posting) + Cardinality(Seeking)

(* Unless a signal interrupted sem_wait(), the empty() test of line 109     *)
(* never succeeds: a token is worth one request, however many callers post  *)
(* after they unlock and however many workers race for the queue.           *)
TokenBuysRequest ==
  interrupts = 0 => \A w \in Workers : pc[w] = "take" => queue # << >>

(* What the test of line 82 (`>' before the push) makes of the limit: one    *)
(* request more than m_max_requsts, which the comment of line 24 calls the  *)
(* largest number allowed, but never more, however many callers are between *)
(* their test and their push.                                               *)
QueueBound == Len(queue) <= MaxRequests + 1

(* The comment of line 29: m_stop says whether the threads are to end. A    *)
(* worker ends before anybody asked for it when the memory of m_stop, which *)
(* the constructor does not write, is not zero.                             *)
WorkersRunUntilStopped ==
  (\E w \in Workers : pc[w] = "ended") => destroyed

(* Unless the pool is stopped, a queue that stays nonempty is taken from    *)
(* again and again; the queue being first-in first-out, every request in it *)
(* is therefore taken, whatever the callers do meanwhile.                   *)
EveryRequestTaken ==
  \/ []<>(queue = << >>)
  \/ []<><<\E w \in Workers : Take(w)>>_vars
  \/ <>stop

(* Every step of the pool is a step of the abstract queue or invisible in   *)
(* it: requests are served in order, once each, by one worker each, and a   *)
(* refused append() leaves no trace.                                        *)
serving == [w \in Workers |-> IF pc[w] = "process" THEN item[w] ELSE Nothing]

Abstract == INSTANCE RequestQueue WITH pending <- queue, active <- serving

ImplementsRequestQueue == Abstract!Spec
=============================================================================
