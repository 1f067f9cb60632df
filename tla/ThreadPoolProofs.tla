-------------------------- MODULE ThreadPoolProofs --------------------------
(***************************************************************************)
(* Theorems about ThreadPool, for any number of workers, callers and        *)
(* requests, any limit and any number of interrupted waits.                 *)
(***************************************************************************)
EXTENDS ThreadPool, FiniteSetTheorems, SequenceTheorems, TLAPS

USE PoolAssumption

(* A thread that carries a request carries a proper one.                    *)
ItemOK ==
  /\ \A c \in Callers : pc[c] \in {"lock", "push"} => item[c] \in Requests \cup {NULL}
  /\ \A w \in Workers : pc[w] = "process" => item[w] \in Requests

(* What the queue can count on: tokens, posts to come and workers under way.*)
Supply == tokens + Cardinality(Posting) + Cardinality(Seeking)

(* A request has its token, post or worker; as long as no wait was          *)
(* interrupted there is also no token, post or worker too many.             *)
Balance == /\ Len(queue) <= Supply
           /\ interrupts = 0 => Len(queue) = Supply

IInv == TypeOK /\ ItemOK /\ Balance /\ QueueBound

-----------------------------------------------------------------------------
(* The two counted sets are finite.                                         *)
LEMMA CountsAreNat ==
  ASSUME TypeOK
  PROVE  /\ IsFiniteSet(Posting) /\ Cardinality(Posting) \in Nat
         /\ IsFiniteSet(Seeking) /\ Cardinality(Seeking) \in Nat
<1>1. Posting \in SUBSET Callers /\ Seeking \in SUBSET Workers
  BY DEF Posting, Seeking
<1>2. IsFiniteSet(Posting) /\ IsFiniteSet(Seeking)
  BY <1>1, FS_Subset
<1> QED
  BY <1>2, FS_CardinalityType

(* A caller's move changes the number of posting callers by what it enters  *)
(* or leaves, and the number of seeking workers not at all.                 *)
LEMMA CallerMoves ==
  ASSUME TypeOK, NEW c \in Callers, NEW label \in CallerPC, Goto(c, label)
  PROVE  /\ Cardinality(Seeking') = Cardinality(Seeking)
         /\ Cardinality(Posting') =
              IF pc[c] = "post"
              THEN IF label = "post" THEN Cardinality(Posting) ELSE Cardinality(Posting) - 1
              ELSE IF label = "post" THEN Cardinality(Posting) + 1 ELSE Cardinality(Posting)
<1>1. /\ pc' = [pc EXCEPT ![c] = label] /\ c \in Threads
      /\ \A w \in Workers : pc'[w] = pc[w] /\ w # c
      /\ \A d \in Callers : pc'[d] = IF d = c THEN label ELSE pc[d]
  BY DEF Goto, TypeOK, Threads
<1>2. Seeking' = Seeking
  BY <1>1 DEF Seeking
<1>3. Posting' = IF label = "post" THEN Posting \cup {c} ELSE Posting \ {c}
  BY <1>1 DEF Posting
<1>4. c \in Posting <=> pc[c] = "post"
  BY DEF Posting
<1>5. IsFiniteSet(Posting)
  BY CountsAreNat
<1> QED
  BY <1>2, <1>3, <1>4, <1>5, FS_AddElement, FS_RemoveElement

(* The same for a worker's move.                                            *)
LEMMA WorkerMoves ==
  ASSUME TypeOK, NEW w \in Workers, NEW label \in WorkerPC, Goto(w, label)
  PROVE  /\ Cardinality(Posting') = Cardinality(Posting)
         /\ Cardinality(Seeking') =
              IF pc[w] \in {"lock", "take"}
              THEN IF label \in {"lock", "take"} THEN Cardinality(Seeking)
                                                 ELSE Cardinality(Seeking) - 1
              ELSE IF label \in {"lock", "take"} THEN Cardinality(Seeking) + 1
                                                 ELSE Cardinality(Seeking)
<1>1. /\ pc' = [pc EXCEPT ![w] = label] /\ w \in Threads
      /\ \A c \in Callers : pc'[c] = pc[c] /\ w # c
      /\ \A v \in Workers : pc'[v] = IF v = w THEN label ELSE pc[v]
  BY DEF Goto, TypeOK, Threads
<1>2. Posting' = Posting
  BY <1>1 DEF Posting
<1>3. Seeking' = IF label \in {"lock", "take"} THEN Seeking \cup {w} ELSE Seeking \ {w}
  BY <1>1 DEF Seeking
<1>4. w \in Seeking <=> pc[w] \in {"lock", "take"}
  BY DEF Seeking
<1>5. IsFiniteSet(Seeking)
  BY CountsAreNat
<1> QED
  BY <1>2, <1>3, <1>4, <1>5, FS_AddElement, FS_RemoveElement

-----------------------------------------------------------------------------
(* The state before any thread has run satisfies the invariant.             *)
LEMMA InitInv == Init => IInv
<1> SUFFICES ASSUME Init PROVE IInv
  OBVIOUS
<1>1. TypeOK
  <2>1. stop \in BOOLEAN /\ queue \in Seq(Requests \cup {NULL})
    BY DEF Init
  <2>2. /\ pc \in [Threads -> WorkerPC \cup CallerPC]
        /\ \A w \in Workers : pc[w] \in WorkerPC
        /\ \A c \in Callers : pc[c] \in CallerPC
    BY DEF Init, Threads, WorkerPC, CallerPC
  <2>3. mutex \in Threads \cup {NoThread} /\ tokens \in Nat /\ interrupts \in 0..MaxInterrupts
    BY DEF Init
  <2>4. item \in [Threads -> Requests \cup {NULL, Nothing}]
    BY DEF Init
  <2> QED
    BY <2>1, <2>2, <2>3, <2>4 DEF Init, TypeOK
<1>2. ItemOK
  BY DEF Init, ItemOK, Threads
<1>3. Posting = {} /\ Seeking = {}
  BY DEF Init, Posting, Seeking, Threads
<1>4. Len(queue) = 0 /\ Supply = 0
  BY <1>3, FS_EmptySet DEF Init, Supply
<1> QED
  BY <1>1, <1>2, <1>4 DEF IInv, Balance, QueueBound

(* Types and carried requests survive every step.                           *)
LEMMA NextType == TypeOK /\ ItemOK /\ [Next]_vars => TypeOK' /\ ItemOK'
<1> SUFFICES ASSUME TypeOK, ItemOK, [Next]_vars PROVE TypeOK' /\ ItemOK'
  OBVIOUS
<1> USE DEF TypeOK, ItemOK, Threads, WorkerPC, CallerPC, Goto
<1>1. ASSUME NEW c \in Callers, NEW r \in Requests \cup {NULL}, Call(c, r)
      PROVE  TypeOK' /\ ItemOK'
  BY <1>1 DEF Call
<1>2. ASSUME NEW c \in Callers, AppendLock(c) PROVE TypeOK' /\ ItemOK'
  BY <1>2 DEF AppendLock
<1>3. ASSUME NEW c \in Callers, Refuse(c) PROVE TypeOK' /\ ItemOK'
  BY <1>3 DEF Refuse
<1>4. ASSUME NEW c \in Callers, Push(c) PROVE TypeOK' /\ ItemOK'
  <2>1. item[c] \in Requests \cup {NULL}
    BY <1>4 DEF Push
  <2>2. queue' \in Seq(Requests \cup {NULL})
    BY <1>4, <2>1, AppendProperties DEF Push
  <2> QED
    BY <1>4, <2>2 DEF Push
<1>5. ASSUME NEW c \in Callers, Post(c) PROVE TypeOK' /\ ItemOK'
  BY <1>5 DEF Post
<1>6. ASSUME NEW w \in Workers, CheckStop(w) PROVE TypeOK' /\ ItemOK'
  BY <1>6 DEF CheckStop
<1>7. ASSUME NEW w \in Workers, Wait(w) PROVE TypeOK' /\ ItemOK'
  BY <1>7 DEF Wait
<1>8. ASSUME NEW w \in Workers, WaitInterrupted(w) PROVE TypeOK' /\ ItemOK'
  BY <1>8 DEF WaitInterrupted
<1>9. ASSUME NEW w \in Workers, WorkerLock(w) PROVE TypeOK' /\ ItemOK'
  BY <1>9 DEF WorkerLock
<1>10. ASSUME NEW w \in Workers, FindEmpty(w) PROVE TypeOK' /\ ItemOK'
  BY <1>10 DEF FindEmpty
<1>11. ASSUME NEW w \in Workers, Take(w) PROVE TypeOK' /\ ItemOK'
  <2>1. Head(queue) \in Requests \cup {NULL} /\ queue' \in Seq(Requests \cup {NULL})
    BY <1>11, HeadTailProperties DEF Take
  <2>2. CASE Head(queue) = NULL
    BY <1>11, <2>1, <2>2 DEF Take
  <2>3. CASE Head(queue) # NULL
    <3>1. Head(queue) \in Requests /\ Goto(w, "process")
          /\ item' = [item EXCEPT ![w] = Head(queue)]
      BY <1>11, <2>1, <2>3 DEF Take
    <3>2. item' \in [Threads -> Requests \cup {NULL, Nothing}]
      BY <3>1
    <3>3. ItemOK'
      BY <3>1
    <3> QED
      BY <1>11, <2>1, <3>1, <3>2, <3>3 DEF Take
  <2> QED
    BY <2>2, <2>3
<1>12. ASSUME NEW w \in Workers, Finish(w) PROVE TypeOK' /\ ItemOK'
  BY <1>12 DEF Finish
<1>13. ASSUME Destroy PROVE TypeOK' /\ ItemOK'
  BY <1>13 DEF Destroy
<1>14. CASE UNCHANGED vars
  BY <1>14 DEF vars
<1> QED
  BY <1>1, <1>2, <1>3, <1>4, <1>5, <1>6, <1>7, <1>8, <1>9, <1>10, <1>11,
     <1>12, <1>13, <1>14
  DEF Next, AppendStep, RunStep

(* Every step keeps the books: what the queue loses or gains, the tokens,   *)
(* the posting callers and the seeking workers lose or gain with it.        *)
LEMMA NextBalance == IInv /\ [Next]_vars => Balance' /\ QueueBound'
<1> SUFFICES ASSUME IInv, [Next]_vars PROVE Balance' /\ QueueBound'
  OBVIOUS
<1> USE DEF Balance, QueueBound, Supply, CallerPC, WorkerPC
<1>a. TypeOK /\ Balance /\ QueueBound
  BY DEF IInv
<1>b. /\ Len(queue) \in Nat /\ tokens \in Nat /\ interrupts \in Nat
      /\ Cardinality(Posting) \in Nat /\ Cardinality(Seeking) \in Nat
  BY <1>a, CountsAreNat DEF TypeOK
<1>1. ASSUME NEW c \in Callers, NEW r \in Requests \cup {NULL}, Call(c, r)
      PROVE  Balance' /\ QueueBound'
  BY <1>1, <1>a, <1>b, CallerMoves DEF Call
<1>2. ASSUME NEW c \in Callers, AppendLock(c) PROVE Balance' /\ QueueBound'
  BY <1>2, <1>a, <1>b, CallerMoves DEF AppendLock
<1>3. ASSUME NEW c \in Callers, Refuse(c) PROVE Balance' /\ QueueBound'
  BY <1>3, <1>a, <1>b, CallerMoves DEF Refuse
<1>4. ASSUME NEW c \in Callers, Push(c) PROVE Balance' /\ QueueBound'
  <2>1. Len(queue') = Len(queue) + 1
    <3>1. item[c] \in Requests \cup {NULL}
      BY <1>4 DEF Push, IInv, ItemOK
    <3> QED
      BY <1>4, <3>1, <1>a, AppendProperties DEF Push, TypeOK
  <2>2. /\ Cardinality(Posting') = Cardinality(Posting) + 1
        /\ Cardinality(Seeking') = Cardinality(Seeking)
    BY <1>4, <1>a, CallerMoves DEF Push
  <2>3. tokens' = tokens /\ interrupts' = interrupts /\ Len(queue) <= MaxRequests
    BY <1>4, <1>b DEF Push, QueueFull
  <2>4. Supply' = Supply + 1
    BY <2>2, <2>3, <1>b
  <2>5. Balance'
    BY <2>1, <2>3, <2>4, <1>a, <1>b
  <2>6. QueueBound'
    BY <2>1, <2>3, <1>b, PoolAssumption DEF PoolAssumption
  <2> QED
    BY <2>5, <2>6
<1>5. ASSUME NEW c \in Callers, Post(c) PROVE Balance' /\ QueueBound'
  BY <1>5, <1>a, <1>b, CallerMoves DEF Post
<1>6. ASSUME NEW w \in Workers, CheckStop(w) PROVE Balance' /\ QueueBound'
  BY <1>6, <1>a, <1>b, WorkerMoves DEF CheckStop
<1>7. ASSUME NEW w \in Workers, Wait(w) PROVE Balance' /\ QueueBound'
  BY <1>7, <1>a, <1>b, WorkerMoves DEF Wait
<1>8. ASSUME NEW w \in Workers, WaitInterrupted(w) PROVE Balance' /\ QueueBound'
  BY <1>8, <1>a, <1>b, WorkerMoves DEF WaitInterrupted
<1>9. ASSUME NEW w \in Workers, WorkerLock(w) PROVE Balance' /\ QueueBound'
  BY <1>9, <1>a, <1>b, WorkerMoves DEF WorkerLock
<1>10. ASSUME NEW w \in Workers, FindEmpty(w) PROVE Balance' /\ QueueBound'
  <2>1. Len(queue) = 0 /\ Cardinality(Seeking) > 0
    <3>1. w \in Seeking
      BY <1>10 DEF FindEmpty, Seeking
    <3> QED
      BY <1>10, <3>1, <1>a, <1>b, CountsAreNat, FS_EmptySet DEF FindEmpty
  <2> QED
    BY <1>10, <2>1, <1>a, <1>b, WorkerMoves DEF FindEmpty
<1>11. ASSUME NEW w \in Workers, Take(w) PROVE Balance' /\ QueueBound'
  <2>1. Len(queue') = Len(queue) - 1
    BY <1>11, <1>a, HeadTailProperties DEF Take, TypeOK
  <2>2. PICK label \in {"loop", "process"} : Goto(w, label)
    BY <1>11 DEF Take
  <2>3. /\ Cardinality(Posting') = Cardinality(Posting)
        /\ Cardinality(Seeking') = Cardinality(Seeking) - 1
    BY <1>11, <2>2, <1>a, WorkerMoves DEF Take
  <2>4. tokens' = tokens /\ interrupts' = interrupts
    BY <1>11 DEF Take
  <2>5. Supply' = Supply - 1
    BY <2>3, <2>4, <1>b
  <2> QED
    BY <2>1, <2>4, <2>5, <1>a, <1>b, PoolAssumption
<1>12. ASSUME NEW w \in Workers, Finish(w) PROVE Balance' /\ QueueBound'
  BY <1>12, <1>a, <1>b, WorkerMoves DEF Finish
<1>13. CASE Destroy
  BY <1>13, <1>a DEF Destroy, Posting, Seeking
<1>14. CASE UNCHANGED vars
  BY <1>14, <1>a DEF vars, Posting, Seeking
<1> QED
  BY <1>1, <1>2, <1>3, <1>4, <1>5, <1>6, <1>7, <1>8, <1>9, <1>10, <1>11,
     <1>12, <1>13, <1>14
  DEF Next, AppendStep, RunStep

(* The invariant holds in every reachable state of the pool.                *)
THEOREM Invariance == Spec => []IInv
<1>1. IInv /\ [Next]_vars => IInv'
  BY NextType, NextBalance DEF IInv
<1> QED
  BY InitInv, <1>1, PTL DEF Spec

(* Every variable keeps its type.                                           *)
THEOREM TypeCorrect == Spec => []TypeOK
<1>1. IInv => TypeOK
  BY DEF IInv
<1> QED
  BY <1>1, Invariance, PTL

(* append() never leaves a request in the queue without a token, a caller   *)
(* about to post or a worker on its way: no wakeup is lost.                 *)
THEOREM NoLostWakeup == Spec => []NoStrandedRequest
<1>1. IInv => NoStrandedRequest
  BY DEF IInv, Balance, Supply, NoStrandedRequest
<1> QED
  BY <1>1, Invariance, PTL

(* A worker that no signal sent there finds a request: the empty() branch   *)
(* of run() is dead code unless sem_wait() can be interrupted.              *)
THEOREM TokensAreExact == Spec => []TokenBuysRequest
<1>1. ASSUME IInv PROVE TokenBuysRequest
  <2> SUFFICES ASSUME interrupts = 0, NEW w \in Workers, pc[w] = "take"
               PROVE  queue # << >>
    BY DEF TokenBuysRequest
  <2>1. TypeOK /\ Len(queue) = tokens + Cardinality(Posting) + Cardinality(Seeking)
    BY <1>1 DEF IInv, Balance, Supply
  <2>2. Seeking # {}
    BY DEF Seeking
  <2>3. Cardinality(Seeking) > 0
    BY <2>1, <2>2, CountsAreNat, FS_EmptySet
  <2>4. Len(queue) > 0
    BY <2>1, <2>3, CountsAreNat DEF TypeOK
  <2> QED
    BY <2>4
<1> QED
  BY <1>1, Invariance, PTL

(* The queue may pass m_max_requsts by one request, and by no more: two     *)
(* callers never push on the strength of one test.                          *)
THEOREM QueueIsBounded == Spec => []QueueBound
<1>1. IInv => QueueBound
  BY DEF IInv
<1> QED
  BY <1>1, Invariance, PTL

-----------------------------------------------------------------------------
(* A step that touches neither the queue nor a request under way is         *)
(* invisible in the abstract queue.                                         *)
LEMMA Invisible ==
  ASSUME TypeOK, NEW t \in Threads, NEW label, Goto(t, label),
         pc[t] # "process", label # "process", queue' = queue,
         \A w \in Workers : item'[w] = item[w]
  PROVE  UNCHANGED <<queue, serving>>
<1>1. \A w \in Workers : pc'[w] = IF w = t THEN label ELSE pc[w]
  BY DEF Goto, TypeOK, Threads
<1> QED
  BY <1>1 DEF serving

(* Every step of the pool is one of the abstract queue, or invisible.       *)
LEMMA StepRefines == IInv /\ [Next]_vars => [Abstract!Next]_<<queue, serving>>
<1> SUFFICES ASSUME IInv, [Next]_vars PROVE [Abstract!Next]_<<queue, serving>>
  OBVIOUS
<1> DEFINE Goal == [Abstract!Next]_<<queue, serving>>
<1>a. TypeOK /\ ItemOK /\ Workers \cap Callers = {} /\ Workers \subseteq Threads
      /\ Callers \subseteq Threads
  BY DEF IInv, Threads, PoolAssumption
<1>b. \A c \in Callers : \A r : item' = [item EXCEPT ![c] = r] =>
        \A w \in Workers : item'[w] = item[w]
  BY <1>a DEF TypeOK
<1>1. ASSUME NEW c \in Callers, NEW r \in Requests \cup {NULL}, Call(c, r) PROVE Goal
  BY <1>1, <1>a, <1>b, Invisible DEF Call
<1>2. ASSUME NEW c \in Callers, AppendLock(c) PROVE Goal
  BY <1>2, <1>a, Invisible DEF AppendLock
<1>3. ASSUME NEW c \in Callers, Refuse(c) PROVE Goal
  BY <1>3, <1>a, <1>b, Invisible DEF Refuse
<1>4. ASSUME NEW c \in Callers, Push(c) PROVE Goal
  <2>1. item[c] \in Requests \cup {NULL}
    BY <1>4, <1>a DEF Push, ItemOK
  <2>2. Len(queue) <= MaxRequests
    BY <1>4, <1>a DEF Push, QueueFull, TypeOK, PoolAssumption
  <2>3. serving' = serving
    <3>1. \A w \in Workers : pc'[w] = pc[w] /\ item'[w] = item[w]
      BY <1>4, <1>a DEF Push, Goto, TypeOK
    <3> QED
      BY <3>1 DEF serving
  <2>4. Abstract!Accept(item[c])
    BY <1>4, <2>2, <2>3 DEF Push, Abstract!Accept
  <2> QED
    BY <2>1, <2>4 DEF Abstract!Next
<1>5. ASSUME NEW c \in Callers, Post(c) PROVE Goal
  BY <1>5, <1>a, Invisible DEF Post
<1>6. ASSUME NEW w \in Workers, CheckStop(w) PROVE Goal
  BY <1>6, <1>a, Invisible DEF CheckStop
<1>7. ASSUME NEW w \in Workers, Wait(w) PROVE Goal
  BY <1>7, <1>a, Invisible DEF Wait
<1>8. ASSUME NEW w \in Workers, WaitInterrupted(w) PROVE Goal
  BY <1>8, <1>a, Invisible DEF WaitInterrupted
<1>9. ASSUME NEW w \in Workers, WorkerLock(w) PROVE Goal
  BY <1>9, <1>a, Invisible DEF WorkerLock
<1>10. ASSUME NEW w \in Workers, FindEmpty(w) PROVE Goal
  BY <1>10, <1>a, Invisible DEF FindEmpty
<1>11. ASSUME NEW w \in Workers, Take(w) PROVE Goal
  <2>1. serving[w] = Nothing
    BY <1>11 DEF Take, serving
  <2>2. CASE Head(queue) = NULL
    <3>1. Goto(w, "loop") /\ item' = item
      BY <1>11, <1>a, <2>2 DEF Take, TypeOK
    <3>2. serving' = serving
      <4>1. \A v \in Workers : pc'[v] = IF v = w THEN "loop" ELSE pc[v]
        BY <3>1, <1>a DEF Goto, TypeOK
      <4> QED
        BY <4>1, <3>1, <1>11 DEF serving, Take
    <3> QED
      BY <1>11, <2>1, <2>2, <3>2 DEF Take, Abstract!Dispatch, Abstract!Next
  <2>3. CASE Head(queue) # NULL
    <3>1. Goto(w, "process") /\ item' = [item EXCEPT ![w] = Head(queue)]
      BY <1>11, <2>3 DEF Take
    <3>2. serving' = [serving EXCEPT ![w] = Head(queue)]
      <4>1. \A v \in Workers : /\ pc'[v] = IF v = w THEN "process" ELSE pc[v]
                               /\ item'[v] = IF v = w THEN Head(queue) ELSE item[v]
        BY <3>1, <1>a DEF Goto, TypeOK
      <4> QED
        BY <4>1 DEF serving
    <3> QED
      BY <1>11, <2>1, <2>3, <3>2 DEF Take, Abstract!Dispatch, Abstract!Next
  <2> QED
    BY <2>2, <2>3
<1>12. ASSUME NEW w \in Workers, Finish(w) PROVE Goal
  <2>1. serving[w] # Nothing
    BY <1>12, <1>a DEF Finish, serving, ItemOK, PoolAssumption
  <2>2. serving' = [serving EXCEPT ![w] = Nothing]
    <3>1. \A v \in Workers : /\ pc'[v] = IF v = w THEN "loop" ELSE pc[v]
                             /\ item'[v] = IF v = w THEN Nothing ELSE item[v]
      BY <1>12, <1>a DEF Finish, Goto, TypeOK
    <3> QED
      BY <3>1 DEF serving
  <2> QED
    BY <1>12, <2>1, <2>2 DEF Finish, Abstract!Complete, Abstract!Next
<1>13. CASE Destroy
  BY <1>13 DEF Destroy, serving
<1>14. CASE UNCHANGED vars
  BY <1>14 DEF vars, serving
<1> QED
  BY <1>1, <1>2, <1>3, <1>4, <1>5, <1>6, <1>7, <1>8, <1>9, <1>10, <1>11,
     <1>12, <1>13, <1>14
  DEF Next, AppendStep, RunStep

(* threadpool<T> implements the abstract queue: first-in first-out, every   *)
(* accepted request to one worker, a refused append() without effect.       *)
THEOREM Refinement == Spec => ImplementsRequestQueue
<1>1. Init => Abstract!Init
  BY DEF Init, Abstract!Init, serving, Threads
<1> QED
  BY <1>1, StepRefines, Invariance, PTL DEF Spec, ImplementsRequestQueue, Abstract!Spec
=============================================================================
