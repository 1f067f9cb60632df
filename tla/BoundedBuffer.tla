---------------------------- MODULE BoundedBuffer ----------------------------
(***************************************************************************)
(* chapter_3/thread: producer_consumer.cpp ("polling"), pthread_cond.cpp    *)
(* ("waiting") and semaphore.cpp ("counting"), three programs that share    *)
(* the vector buf between the same producers and consumers.                 *)
(*                                                                          *)
(* In each of them a mutex is held around everything that is done with buf, *)
(* so what happens between a lock and the unlock, or the wait that gives it *)
(* up, is one step. A round that finds nothing to do changes nothing.       *)
(***************************************************************************)
EXTENDS Integers, Sequences, FiniteSets

CONSTANTS
  Producers,
  Consumers,
  Numbers,     \* what rand() % 1000 yields
  Capacity     \* BUF_SIZE, which is also what sem_p starts with

ASSUME BufferAssumption ==
  /\ Producers \cap Consumers = {}
  /\ IsFiniteSet(Producers) /\ IsFiniteSet(Consumers)
  /\ Consumers # {}
  /\ Capacity \in Nat \ {0}

VARIABLES
  bufferKind,  \* which of the three programs runs
  buf,         \* the vector
  asleep,      \* the consumers in pthread_cond_wait()
  semP,        \* the semaphore sem_p, room in the vector
  semC,        \* the semaphore sem_c, numbers in the vector
  bufferPc     \* "start", "holding" a unit of a semaphore, or about to "post"

bufferVars == <<bufferKind, buf, asleep, semP, semC, bufferPc>>

BufferThreads == Producers \cup Consumers

BufferTypeOK ==
  /\ bufferKind \in {"polling", "waiting", "counting"}
  /\ buf \in Seq(Numbers)
  /\ asleep \subseteq Consumers
  /\ semP \in 0..Capacity /\ semC \in 0..Capacity
  /\ bufferPc \in [BufferThreads -> {"start", "holding", "post"}]

BufferInit ==
  /\ bufferKind \in {"polling", "waiting", "counting"}
  /\ buf = << >>
  /\ asleep = {}
  /\ semP = Capacity
  /\ semC = 0
  /\ bufferPc = [t \in BufferThreads |-> "start"]

PushBack == \E n \in Numbers : buf' = Append(buf, n)

PopBack == buf' = SubSeq(buf, 1, Len(buf) - 1)

-----------------------------------------------------------------------------
(* producer_consumer.cpp                                                    *)

(* Mutant: the size is tested against one more than the vector may hold.    *)
ProduceOneMore(p) ==
  /\ bufferKind = "polling" /\ Len(buf) <= Capacity
  /\ PushBack
  /\ UNCHANGED <<bufferKind, asleep, semP, semC, bufferPc>>

Produce(p) ==
  /\ bufferKind = "polling" /\ Len(buf) < Capacity
  /\ PushBack
  /\ UNCHANGED <<bufferKind, asleep, semP, semC, bufferPc>>

Consume(c) ==
  /\ bufferKind = "polling" /\ buf # << >>
  /\ PopBack
  /\ UNCHANGED <<bufferKind, asleep, semP, semC, bufferPc>>

-----------------------------------------------------------------------------
(* pthread_cond.cpp                                                         *)

(* Mutant: the producer signals only once the vector is full.               *)
ProduceSignalLate(p) ==
  /\ bufferKind = "waiting" /\ Len(buf) < Capacity
  /\ PushBack
  /\ \/ Len(buf') = Capacity /\ \E c \in asleep : asleep' = asleep \ {c}
     \/ (asleep = {} \/ Len(buf') < Capacity) /\ UNCHANGED asleep
  /\ UNCHANGED <<bufferKind, semP, semC, bufferPc>>

(* The signal wakes one sleeping consumer, if there is one.                 *)
ProduceAndSignal(p) ==
  /\ bufferKind = "waiting" /\ Len(buf) < Capacity
  /\ PushBack
  /\ \/ \E c \in asleep : asleep' = asleep \ {c}
     \/ asleep = {} /\ UNCHANGED asleep
  /\ UNCHANGED <<bufferKind, semP, semC, bufferPc>>

ConsumeAwake(c) ==
  /\ bufferKind = "waiting" /\ c \notin asleep /\ buf # << >>
  /\ PopBack
  /\ UNCHANGED <<bufferKind, asleep, semP, semC, bufferPc>>

FallAsleep(c) ==
  /\ bufferKind = "waiting" /\ c \notin asleep /\ buf = << >>
  /\ asleep' = asleep \cup {c}
  /\ UNCHANGED <<bufferKind, buf, semP, semC, bufferPc>>

(* pthread_cond_wait() may return without a signal.                         *)
WakeUnasked(c) ==
  /\ bufferKind = "waiting" /\ c \in asleep
  /\ asleep' = asleep \ {c}
  /\ UNCHANGED <<bufferKind, buf, semP, semC, bufferPc>>

-----------------------------------------------------------------------------
(* semaphore.cpp                                                            *)

BufferGoto(t, label) == bufferPc' = [bufferPc EXCEPT ![t] = label]

WaitForRoom(p) ==
  /\ bufferKind = "counting" /\ bufferPc[p] = "start" /\ semP > 0
  /\ semP' = semP - 1
  /\ BufferGoto(p, "holding")
  /\ UNCHANGED <<bufferKind, buf, asleep, semC>>

PushCounted(p) ==
  /\ bufferKind = "counting" /\ bufferPc[p] = "holding"
  /\ PushBack
  /\ BufferGoto(p, "post")
  /\ UNCHANGED <<bufferKind, asleep, semP, semC>>

PostNumber(p) ==
  /\ bufferKind = "counting" /\ bufferPc[p] = "post"
  /\ semC' = semC + 1
  /\ BufferGoto(p, "start")
  /\ UNCHANGED <<bufferKind, buf, asleep, semP>>

(* Mutant: sem_wait() returns without a unit, as it does when a signal       *)
(* interrupts it, and nobody looks at its result.                           *)
GoOnWithoutNumber(c) ==
  /\ bufferKind = "counting" /\ bufferPc[c] = "start"
  /\ semC' = IF semC > 0 THEN semC - 1 ELSE 0
  /\ BufferGoto(c, "holding")
  /\ UNCHANGED <<bufferKind, buf, asleep, semP>>

WaitForNumber(c) ==
  /\ bufferKind = "counting" /\ bufferPc[c] = "start" /\ semC > 0
  /\ semC' = semC - 1
  /\ BufferGoto(c, "holding")
  /\ UNCHANGED <<bufferKind, buf, asleep, semP>>

(* back() and pop_back() without a look at the size.                        *)
PopCounted(c) ==
  /\ bufferKind = "counting" /\ bufferPc[c] = "holding"
  /\ PopBack
  /\ BufferGoto(c, "post")
  /\ UNCHANGED <<bufferKind, asleep, semP, semC>>

PostRoom(c) ==
  /\ bufferKind = "counting" /\ bufferPc[c] = "post"
  /\ semP' = semP + 1
  /\ BufferGoto(c, "start")
  /\ UNCHANGED <<bufferKind, buf, asleep, semC>>

-----------------------------------------------------------------------------
ProducerStep(p) ==
  Produce(p) \/ ProduceAndSignal(p) \/ WaitForRoom(p) \/ PushCounted(p) \/ PostNumber(p)

ConsumerStep(c) ==
  \/ Consume(c)
  \/ ConsumeAwake(c) \/ FallAsleep(c) \/ WakeUnasked(c)
  \/ WaitForNumber(c) \/ PopCounted(c) \/ PostRoom(c)

BufferNext == (\E p \in Producers : ProducerStep(p)) \/ (\E c \in Consumers : ConsumerStep(c))

BufferSpec == BufferInit /\ [][BufferNext]_bufferVars

-----------------------------------------------------------------------------
(* What is to be shown.                                                     *)

(* No wakeup is lost in pthread_cond.cpp: the single signal of line 43 and  *)
(* the if (not while) around the wait of line 65 leave no number in the     *)
(* vector while every consumer sleeps, whichever consumer a signal wakes    *)
(* and whoever takes the number before it.                                  *)
NoSleepOverNumbers ==
  bufferKind = "waiting" /\ buf # << >> => \E c \in Consumers : c \notin asleep

(* semaphore.cpp reads back() without looking at the size (line 58): every  *)
(* consumer that got through sem_wait(&sem_c) has a number of its own in    *)
(* the vector, with several producers between their push and their post     *)
(* and several consumers between their wait and their pop.                  *)
NumberForEachToken ==
  bufferKind = "counting" =>
    Len(buf) >= semC + Cardinality({c \in Consumers : bufferPc[c] = "holding"})

(* All three programs use the vector as a stack of at most BUF_SIZE         *)
(* numbers: no push into a full vector, no pop from an empty one.           *)
Stack == INSTANCE BoundedStack WITH stack <- buf

ImplementsBoundedStack == Stack!Spec
=============================================================================
