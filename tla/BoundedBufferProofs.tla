------------------------- MODULE BoundedBufferProofs -------------------------
(***************************************************************************)
(* Theorems about the producers and consumers of chapter 3, for any number  *)
(* of them, any capacity and any numbers.                                   *)
(***************************************************************************)
EXTENDS BoundedBuffer, FiniteSetTheorems, SequenceTheorems, TLAPS

USE BufferAssumption DEF BufferAssumption

Labels == {"start", "holding", "post"}

(* How many threads of S are at a label.                                    *)
At(S, label) == {t \in S : bufferPc[t] = label}
Count(S, label) == Cardinality(At(S, label))

(* semaphore.cpp: a number in the vector has been posted, or is about to be,*)
(* or belongs to a consumer that got through sem_wait(&sem_c); the rest of  *)
(* the room is in sem_p, with a producer, or about to be given back.        *)
Balance ==
  bufferKind = "counting" =>
    /\ Len(buf) = semC + Count(Consumers, "holding") + Count(Producers, "post")
    /\ Capacity = Len(buf) + semP + Count(Producers, "holding") + Count(Consumers, "post")

IInv ==
  /\ BufferTypeOK
  /\ Len(buf) <= Capacity
  /\ Balance
  /\ NoSleepOverNumbers

-----------------------------------------------------------------------------
LEMMA CountsAreNat ==
  ASSUME NEW S \in {Producers, Consumers}, NEW label
  PROVE  IsFiniteSet(At(S, label)) /\ Count(S, label) \in Nat
<1>1. IsFiniteSet(At(S, label))
  BY FS_Subset DEF At
<1> QED
  BY <1>1, FS_CardinalityType DEF Count

(* A thread that goes from one label to another changes the numbers of its  *)
(* own kind at the two, and nothing else.                                   *)
LEMMA Moves ==
  ASSUME BufferTypeOK, NEW S \in {Producers, Consumers}, NEW t \in BufferThreads,
         NEW to \in Labels, NEW label \in Labels, to # bufferPc[t], BufferGoto(t, to)
  PROVE  Count(S, label)' =
           IF t \in S /\ label = to THEN Count(S, label) + 1
           ELSE IF t \in S /\ label = bufferPc[t] THEN Count(S, label) - 1
           ELSE Count(S, label)
<1>1. bufferPc' = [bufferPc EXCEPT ![t] = to] /\ S \subseteq BufferThreads
  BY DEF BufferGoto, BufferThreads
<1>2. \A u \in S : bufferPc'[u] = IF u = t THEN to ELSE bufferPc[u]
  BY <1>1 DEF BufferTypeOK
<1>3. CASE t \in S /\ label = to
  <2>1. At(S, label)' = At(S, label) \cup {t} /\ t \notin At(S, label)
    BY <1>2, <1>3 DEF At
  <2> QED
    BY <1>3, <2>1, CountsAreNat, FS_AddElement DEF Count
<1>4. CASE t \in S /\ label # to /\ label = bufferPc[t]
  <2>1. At(S, label)' = At(S, label) \ {t} /\ t \in At(S, label)
    BY <1>2, <1>4 DEF At
  <2>2. Cardinality(At(S, label) \ {t}) = Cardinality(At(S, label)) - 1
    BY <2>1, CountsAreNat, FS_RemoveElement
  <2> QED
    BY <1>4, <2>1, <2>2 DEF Count
<1>5. CASE t \notin S \/ (label # to /\ label # bufferPc[t])
  <2>1. At(S, label)' = At(S, label)
    BY <1>2, <1>5 DEF At
  <2> QED
    BY <1>5, <2>1 DEF Count
<1> QED
  BY <1>3, <1>4, <1>5

(* A thread at a label is counted there.                                    *)
LEMMA AtLeastOne ==
  ASSUME NEW S \in {Producers, Consumers}, NEW t \in S
  PROVE  Count(S, bufferPc[t]) >= 1
<1>1. At(S, bufferPc[t]) # {}
  BY DEF At
<1> QED
  BY <1>1, CountsAreNat, FS_EmptySet DEF Count

LEMMA InitIInv == BufferInit => IInv
<1> SUFFICES ASSUME BufferInit PROVE IInv
  OBVIOUS
<1>1. \A S \in {Producers, Consumers} : Count(S, "holding") = 0 /\ Count(S, "post") = 0
  <2> SUFFICES ASSUME NEW S \in {Producers, Consumers}
               PROVE  Count(S, "holding") = 0 /\ Count(S, "post") = 0
    OBVIOUS
  <2>1. At(S, "holding") = {} /\ At(S, "post") = {}
    BY DEF BufferInit, BufferThreads, At
  <2> QED
    BY <2>1, FS_EmptySet DEF Count
<1>2. Len(buf) = 0 /\ buf \in Seq(Numbers)
  BY DEF BufferInit
<1>3. Balance
  BY <1>1, <1>2 DEF BufferInit, Balance
<1>4. BufferTypeOK /\ NoSleepOverNumbers
  BY <1>2 DEF BufferInit, BufferTypeOK, NoSleepOverNumbers
<1> QED
  BY <1>2, <1>3, <1>4 DEF IInv

-----------------------------------------------------------------------------
(* What the two operations on the vector do.                                *)
LEMMA Pushing ==
  ASSUME BufferTypeOK, PushBack
  PROVE  buf' \in Seq(Numbers) /\ Len(buf') = Len(buf) + 1 /\ Len(buf) \in Nat
BY DEF BufferTypeOK, PushBack

LEMMA AllButLast ==
  ASSUME NEW T, NEW s \in Seq(T), NEW n \in Nat, n = Len(s) - 1
  PROVE  SubSeq(s, 1, n) \in Seq(T) /\ Len(SubSeq(s, 1, n)) = n
<1>1. SubSeq(s, 1, n) \in Seq(T)
  BY SMT
<1>2. Len(SubSeq(s, 1, n)) = n
  BY SMT
<1> QED
  BY <1>1, <1>2

LEMMA Popping ==
  ASSUME BufferTypeOK, PopBack, buf # << >>
  PROVE  buf' \in Seq(Numbers) /\ Len(buf') = Len(buf) - 1 /\ Len(buf) \in Nat \ {0}
<1>1. buf \in Seq(Numbers) /\ Len(buf) \in Nat \ {0} /\ Len(buf) - 1 \in Nat
  BY DEF BufferTypeOK
<1>2. buf' \in Seq(Numbers) /\ Len(buf') = Len(buf) - 1
  BY <1>1, AllButLast DEF PopBack
<1> QED
  BY <1>1, <1>2

(* producer_consumer.cpp and pthread_cond.cpp look at the size themselves.  *)
LEMMA UncountedProducerStep ==
  ASSUME IInv, NEW p \in Producers, Produce(p) \/ ProduceAndSignal(p)
  PROVE  IInv' /\ [Stack!Next]_buf
<1> USE DEF IInv
<1>1. CASE Produce(p)
  <2>1. IInv'
    BY <1>1, Pushing DEF Produce, BufferTypeOK, Balance, NoSleepOverNumbers
  <2>2. Stack!Next
    BY <1>1 DEF Produce, PushBack, Stack!Next, Stack!Put
  <2> QED
    BY <2>1, <2>2
<1>2. CASE ProduceAndSignal(p)
  <2>1. BufferTypeOK' /\ Len(buf)' <= Capacity /\ Balance'
    BY <1>2, Pushing DEF ProduceAndSignal, BufferTypeOK, Balance
  <2>2. NoSleepOverNumbers'
    BY <1>2 DEF ProduceAndSignal, BufferTypeOK, NoSleepOverNumbers
  <2>3. Stack!Next
    BY <1>2 DEF ProduceAndSignal, PushBack, Stack!Next, Stack!Put
  <2> QED
    BY <2>1, <2>2, <2>3
<1> QED
  BY <1>1, <1>2

LEMMA UncountedConsumerStep ==
  ASSUME IInv, NEW c \in Consumers,
         Consume(c) \/ ConsumeAwake(c) \/ FallAsleep(c) \/ WakeUnasked(c)
  PROVE  IInv' /\ [Stack!Next]_buf
<1> USE DEF IInv
<1>1. CASE Consume(c)
  <2>1. IInv'
    BY <1>1, Popping DEF Consume, BufferTypeOK, Balance, NoSleepOverNumbers
  <2>2. Stack!Next
    BY <1>1 DEF Consume, PopBack, Stack!Next, Stack!Pop
  <2> QED
    BY <2>1, <2>2
<1>2. CASE ConsumeAwake(c)
  <2>1. IInv'
    BY <1>2, Popping DEF ConsumeAwake, BufferTypeOK, Balance, NoSleepOverNumbers
  <2>2. Stack!Next
    BY <1>2 DEF ConsumeAwake, PopBack, Stack!Next, Stack!Pop
  <2> QED
    BY <2>1, <2>2
<1>3. CASE FallAsleep(c) \/ WakeUnasked(c)
  BY <1>3 DEF FallAsleep, WakeUnasked, BufferTypeOK, Balance, NoSleepOverNumbers
<1> QED
  BY <1>1, <1>2, <1>3

(* semaphore.cpp: a producer.                                               *)
LEMMA CountedProducerStep ==
  ASSUME IInv, NEW p \in Producers, WaitForRoom(p) \/ PushCounted(p) \/ PostNumber(p)
  PROVE  IInv' /\ [Stack!Next]_buf
<1> USE DEF IInv, Labels
<1>0. /\ p \in BufferThreads /\ p \notin Consumers /\ bufferKind = "counting"
      /\ bufferKind' = "counting"
      /\ Count(Producers, "holding") \in Nat /\ Count(Producers, "post") \in Nat
      /\ Count(Consumers, "holding") \in Nat /\ Count(Consumers, "post") \in Nat
      /\ semP \in Nat /\ semC \in Nat /\ Len(buf) \in Nat
      /\ Count(Producers, bufferPc[p]) >= 1
  BY CountsAreNat, AtLeastOne
     DEF BufferThreads, BufferTypeOK, WaitForRoom, PushCounted, PostNumber
<1>1. CASE WaitForRoom(p)
  <2>1. /\ Count(Producers, "holding")' = Count(Producers, "holding") + 1
        /\ Count(Producers, "post")' = Count(Producers, "post")
        /\ Count(Consumers, "holding")' = Count(Consumers, "holding")
        /\ Count(Consumers, "post")' = Count(Consumers, "post")
    BY <1>0, <1>1, Moves DEF WaitForRoom
  <2>2. Balance'
    BY <1>0, <1>1, <2>1 DEF WaitForRoom, Balance
  <2>3. BufferTypeOK'
    BY <1>0, <1>1 DEF WaitForRoom, BufferTypeOK, BufferGoto
  <2> QED
    BY <1>1, <2>2, <2>3 DEF WaitForRoom, NoSleepOverNumbers
<1>2. CASE PushCounted(p)
  <2>1. /\ Count(Producers, "holding")' = Count(Producers, "holding") - 1
        /\ Count(Producers, "post")' = Count(Producers, "post") + 1
        /\ Count(Consumers, "holding")' = Count(Consumers, "holding")
        /\ Count(Consumers, "post")' = Count(Consumers, "post")
    BY <1>0, <1>2, Moves DEF PushCounted
  <2>2. Len(buf) < Capacity
    BY <1>0, <1>2 DEF PushCounted, Balance
  <2>3. Len(buf') = Len(buf) + 1 /\ semP' = semP /\ semC' = semC
    BY <1>2, Pushing DEF PushCounted
  <2>4. Balance' /\ Len(buf)' <= Capacity
    BY <1>0, <2>1, <2>2, <2>3 DEF Balance
  <2>5. BufferTypeOK'
    BY <1>0, <1>2, Pushing DEF PushCounted, BufferTypeOK, BufferGoto
  <2>6. Stack!Next
    BY <1>2, <2>2 DEF PushCounted, PushBack, Stack!Next, Stack!Put
  <2> QED
    BY <1>0, <2>4, <2>5, <2>6 DEF NoSleepOverNumbers
<1>3. CASE PostNumber(p)
  <2>1. /\ Count(Producers, "holding")' = Count(Producers, "holding")
        /\ Count(Producers, "post")' = Count(Producers, "post") - 1
        /\ Count(Consumers, "holding")' = Count(Consumers, "holding")
        /\ Count(Consumers, "post")' = Count(Consumers, "post")
    BY <1>0, <1>3, Moves DEF PostNumber
  <2>2. Balance'
    BY <1>0, <1>3, <2>1 DEF PostNumber, Balance
  <2>3. semC + 1 <= Capacity
    BY <1>0, <1>3 DEF PostNumber, Balance
  <2>4. BufferTypeOK'
    BY <1>0, <1>3, <2>3 DEF PostNumber, BufferTypeOK, BufferGoto
  <2> QED
    BY <1>3, <2>2, <2>4 DEF PostNumber, NoSleepOverNumbers
<1> QED
  BY <1>1, <1>2, <1>3

(* semaphore.cpp: a consumer.                                               *)
LEMMA CountedConsumerStep ==
  ASSUME IInv, NEW c \in Consumers, WaitForNumber(c) \/ PopCounted(c) \/ PostRoom(c)
  PROVE  IInv' /\ [Stack!Next]_buf
<1> USE DEF IInv, Labels
<1>0. /\ c \in BufferThreads /\ c \notin Producers /\ bufferKind = "counting"
      /\ bufferKind' = "counting"
      /\ Count(Producers, "holding") \in Nat /\ Count(Producers, "post") \in Nat
      /\ Count(Consumers, "holding") \in Nat /\ Count(Consumers, "post") \in Nat
      /\ semP \in Nat /\ semC \in Nat /\ Len(buf) \in Nat
      /\ Count(Consumers, bufferPc[c]) >= 1
  BY CountsAreNat, AtLeastOne
     DEF BufferThreads, BufferTypeOK, WaitForNumber, PopCounted, PostRoom
<1>1. CASE WaitForNumber(c)
  <2>1. /\ Count(Consumers, "holding")' = Count(Consumers, "holding") + 1
        /\ Count(Consumers, "post")' = Count(Consumers, "post")
        /\ Count(Producers, "holding")' = Count(Producers, "holding")
        /\ Count(Producers, "post")' = Count(Producers, "post")
    BY <1>0, <1>1, Moves DEF WaitForNumber
  <2>2. Balance'
    BY <1>0, <1>1, <2>1 DEF WaitForNumber, Balance
  <2>3. BufferTypeOK'
    BY <1>0, <1>1 DEF WaitForNumber, BufferTypeOK, BufferGoto
  <2> QED
    BY <1>1, <2>2, <2>3 DEF WaitForNumber, NoSleepOverNumbers
<1>2. CASE PopCounted(c)
  <2>1. /\ Count(Consumers, "holding")' = Count(Consumers, "holding") - 1
        /\ Count(Consumers, "post")' = Count(Consumers, "post") + 1
        /\ Count(Producers, "holding")' = Count(Producers, "holding")
        /\ Count(Producers, "post")' = Count(Producers, "post")
    BY <1>0, <1>2, Moves DEF PopCounted
  <2>2. Len(buf) > 0
    BY <1>0, <1>2 DEF PopCounted, Balance
  <2>3. buf # << >>
    BY <2>2
  <2>4. Len(buf') = Len(buf) - 1 /\ semP' = semP /\ semC' = semC
    BY <1>2, <2>3, Popping DEF PopCounted
  <2>5. Balance' /\ Len(buf)' <= Capacity
    <3>1. Len(buf') = semC' + Count(Consumers, "holding")' + Count(Producers, "post")'
      BY <1>0, <2>1, <2>4 DEF Balance
    <3>2. Capacity = Len(buf') + semP' + Count(Producers, "holding")' + Count(Consumers, "post")'
      BY <1>0, <2>1, <2>4 DEF Balance
    <3>3. Len(buf') <= Capacity
      BY <1>0, <2>4 DEF Balance
    <3> QED
      BY <3>1, <3>2, <3>3 DEF Balance
  <2>6. BufferTypeOK'
    BY <1>0, <1>2, <2>3, Popping DEF PopCounted, BufferTypeOK, BufferGoto
  <2>7. Stack!Next
    BY <1>2, <2>3 DEF PopCounted, PopBack, Stack!Next, Stack!Pop
  <2> QED
    BY <1>0, <2>5, <2>6, <2>7 DEF NoSleepOverNumbers
<1>3. CASE PostRoom(c)
  <2>1. /\ Count(Consumers, "holding")' = Count(Consumers, "holding")
        /\ Count(Consumers, "post")' = Count(Consumers, "post") - 1
        /\ Count(Producers, "holding")' = Count(Producers, "holding")
        /\ Count(Producers, "post")' = Count(Producers, "post")
    BY <1>0, <1>3, Moves DEF PostRoom
  <2>2. Balance'
    BY <1>0, <1>3, <2>1 DEF PostRoom, Balance
  <2>3. semP + 1 <= Capacity
    BY <1>0, <1>3 DEF PostRoom, Balance
  <2>4. BufferTypeOK'
    BY <1>0, <1>3, <2>3 DEF PostRoom, BufferTypeOK, BufferGoto
  <2> QED
    BY <1>3, <2>2, <2>4 DEF PostRoom, NoSleepOverNumbers
<1> QED
  BY <1>1, <1>2, <1>3

LEMMA EveryStep ==
  ASSUME IInv, [BufferNext]_bufferVars
  PROVE  IInv' /\ [Stack!Next]_buf
<1>1. ASSUME NEW p \in Producers, ProducerStep(p) PROVE IInv' /\ [Stack!Next]_buf
  BY <1>1, UncountedProducerStep, CountedProducerStep DEF ProducerStep
<1>2. ASSUME NEW c \in Consumers, ConsumerStep(c) PROVE IInv' /\ [Stack!Next]_buf
  <2>1. CASE WaitForNumber(c) \/ PopCounted(c) \/ PostRoom(c)
    BY <2>1, CountedConsumerStep
  <2>2. CASE Consume(c) \/ ConsumeAwake(c) \/ FallAsleep(c) \/ WakeUnasked(c)
    BY <2>2, UncountedConsumerStep
  <2> QED
    BY <1>2, <2>1, <2>2 DEF ConsumerStep
<1>3. CASE UNCHANGED bufferVars
  BY <1>3 DEF bufferVars, IInv, BufferTypeOK, Balance, Count, At, NoSleepOverNumbers
<1> QED
  BY <1>1, <1>2, <1>3 DEF BufferNext

-----------------------------------------------------------------------------
LEMMA Invariance == BufferSpec => []IInv
<1>1. IInv /\ [BufferNext]_bufferVars => IInv'
  BY EveryStep
<1> QED
  BY InitIInv, <1>1, PTL DEF BufferSpec

(* Every variable of the three programs keeps its type.                     *)
THEOREM BufferTypeCorrect == BufferSpec => []BufferTypeOK
<1>1. IInv => BufferTypeOK
  BY DEF IInv
<1> QED
  BY Invariance, <1>1, PTL

(* pthread_cond.cpp: with any number of consumers and any spurious wakeups  *)
(* the single signal of line 43 leaves no number to sleeping consumers.     *)
THEOREM NoLostSignal == BufferSpec => []NoSleepOverNumbers
<1>1. IInv => NoSleepOverNumbers
  BY DEF IInv
<1> QED
  BY Invariance, <1>1, PTL

(* semaphore.cpp: the back() of line 58 always finds a number.              *)
THEOREM TokensHaveNumbers == BufferSpec => []NumberForEachToken
<1>1. IInv => NumberForEachToken
  <2> SUFFICES ASSUME IInv, bufferKind = "counting"
               PROVE  Len(buf) >= semC + Cardinality(At(Consumers, "holding"))
    BY DEF NumberForEachToken, At
  <2>1. /\ Count(Consumers, "holding") \in Nat /\ Count(Producers, "post") \in Nat
        /\ semC \in Nat /\ Len(buf) \in Nat
    BY CountsAreNat DEF IInv, BufferTypeOK
  <2> QED
    BY <2>1 DEF IInv, Balance, Count
<1> QED
  BY Invariance, <1>1, PTL

(* All three programs implement one abstract stack of at most BUF_SIZE      *)
(* numbers.                                                                 *)
THEOREM StackRefinement == BufferSpec => ImplementsBoundedStack
<1>1. BufferInit => Stack!Init
  BY DEF BufferInit, Stack!Init
<1>2. IInv /\ [BufferNext]_bufferVars => [Stack!Next]_buf
  BY EveryStep
<1> QED
  BY Invariance, <1>1, <1>2, PTL DEF BufferSpec, ImplementsBoundedStack, Stack!Spec
=============================================================================
