--------------------------- MODULE ProcessesProofs ---------------------------
(***************************************************************************)
(* Theorems about the programs of chapters 2 and 3, for every value of the  *)
(* constants: one section for each program that has no module of proofs of  *)
(* its own, and the suite that the run processes checks at the end.         *)
(***************************************************************************)
EXTENDS MCProcesses, BoundedBufferProofs, ReadersWriterProofs, WellFoundedInduction

-----------------------------------------------------------------------------
(* chapter 3: the life of threads                                           *)

(* How main() ended says what became of the thread it created.              *)
LifeInv ==
  /\ LifeTypeOK
  /\ mainThread = "creating" <=> childThread = "none"
  /\ childThread = "ended" => printed = Prints
  /\ inBuffer = 1 => childThread = "running" /\ printed < Prints
  /\ doubled > 0 => childThread = "killed"
  /\ childThread = "killed" => mainThread = "returned"
  /\ mainThread = "returned" => lifeKind # "exit"
  /\ mainThread = "returned" /\ lifeKind = "join" => childThread = "ended"

LEMMA LifeInvariance == LifeSpec => []LifeInv
<1>1. LifeInit => LifeInv
  BY LifeAssumption DEF LifeAssumption, LifeInit, LifeInv, LifeTypeOK
<1>2. LifeInv /\ [LifeNext]_lifeVars => LifeInv'
  <2> SUFFICES ASSUME LifeInv, [LifeNext]_lifeVars PROVE LifeInv'
    OBVIOUS
  <2> USE DEF LifeInv, LifeTypeOK
  <2>1. CASE CreateThread
    BY <2>1 DEF CreateThread
  <2>2. CASE BufferLine \/ PrintLine
    BY <2>2, LifeAssumption DEF BufferLine, PrintLine, LifeAssumption
  <2>3. CASE EndThread
    BY <2>3 DEF EndThread
  <2>4. CASE ReturnFromMain
    BY <2>4, LifeAssumption DEF ReturnFromMain, LifeAssumption
  <2>5. CASE ExitMainThread
    BY <2>5 DEF ExitMainThread
  <2>6. CASE UNCHANGED lifeVars
    BY <2>6 DEF lifeVars
  <2> QED
    BY <2>1, <2>2, <2>3, <2>4, <2>5, <2>6 DEF LifeNext
<1> QED
  BY <1>1, <1>2, PTL DEF LifeSpec

(* The question at the end of pthread_attr.cpp: a thread that is joined, or *)
(* whose creator leaves through pthread_exit(), prints each line once;      *)
(* lines are lost or doubled only where main() returns while the thread     *)
(* runs.                                                                    *)
THEOREM JoinedThreadPrintsAll == LifeSpec => []OutputOddOnlyByReturn
<1>1. LifeInv => OutputOddOnlyByReturn
  BY DEF LifeInv, LifeTypeOK, OutputOddOnlyByReturn, LifeOver
<1> QED
  BY <1>1, LifeInvariance, PTL

-----------------------------------------------------------------------------
(* chapter 2: a text in a shared mapping                                    *)

(* Who has written what by the time the other looks.                        *)
MappingInv ==
  /\ MappingTypeOK
  /\ mappingKind = "file" =>
       /\ parentAt # "write" /\ childAt # "read"
       /\ childAt = "ended" => mappedText = TextLength
       /\ textSeen \in {-1, TextLength}
  /\ mappingKind = "anon" =>
       /\ parentAt \in {"write", "wait", "ended"} /\ childAt # "write"
       /\ parentAt # "write" => mappedText = TextLength
  /\ parentAt \in {"read", "ended", "crashed"} => childAt = "ended"

LEMMA MappingInvariance == MappingSpec => []MappingInv
<1> USE MappingAssumption DEF MappingAssumption
<1>1. MappingInit => MappingInv
  BY DEF MappingInit, MappingInv, MappingTypeOK
<1>2. MappingInv /\ [MappingNext]_mappingVars => MappingInv'
  <2> SUFFICES ASSUME MappingInv, [MappingNext]_mappingVars PROVE MappingInv'
    OBVIOUS
  <2> USE DEF MappingInv, MappingTypeOK
  <2>1. CASE WriteByte
    BY <2>1 DEF WriteByte
  <2>2. CASE ChildHasWritten
    BY <2>2 DEF ChildHasWritten
  <2>3. CASE ParentHasWritten
    BY <2>3 DEF ParentHasWritten
  <2>4. CASE WaitForChild
    BY <2>4 DEF WaitForChild
  <2>5. CASE ReadAfterWait
    BY <2>5 DEF ReadAfterWait
  <2>6. CASE ReadAfterSleep
    BY <2>6 DEF ReadAfterSleep
  <2>7. CASE UNCHANGED mappingVars
    BY <2>7 DEF mappingVars
  <2> QED
    BY <2>1, <2>2, <2>3, <2>4, <2>5, <2>6, <2>7 DEF MappingNext
<1> QED
  BY <1>1, <1>2, PTL DEF MappingSpec

(* mmap.cpp prints the whole text or nothing, because wait() comes before   *)
(* the copy, and neither parent leaves a child or half a text behind.       *)
THEOREM MappedTextIsWhole == MappingSpec => []TextReadWhole
<1>1. MappingInv => TextReadWhole
  BY DEF MappingInv, MappingTypeOK, TextReadWhole
<1> QED
  BY <1>1, MappingInvariance, PTL

-----------------------------------------------------------------------------
(* chapter 2: the shared segment                                            *)

(* The segment with the key has a creator that will still ask for its       *)
(* removal, and only processes that use a segment are attached to one.      *)
SegmentInv ==
  /\ SegmentTypeOK
  /\ keyed # 0 => \E c \in Creators : got[c] = keyed /\ userPc[c] \in {"attach", "use", "remove"}
  /\ \A u \in Users : attached[u] # 0 => userPc[u] = "use"

LEMMA SegmentStep ==
  ASSUME SegmentInv, NEW u \in Users, GetSegment(u) \/ Attach(u) \/ Detach(u) \/ RemoveSegment(u)
  PROVE  SegmentInv'
<1> USE DEF SegmentInv, SegmentTypeOK, UserGoto, Users
<1>1. CASE GetSegment(u)
  <2>1. CASE u \in Creators /\ keyed = 0 /\ made' = made + 1 /\ keyed' = made + 1
             /\ got' = [got EXCEPT ![u] = made + 1]
    <3>1. SegmentTypeOK'
      BY <1>1, <2>1 DEF GetSegment
    <3>2. got'[u] = keyed' /\ userPc'[u] = "attach"
      BY <1>1, <2>1 DEF GetSegment
    <3> QED
      BY <1>1, <2>1, <3>1, <3>2 DEF GetSegment
  <2>2. CASE u \in Creators /\ keyed # 0 /\ UNCHANGED <<made, keyed, got>>
    BY <1>1, <2>2 DEF GetSegment
  <2>3. CASE u \in Lookers /\ got' = [got EXCEPT ![u] = keyed] /\ UNCHANGED <<made, keyed>>
    BY <1>1, <2>3, SegmentAssumption DEF GetSegment, SegmentAssumption
  <2> QED
    BY <1>1, <2>1, <2>2, <2>3 DEF GetSegment
<1>2. CASE Attach(u)
  <2>1. CASE Exists(got[u])
    BY <1>2, <2>1 DEF Attach
  <2>2. CASE ~Exists(got[u])
    <3>1. keyed # 0 => got[u] # keyed
      BY <2>2 DEF Exists
    <3> QED
      BY <1>2, <2>2, <3>1 DEF Attach
  <2> QED
    BY <2>1, <2>2
<1>3. CASE Detach(u)
  BY <1>3 DEF Detach
<1>4. CASE RemoveSegment(u)
  BY <1>4 DEF RemoveSegment
<1> QED
  BY <1>1, <1>2, <1>3, <1>4

LEMMA SegmentInvariance == SegmentSpec => []SegmentInv
<1>1. SegmentInit => SegmentInv
  BY DEF SegmentInit, SegmentInv, SegmentTypeOK
<1>2. SegmentInv /\ [SegmentNext]_segmentVars => SegmentInv'
  <2>1. SegmentInv /\ UNCHANGED segmentVars => SegmentInv'
    BY DEF segmentVars, SegmentInv, SegmentTypeOK
  <2> QED
    BY <2>1, SegmentStep DEF SegmentNext
<1> QED
  BY <1>1, <1>2, PTL DEF SegmentSpec

(* shared_mm.cpp and shared_mm_read.cpp, any number of each and in any      *)
(* order, leave no segment behind once all have ended, although readers     *)
(* remove it too and processes that got none crash.                         *)
THEOREM SegmentsAreRemoved == SegmentSpec => []NoSegmentLeft
<1>1. SegmentInv => NoSegmentLeft
  BY DEF SegmentInv, SegmentTypeOK, NoSegmentLeft, Exists, Users
<1> QED
  BY <1>1, SegmentInvariance, PTL
-----------------------------------------------------------------------------
(* chapter 2: pipes                                                         *)

(* What was written is in the pipe or was read; pipe.cpp counts neither.    *)
StreamInv ==
  /\ StreamTypeOK
  /\ streamKind # "talk" => written = piped + received
  /\ streamKind = "talk" => writerPc \in {"write", "read"} /\ readerPc \in {"write", "read"}
  /\ OneMessageInPipe

LEMMA StreamInvariance == StreamInit /\ [][StreamNext]_streamVars => []StreamInv
<1> USE StreamAssumption DEF StreamAssumption
<1>1. StreamInit => StreamInv
  BY DEF StreamInit, StreamInv, StreamTypeOK, OneMessageInPipe
<1>2. StreamInv /\ [StreamNext]_streamVars => StreamInv'
  <2> SUFFICES ASSUME StreamInv, [StreamNext]_streamVars PROVE StreamInv'
    OBVIOUS
  <2> USE DEF StreamInv, StreamTypeOK, OneMessageInPipe
  <2>1. CASE MakeTheFifo \/ OpenToWrite
    BY <2>1 DEF MakeTheFifo, OpenToWrite
  <2>2. CASE WriteMessage
    BY <2>2 DEF WriteMessage
  <2>3. CASE CloseWriter
    BY <2>3 DEF CloseWriter
  <2>4. CASE ChildWrites
    BY <2>4 DEF ChildWrites
  <2>11. CASE ParentWrites
    BY <2>11 DEF ParentWrites
  <2>9. CASE ChildReads
    BY <2>9 DEF ChildReads
  <2>10. CASE ParentReads
    BY <2>10 DEF ParentReads
  <2>5. CASE OpenCalled \/ OpenToRead \/ CloseWriteEnd
    BY <2>5 DEF OpenCalled, OpenToRead, CloseWriteEnd
  <2>6. CASE ReadMessages
    BY <2>6 DEF ReadMessages
  <2>7. CASE ReadEnd
    BY <2>7 DEF ReadEnd
  <2>8. CASE UNCHANGED streamVars
    BY <2>8 DEF streamVars
  <2> QED
    BY <2>1, <2>2, <2>3, <2>4, <2>5, <2>6, <2>7, <2>8, <2>9, <2>10, <2>11 DEF StreamNext, WriterStep, ReaderStep
<1> QED
  BY <1>1, <1>2, PTL

(* The parent and the child of pipe.cpp, which share one pipe and may each  *)
(* take back what they wrote, never both wait and never both write.         *)
THEOREM PipeHasOneMessage == StreamSpec => []OneMessageInPipe
<1>1. StreamInv => OneMessageInPipe
  BY DEF StreamInv
<1> QED
  BY <1>1, StreamInvariance, PTL DEF StreamSpec

(* A writer that is not done holds the write end; a reader that has begun   *)
(* holds none, and has ended only after all was written and read.           *)
EndSeen ==
  streamKind # "talk" =>
    /\ writerPc # "read" /\ readerPc # "write"
    /\ writerPc \in {"open", "write"} => "writer" \in writeEnds
    /\ writerPc = "closed" => written = Messages /\ "writer" \notin writeEnds
    /\ readerPc \in {"read", "ended"} => writerPc # "start" /\ "reader" \notin writeEnds
    /\ readerPc = "ended" => received = Messages
    /\ streamKind = "fifo" => "reader" \notin writeEnds
    /\ streamKind = "child" => writerPc # "start"

(* read() returns 0 to the reader of read_fifo.cpp or psaux.cpp only when   *)
(* it has everything, and nothing but an unread message or an open writer   *)
(* keeps it from returning 0: the safety half of StreamIsReadToEnd.         *)
THEOREM EndOfStreamIsTheEnd ==
  StreamSpec =>
    [](streamKind # "talk" =>
         /\ readerPc = "ended" => received = Messages
         /\ readerPc = "read" /\ writerPc = "closed" => writeEnds = {})
<1>1. StreamInit => EndSeen
  BY DEF StreamInit, EndSeen
<1>2. StreamInv /\ EndSeen /\ [StreamNext]_streamVars => EndSeen'
  <2> SUFFICES ASSUME StreamInv, EndSeen, [StreamNext]_streamVars, streamKind # "talk"
               PROVE  EndSeen'
    BY DEF EndSeen, StreamNext, WriterStep, ReaderStep, streamVars, MakeTheFifo, OpenToWrite,
       WriteMessage, CloseWriter, ChildWrites, ChildReads, OpenCalled, OpenToRead,
       CloseWriteEnd, ReadMessages, ReadEnd, ParentReads, ParentWrites
  <2> USE StreamAssumption DEF StreamAssumption, StreamInv, StreamTypeOK, EndSeen
  <2>1. CASE MakeTheFifo \/ OpenToWrite
    BY <2>1 DEF MakeTheFifo, OpenToWrite
  <2>2. CASE WriteMessage
    BY <2>2 DEF WriteMessage
  <2>3. CASE CloseWriter
    BY <2>3 DEF CloseWriter
  <2>4. CASE OpenCalled \/ OpenToRead \/ CloseWriteEnd
    BY <2>4 DEF OpenCalled, OpenToRead, CloseWriteEnd
  <2>5. CASE ReadMessages
    BY <2>5 DEF ReadMessages
  <2>6. CASE ReadEnd
    BY <2>6 DEF ReadEnd
  <2>7. CASE UNCHANGED streamVars
    BY <2>7 DEF streamVars
  <2>8. ~ChildWrites /\ ~ChildReads /\ ~ParentReads /\ ~ParentWrites
    BY DEF ChildWrites, ChildReads, ParentReads, ParentWrites
  <2> QED
    BY <2>1, <2>2, <2>3, <2>4, <2>5, <2>6, <2>7, <2>8 DEF StreamNext, WriterStep, ReaderStep
<1>3. StreamInv /\ EndSeen =>
        (streamKind # "talk" =>
           /\ readerPc = "ended" => received = Messages
           /\ readerPc = "read" /\ writerPc = "closed" => writeEnds = {})
  BY DEF StreamInv, StreamTypeOK, EndSeen
<1> QED
  BY <1>1, <1>2, <1>3, StreamInvariance, PTL DEF StreamSpec

-----------------------------------------------------------------------------
(* chapter 2: timers and signals                                            *)

(* How far each program is when its timer runs, and when ^C is blocked. The *)
(* daemon's timer of two ticks counts down what is left of them until its   *)
(* handler is there.                                                        *)
TimerInv ==
  /\ TimerTypeOK
  /\ signalKind = "catch" => (statement > 0 => alarmCaught) /\ (statement < 2 => dueIn = 0)
  /\ signalKind = "daemon" =>
       /\ statement < 2 => ~alarmCaught
       /\ statement = 0 => dueIn = 0
       /\ statement = 1 /\ Alive => dueIn = 2 - delay /\ delay < 2
       /\ statement = 2 => alarmCaught
  /\ signalKind \in {"itimer", "alarm", "mask"} => statement # 1
  /\ signalKind = "mask" =>
       /\ dueIn = 0
       /\ statement = 0 => rounds = 0
       /\ blocked <=> statement = 2 /\ rounds <= UnblockRound
  /\ signalKind # "mask" => ~pendingInt /\ killedBy # "SIGINT"
  /\ SignalsKillInTime

(* The variables that hold a truth value, and those that hold anything else.*)
TimerFlagsOK == alarmCaught \in BOOLEAN /\ blocked \in BOOLEAN /\ pendingInt \in BOOLEAN

TimerRestOK ==
  /\ signalKind \in {"catch", "itimer", "alarm", "daemon", "mask"}
  /\ statement \in 0..2
  /\ dueIn \in 0..3
  /\ delay \in 0..MaxDelay
  /\ rounds \in 0..UnblockRound + 1
  /\ killedBy \in {"nothing", "SIGALRM", "SIGINT"}

LEMMA TimerTypeSplit == TimerTypeOK <=> TimerFlagsOK /\ TimerRestOK
BY Zenon DEF TimerTypeOK, TimerFlagsOK, TimerRestOK

LEMMA TimerFlags ==
  ASSUME TimerFlagsOK, [TimerNext]_timerVars
  PROVE  TimerFlagsOK'
<1> USE DEF TimerFlagsOK
<1>1. CASE CatchAlarm
  BY <1>1, Zenon DEF CatchAlarm, Done
<1>2. CASE StartTimer
  BY <1>2, Zenon DEF StartTimer, Done
<1>3. CASE Tick
  BY <1>3, Zenon DEF Tick
<1>4. CASE BlockInterrupt
  BY <1>4, Zenon DEF BlockInterrupt, Done
<1>5. CASE Interrupt
  BY <1>5, Zenon DEF Interrupt
<1>6. CASE MaskRound
  <2>1. (blocked /\ rounds # UnblockRound) \in BOOLEAN
    BY Zenon
  <2> QED
    BY <1>6, <2>1, Zenon DEF MaskRound
<1>7. CASE UNCHANGED timerVars
  BY <1>7, Zenon DEF timerVars
<1> QED
  BY <1>1, <1>2, <1>3, <1>4, <1>5, <1>6, <1>7, Zenon DEF TimerNext

LEMMA TimerRest ==
  ASSUME TimerRestOK, [TimerNext]_timerVars
  PROVE  TimerRestOK'
<1> USE TimersAssumption DEF TimersAssumption, TimerRestOK
<1>1. CASE CatchAlarm \/ BlockInterrupt
  BY <1>1 DEF CatchAlarm, BlockInterrupt, Done
<1>2. CASE StartTimer
  BY <1>2 DEF StartTimer, FirstDue, Done
<1>3. CASE Tick
  BY <1>3 DEF Tick, Alive
<1>4. CASE Interrupt \/ MaskRound
  BY <1>4 DEF Interrupt, MaskRound
<1>5. CASE UNCHANGED timerVars
  BY <1>5 DEF timerVars
<1> QED
  BY <1>1, <1>2, <1>3, <1>4, <1>5 DEF TimerNext

LEMMA TimerStarts == TimerInit => TimerTypeOK
<1> SUFFICES ASSUME TimerInit PROVE TimerTypeOK
  OBVIOUS
<1>1. TimerFlagsOK
  BY Zenon DEF TimerInit, TimerFlagsOK
<1>2. 0 \in 0..2 /\ 0 \in 0..3 /\ 0 \in 0..MaxDelay /\ 0 \in 0..UnblockRound + 1
  BY TimersAssumption DEF TimersAssumption
<1>3. TimerRestOK
  BY <1>2, Zenon DEF TimerInit, TimerRestOK
<1> QED
  BY <1>1, <1>3, TimerTypeSplit, Zenon

LEMMA TimerTypeInvariance == TimerSpec => []TimerTypeOK
<1>1. TimerTypeOK /\ [TimerNext]_timerVars => TimerTypeOK'
  <2>1. TimerTypeOK' <=> TimerFlagsOK' /\ TimerRestOK'
    BY TimerTypeSplit, PTL
  <2> QED
    BY <2>1, TimerTypeSplit, TimerFlags, TimerRest
<1> QED
  BY <1>1, TimerStarts, PTL DEF TimerSpec

LEMMA TimerStep ==
  ASSUME TimerInv, TimerTypeOK', [TimerNext]_timerVars
  PROVE  TimerInv'
<1> USE TimersAssumption DEF TimersAssumption, TimerInv, SignalsKillInTime, Alive
<1>0. TimerRestOK
  BY TimerTypeSplit, Zenon
<1> HIDE DEF TimerTypeOK
<1>1. CASE CatchAlarm
  <2>1. alarmCaught'
    BY <1>1, Zenon DEF CatchAlarm
  <2> QED
    BY <1>0, <1>1, <2>1 DEF CatchAlarm, Done, TimerRestOK
<1>2. CASE StartTimer
  BY <1>0, <1>2 DEF StartTimer, FirstDue, Done, TimerRestOK
<1>3. CASE Tick
  <2> USE <1>0, <1>3 DEF TimerRestOK
  <2>1. /\ UNCHANGED <<signalKind, statement, alarmCaught, blocked, pendingInt, rounds>>
        /\ killedBy = "nothing" /\ signalKind # "mask"
        /\ delay' = IF statement = 2 THEN 0 ELSE IF delay < MaxDelay THEN delay + 1 ELSE MaxDelay
        /\ dueIn' = IF dueIn = 1 /\ signalKind # "alarm" THEN 2 ELSE IF dueIn > 0 THEN dueIn - 1 ELSE 0
        /\ killedBy' = IF dueIn = 1 /\ ~alarmCaught THEN "SIGALRM" ELSE "nothing"
    BY DEF Tick
  <2>2. CASE signalKind = "daemon"
    BY <2>1, <2>2
  <2>3. CASE signalKind # "daemon"
    BY <2>1, <2>3
  <2> QED
    BY <2>2, <2>3
<1>4. CASE BlockInterrupt
  <2>1. blocked'
    BY <1>4, Zenon DEF BlockInterrupt
  <2> QED
    BY <1>0, <1>4, <2>1 DEF BlockInterrupt, Done, TimerRestOK
<1>5. CASE Interrupt
  <2>1. blocked \/ ~pendingInt'
    BY <1>5, Zenon DEF Interrupt
  <2> QED
    BY <1>0, <1>5, <2>1 DEF Interrupt, TimerRestOK
<1>6. CASE MaskRound
  <2>1. blocked' <=> blocked /\ rounds # UnblockRound
    BY <1>6, Zenon DEF MaskRound
  <2>2. killedBy' = IF pendingInt /\ ~blocked' THEN "SIGINT" ELSE "nothing"
    BY <1>6 DEF MaskRound
  <2>3. rounds' = rounds + 1 /\ signalKind = "mask" /\ statement = 2 /\ rounds <= UnblockRound
        /\ UNCHANGED <<signalKind, statement, alarmCaught, dueIn, delay, pendingInt>>
        /\ killedBy = "nothing"
    BY <1>6 DEF MaskRound
  <2> QED
    BY <1>0, <2>1, <2>2, <2>3 DEF TimerRestOK
<1>7. CASE UNCHANGED timerVars
  BY <1>0, <1>7 DEF timerVars
<1> QED
  BY <1>1, <1>2, <1>3, <1>4, <1>5, <1>6, <1>7 DEF TimerNext

(* A process with a handler for SIGALRM survives its timer; the daemon,     *)
(* which starts the timer first, dies if and only if two seconds pass       *)
(* between its two statements, however long the scheduler keeps it waiting; *)
(* sig_set.cpp dies of ^C before it blocks or after its round UnblockRound, *)
(* and of a signal that was kept until then.                                *)
THEOREM SignalsKillOnlyInTime == TimerSpec => []SignalsKillInTime
<1>1. TimerInit => TimerInv
  <2> SUFFICES ASSUME TimerInit PROVE TimerInv
    OBVIOUS
  <2>1. ~alarmCaught /\ ~blocked /\ ~pendingInt
    BY Zenon DEF TimerInit
  <2> QED
    BY <2>1, TimerStarts, TimersAssumption
    DEF TimersAssumption, TimerInit, TimerInv, SignalsKillInTime, Alive
<1>2. TimerInv /\ TimerTypeOK' /\ [TimerNext]_timerVars => TimerInv'
  BY TimerStep
<1>3. TimerInv => SignalsKillInTime
  BY DEF TimerInv
<1> QED
  BY <1>1, <1>2, <1>3, TimerTypeInvariance, PTL DEF TimerSpec

-----------------------------------------------------------------------------
(* chapter 2: children and their parent                                     *)

LEMMA ReaperStarts == ReaperInit => ReaperTypeOK
<1> SUFFICES ASSUME ReaperInit PROVE ReaperTypeOK
  OBVIOUS
<1>1. 0 \in 0..Forks
  BY ForksAssumption DEF ForksAssumption
<1> QED
  BY <1>1, Zenon DEF ReaperInit, ReaperTypeOK

LEMMA ReaperTypeInvariance == ReaperInit /\ [][ReaperNext]_reaperVars => []ReaperTypeOK
<1> USE ForksAssumption DEF ForksAssumption, ReaperTypeOK, ChildIs
<1>1. ReaperTypeOK /\ [ReaperNext]_reaperVars => ReaperTypeOK'
  <2> SUFFICES ASSUME ReaperTypeOK, [ReaperNext]_reaperVars PROVE ReaperTypeOK'
    OBVIOUS
  <2>1. CASE Fork
    <3>1. attempts' \in 0..Forks
      BY <2>1 DEF Fork
    <3>2. child' \in [Children -> {"none", "running", "zombie", "reaped"}]
      BY <2>1 DEF Fork
    <3>3. lastFork' \in BOOLEAN
      BY <2>1, Zenon DEF Fork
    <3> QED
      BY <2>1, <3>1, <3>2, <3>3, Zenon DEF Fork
  <2>2. CASE LeaveForkLoop \/ EnterHandler \/ HandlerReturn \/ AllCollected
    BY <2>2 DEF LeaveForkLoop, EnterHandler, HandlerReturn, AllCollected
  <2>3. ASSUME NEW c \in Children, HandlerReap(c) \/ CollectChild(c) \/ ChildEnds(c)
        PROVE  ReaperTypeOK'
    BY <2>3 DEF HandlerReap, CollectChild, ChildEnds
  <2>4. CASE UNCHANGED reaperVars
    BY <2>4 DEF reaperVars
  <2> QED
    BY <2>1, <2>2, <2>3, <2>4 DEF ReaperNext, ParentStep
<1> QED
  BY <1>1, ReaperStarts, PTL

(* A zombie of sig_child.cpp has a signal pending for it, or the handler is *)
(* running, whose loop ends only when there is none.                        *)
NoZombieUnnoticed ==
  reaperKind = "handler" /\ parentPc # "gone" /\ Zombies # {} => sigChld \/ inHandler

(* However many SIGCHLD merge into one and wherever the parent is when they *)
(* come, no child that ended goes unnoticed: the safety half of             *)
(* EveryChildReaped, for the program with the handler.                      *)
THEOREM NoSignalLost == ReaperSpec => []NoZombieUnnoticed
<1>1. ReaperInit => NoZombieUnnoticed
  BY DEF ReaperInit, NoZombieUnnoticed, Zombies
<1>2. ReaperTypeOK /\ NoZombieUnnoticed /\ [ReaperNext]_reaperVars => NoZombieUnnoticed'
  <2> SUFFICES ASSUME ReaperTypeOK, NoZombieUnnoticed, [ReaperNext]_reaperVars,
                      reaperKind' = "handler", parentPc' # "gone", Zombies' # {}
               PROVE  sigChld' \/ inHandler'
    BY Zenon DEF NoZombieUnnoticed
  <2>0. child \in [Children -> {"none", "running", "zombie", "reaped"}]
    BY Zenon DEF ReaperTypeOK
  <2>1. CASE Fork
    <3>1. Zombies' \subseteq Zombies
      BY <2>0, <2>1 DEF Fork, ChildIs, Zombies
    <3>2. UNCHANGED <<reaperKind, parentPc, inHandler, sigChld>>
      BY <2>1, Zenon DEF Fork
    <3>3. Zombies # {}
      BY <3>1
    <3> QED
      BY <3>2, <3>3, Zenon DEF NoZombieUnnoticed
  <2>2. CASE LeaveForkLoop
    <3>1. lastFork
      BY <2>2, Zenon DEF LeaveForkLoop
    <3>2. UNCHANGED <<reaperKind, inHandler>> /\ Zombies' = Zombies /\ parentPc = "forking"
          /\ "forking" # "gone"
      BY <2>2 DEF LeaveForkLoop, Zombies
    <3>3. sigChld' = (sigChld /\ lastFork)
      BY <2>2, Zenon DEF LeaveForkLoop
    <3> QED
      BY <3>1, <3>2, <3>3, Zenon DEF NoZombieUnnoticed
  <2>3. CASE EnterHandler
    BY <2>3, Zenon DEF EnterHandler
  <2>4. CASE HandlerReturn
    BY <2>4 DEF HandlerReturn, Zombies
  <2>5. ASSUME NEW c \in Children, HandlerReap(c)
        PROVE  inHandler'
    BY <2>5, Zenon DEF HandlerReap
  <2>6. ASSUME NEW c \in Children, ChildEnds(c)
        PROVE  sigChld'
    BY <2>6, Zenon DEF ChildEnds
  <2>7. CASE AllCollected \/ \E c \in Children : CollectChild(c)
    BY <2>7 DEF AllCollected, CollectChild
  <2>8. CASE UNCHANGED reaperVars
    BY <2>8, Zenon DEF reaperVars, NoZombieUnnoticed, Zombies
  <2> QED
    BY <2>1, <2>2, <2>3, <2>4, <2>5, <2>6, <2>7, <2>8, Zenon DEF ReaperNext, ParentStep
<1> QED
  BY <1>1, <1>2, ReaperTypeInvariance, PTL DEF ReaperSpec

-----------------------------------------------------------------------------
(* chapter 3: the ticket sale. First, sums over sets of sellers.            *)

(* The element a fold over a set takes next.                                *)
Chosen(T) == CHOOSE x \in T : TRUE

(* F gives each set of sellers the sum of f over it, added up in the order  *)
(* in which the elements are chosen.                                        *)
AddsUp(F, f) ==
  F = [T \in SUBSET Sellers |-> IF T = {} THEN 0 ELSE f[Chosen(T)] + F[T \ {Chosen(T)}]]

(* The function behind MapThenSumSet.                                       *)
Sums(f) == CHOOSE F : AddsUp(F, f)

LEMMA SellersFinite ==
  /\ IsFiniteSet(Sellers)
  /\ \A T \in SUBSET Sellers : IsFiniteSet(T) /\ Cardinality(T) \in Nat
<1>1. IsFiniteSet(Sellers)
  BY SaleAssumption, FS_Interval DEF SaleAssumption, Sellers
<1> QED
  BY <1>1, FS_Subset, FS_CardinalityType

LEMMA LeastExists ==
  ASSUME NEW S, S \subseteq Nat, S # {}
  PROVE  \E n \in S : \A m \in S : n <= m
<1> DEFINE R == OpToRel(<, Nat)
<1>1. \E n \in S : \A m \in S : ~ (<<m, n>> \in R)
  BY NatLessThanWellFounded, WFMin
<1>2. \A n, m \in Nat : <<m, n>> \in R <=> m < n
  BY DEF OpToRel
<1> HIDE DEF R
<1>3. PICK n \in S : \A m \in S : ~ (<<m, n>> \in R)
  BY <1>1
<1>4. ASSUME NEW m \in S
      PROVE  n <= m
  <2>1. m \in Nat /\ n \in Nat /\ ~ (<<m, n>> \in R)
    BY <1>3
  <2>2. ~ (m < n)
    BY <1>2, <2>1
  <2> QED
    BY <2>1, <2>2
<1> QED
  BY <1>4

(* What holds of a set of sellers when it holds of all its proper subsets   *)
(* holds of every set of sellers.                                           *)
LEMMA SubsetInduction ==
  ASSUME NEW B,
         \A T \in SUBSET Sellers : (\A U \in SUBSET T : U # T => U \in B) => T \in B
  PROVE  \A T \in SUBSET Sellers : T \in B
<1> SUFFICES ASSUME NEW T0 \in SUBSET Sellers, T0 \notin B PROVE FALSE
  OBVIOUS
<1> DEFINE Rest == {T \in SUBSET Sellers : T \notin B}
           Sizes == {Cardinality(T) : T \in Rest}
<1>1. Sizes \subseteq Nat /\ Sizes # {}
  BY SellersFinite
<1>2. PICK n \in Sizes : \A m \in Sizes : n <= m
  BY <1>1, LeastExists
<1>3. PICK T \in Rest : Cardinality(T) = n
  BY <1>2
<1>4. ASSUME NEW U \in SUBSET T, U # T
      PROVE  U \in B
  <2>1. Cardinality(U) <= Cardinality(T) /\ Cardinality(U) # Cardinality(T)
    BY <1>3, <1>4, SellersFinite, FS_Subset
  <2>2. U \in SUBSET Sellers /\ Cardinality(U) \in Nat /\ Cardinality(T) \in Nat
    BY <1>3, SellersFinite
  <2>3. Cardinality(U) \notin Sizes
    BY <1>2, <1>3, <2>1, <2>2
  <2> QED
    BY <2>2, <2>3
<1> QED
  BY <1>3, <1>4

(* The recursion has a solution: one that is right for sets of up to n      *)
(* elements gives one that is right for n + 1.                              *)
LEMMA SumsExist ==
  ASSUME NEW f \in [Sellers -> Nat]
  PROVE  AddsUp(Sums(f), f) /\ Sums(f) \in [SUBSET Sellers -> Nat]
<1> DEFINE
      Sum(F, T) == IF T = {} THEN 0 ELSE f[Chosen(T)] + F[T \ {Chosen(T)}]
      Right(F, n) == \A T \in SUBSET Sellers : Cardinality(T) <= n => F[T] = Sum(F, T)
      Fs == [SUBSET Sellers -> Nat]
      Missing == {n \in Nat : ~ \E F \in Fs : Right(F, n)}
<1>1. \A T \in SUBSET Sellers : T # {} => Chosen(T) \in T /\ Chosen(T) \in Sellers
  BY DEF Chosen
<1>2. \A T \in SUBSET Sellers : \A F \in Fs : Sum(F, T) \in Nat
  BY <1>1
<1>3. \A T \in SUBSET Sellers : T # {} => Cardinality(T \ {Chosen(T)}) = Cardinality(T) - 1
  BY <1>1, SellersFinite, FS_RemoveElement
<1>4. \A T \in SUBSET Sellers : Cardinality(T) = 0 <=> T = {}
  BY SellersFinite, FS_EmptySet
<1>5. ASSUME NEW n \in Nat, NEW F \in Fs, Right(F, n)
      PROVE  \E G \in Fs : Right(G, n + 1)
  <2> DEFINE G == [T \in SUBSET Sellers |-> Sum(F, T)]
  <2>1. G \in Fs
    BY <1>2
  <2>2. ASSUME NEW T \in SUBSET Sellers, Cardinality(T) <= n + 1, T # {}
        PROVE  G[T] = f[Chosen(T)] + G[T \ {Chosen(T)}]
    <3>1. T \ {Chosen(T)} \in SUBSET Sellers /\ Cardinality(T \ {Chosen(T)}) <= n
      BY <1>3, <2>2, SellersFinite
    <3>2. F[T \ {Chosen(T)}] = G[T \ {Chosen(T)}]
      BY <1>5, <3>1
    <3> QED
      BY <2>2, <3>2
  <2>3. Right(G, n + 1)
    BY <2>2
  <2> QED
    BY <2>1, <2>3
<1>6. Missing = {}
  <2> SUFFICES ASSUME Missing # {} PROVE FALSE
    OBVIOUS
  <2>1. PICK n \in Missing : \A m \in Missing : n <= m
    BY LeastExists
  <2>2. n # 0
    <3>1. [T \in SUBSET Sellers |-> 0] \in Fs /\ Right([T \in SUBSET Sellers |-> 0], 0)
      BY <1>4, SellersFinite
    <3> QED
      BY <3>1
  <2>3. n - 1 \in Nat /\ n - 1 \notin Missing
    <3>1. n \in Nat
      BY <2>1
    <3>2. n - 1 \in Nat /\ ~(n <= n - 1)
      BY <2>2, <3>1
    <3> HIDE DEF Missing
    <3> QED
      BY <2>1, <3>2
  <2>4. PICK F \in Fs : Right(F, n - 1)
    BY <2>3
  <2>5. \E G \in Fs : Right(G, (n - 1) + 1)
    BY <1>5, <2>3, <2>4
  <2>6. n \in Nat /\ ~ \E G \in Fs : Right(G, n)
    BY <2>1
  <2>7. (n - 1) + 1 = n
    BY <2>6
  <2> HIDE DEF Right
  <2> QED
    BY <2>5, <2>6, <2>7
<1>7. PICK F \in Fs : Right(F, Cardinality(Sellers))
  BY <1>6, SellersFinite
<1>8. F = [T \in SUBSET Sellers |-> Sum(F, T)]
  <2>1. \A T \in SUBSET Sellers : Cardinality(T) <= Cardinality(Sellers)
    BY SellersFinite, FS_Subset
  <2> QED
    BY <1>7, <2>1
<1>9. AddsUp(F, f)
  BY <1>8 DEF AddsUp
<1>10. AddsUp(Sums(f), f)
  BY <1>9 DEF Sums
<1>11. \A T \in SUBSET Sellers : T \in {U \in SUBSET Sellers : Sums(f)[U] \in Nat}
  <2> DEFINE B == {U \in SUBSET Sellers : Sums(f)[U] \in Nat}
  <2>1. ASSUME NEW T \in SUBSET Sellers, \A U \in SUBSET T : U # T => U \in B
        PROVE  T \in B
    <3>1. Sums(f)[T] = IF T = {} THEN 0 ELSE f[Chosen(T)] + Sums(f)[T \ {Chosen(T)}]
      BY <1>10 DEF AddsUp
    <3>2. T # {} => T \ {Chosen(T)} \in B /\ f[Chosen(T)] \in Nat
      BY <1>1, <2>1
    <3> QED
      BY <3>1, <3>2
  <2> HIDE DEF B
  <2>2. \A T \in SUBSET Sellers : T \in B
    BY <2>1, SubsetInduction
  <2> QED
    BY <2>2 DEF B
<1> QED
  BY <1>10, <1>11 DEF AddsUp

(* The sum does not depend on the order: any element can be taken first.    *)
LEMMA TakeAny ==
  ASSUME NEW f \in [Sellers -> Nat], NEW T \in SUBSET Sellers, NEW x \in T
  PROVE  Sums(f)[T] = f[x] + Sums(f)[T \ {x}]
<1> DEFINE F == Sums(f)
           B == {U \in SUBSET Sellers : \A y \in U : F[U] = f[y] + F[U \ {y}]}
<1>1. \A U \in SUBSET Sellers : F[U] = IF U = {} THEN 0 ELSE f[Chosen(U)] + F[U \ {Chosen(U)}]
  BY SumsExist DEF AddsUp
<1>2. \A U \in SUBSET Sellers : F[U] \in Nat
  BY SumsExist
<1> HIDE DEF F
<1>3. ASSUME NEW U \in SUBSET Sellers, \A V \in SUBSET U : V # U => V \in B
      PROVE  U \in B
  <2> SUFFICES ASSUME NEW y \in U PROVE F[U] = f[y] + F[U \ {y}]
    OBVIOUS
  <2> DEFINE c == Chosen(U)
  <2>1. c \in U /\ F[U] = f[c] + F[U \ {c}]
    BY <1>1 DEF Chosen
  <2> HIDE DEF c
  <2>2. CASE y = c
    BY <2>1, <2>2
  <2>3. CASE y # c
    <3>1. F[U \ {c}] = f[y] + F[(U \ {c}) \ {y}]
      BY <1>3, <2>1, <2>3
    <3>2. F[U \ {y}] = f[c] + F[(U \ {y}) \ {c}]
      BY <1>3, <2>1, <2>3
    <3>3. (U \ {c}) \ {y} = (U \ {y}) \ {c}
      OBVIOUS
    <3>4. PICK rest \in Nat : rest = F[(U \ {y}) \ {c}]
      BY <1>2
    <3>5. PICK fc \in Nat, fy \in Nat : fc = f[c] /\ fy = f[y]
      BY <2>1
    <3>6. F[U \ {c}] = fy + rest /\ F[U \ {y}] = fc + rest /\ F[U] = fc + F[U \ {c}]
      BY <2>1, <3>1, <3>2, <3>3, <3>4, <3>5
    <3>7. fc + (fy + rest) = fy + (fc + rest)
      OBVIOUS
    <3> QED
      BY <3>5, <3>6, <3>7
  <2> QED
    BY <2>2, <2>3
<1> HIDE DEF B
<1>4. \A U \in SUBSET Sellers : U \in B
  BY <1>3, SubsetInduction
<1> QED
  BY <1>4 DEF B, F

(* One more for one seller is one more for every set it belongs to.         *)
LEMMA OneMore ==
  ASSUME NEW f \in [Sellers -> Nat], NEW g \in [Sellers -> Nat], NEW s \in Sellers,
         \A r \in Sellers : g[r] = f[r] + (IF r = s THEN 1 ELSE 0), NEW T \in SUBSET Sellers
  PROVE  Sums(g)[T] = Sums(f)[T] + (IF s \in T THEN 1 ELSE 0)
<1> DEFINE F == Sums(f)
           G == Sums(g)
           B == {U \in SUBSET Sellers : G[U] = F[U] + (IF s \in U THEN 1 ELSE 0)}
<1>1. \A U \in SUBSET Sellers : F[U] = IF U = {} THEN 0 ELSE f[Chosen(U)] + F[U \ {Chosen(U)}]
  BY SumsExist DEF AddsUp
<1>2. \A U \in SUBSET Sellers : G[U] = IF U = {} THEN 0 ELSE g[Chosen(U)] + G[U \ {Chosen(U)}]
  BY SumsExist DEF AddsUp
<1>3. \A U \in SUBSET Sellers : F[U] \in Nat
  BY SumsExist
<1> HIDE DEF F, G
<1>4. ASSUME NEW U \in SUBSET Sellers, \A V \in SUBSET U : V # U => V \in B
      PROVE  U \in B
  <2>1. CASE U = {}
    <3>1. F[U] = 0 /\ G[U] = 0 /\ s \notin U
      BY <1>1, <1>2, <2>1
    <3> QED
      BY <3>1
  <2>2. CASE U # {}
    <3> DEFINE c == Chosen(U)
    <3>1. c \in U /\ F[U] = f[c] + F[U \ {c}] /\ G[U] = g[c] + G[U \ {c}]
      BY <1>1, <1>2, <2>2 DEF Chosen
    <3> HIDE DEF c
    <3>2. G[U \ {c}] = F[U \ {c}] + (IF s \in U \ {c} THEN 1 ELSE 0)
      BY <1>4, <3>1
    <3>3. g[c] = f[c] + (IF s = c THEN 1 ELSE 0)
      BY <3>1
    <3>4. f[c] \in Nat /\ F[U \ {c}] \in Nat
      BY <1>3, <3>1
    <3> QED
      BY <3>1, <3>2, <3>3, <3>4
  <2> QED
    BY <2>1, <2>2
<1> HIDE DEF B
<1>5. \A U \in SUBSET Sellers : U \in B
  BY <1>4, SubsetInduction
<1> QED
  BY <1>5 DEF B, F, G

(* Nothing sold adds up to nothing.                                         *)
LEMMA NothingSold ==
  ASSUME NEW T \in SUBSET Sellers
  PROVE  Sums([s \in Sellers |-> 0])[T] = 0
<1> DEFINE f == [s \in Sellers |-> 0]
           F == Sums(f)
           B == {U \in SUBSET Sellers : F[U] = 0}
<1>1. f \in [Sellers -> Nat]
  OBVIOUS
<1>2. \A U \in SUBSET Sellers : F[U] = IF U = {} THEN 0 ELSE f[Chosen(U)] + F[U \ {Chosen(U)}]
  BY <1>1, SumsExist DEF AddsUp
<1> HIDE DEF F
<1>3. ASSUME NEW U \in SUBSET Sellers, \A V \in SUBSET U : V # U => V \in B
      PROVE  U \in B
  <2>1. CASE U = {}
    BY <1>2, <2>1
  <2>2. CASE U # {}
    <3> DEFINE c == Chosen(U)
    <3>1. c \in U /\ F[U] = f[c] + F[U \ {c}]
      BY <1>2, <2>2 DEF Chosen
    <3> HIDE DEF c
    <3>2. F[U \ {c}] = 0 /\ f[c] = 0
      BY <1>3, <3>1
    <3> QED
      BY <3>1, <3>2
  <2> QED
    BY <2>1, <2>2
<1> HIDE DEF B
<1>4. \A U \in SUBSET Sellers : U \in B
  BY <1>3, SubsetInduction
<1> QED
  BY <1>4 DEF B, F

LEMMA SumIsFold == MapThenSumSet(LAMBDA s : sell[s], Sellers) = Sums(sell)[Sellers]
BY DEF MapThenSumSet, MapThenFoldSet, Sums, AddsUp, Chosen

(* The mutex is held by the seller at work, a ticket it found is still      *)
(* there, who has left found none, and main() has the sum of those it has   *)
(* joined, whose counts no longer change.                                   *)
SaleInv ==
  /\ SaleTypeOK
  /\ ticketsNum >= 0
  /\ \A s \in Sellers :
       /\ sellerPc[s] \in {"test", "sell"} <=> saleMutex = s
       /\ sellerPc[s] = "sell" => ticketsNum > 0
       /\ sellerPc[s] = "exited" => ticketsNum = 0
  /\ \A s \in 1..joined : sellerPc[s] = "exited"
  /\ ticketsNum + Sums(sell)[Sellers] = TicketsNum
  /\ saleSum = Sums(sell)[1..joined]

LEMMA SaleStarts == SaleInit => SaleInv
<1> SUFFICES ASSUME SaleInit PROVE SaleInv
  OBVIOUS
<1> USE SaleAssumption DEF SaleAssumption, SaleInit
<1>1. Sums(sell)[Sellers] = 0 /\ Sums(sell)[{}] = 0
  BY NothingSold
<1>2. 1..joined = {}
  OBVIOUS
<1>3. SaleTypeOK
  BY DEF SaleTypeOK, Sellers, Unlocked
<1> QED
  BY <1>1, <1>2, <1>3 DEF SaleInv, Sellers, Unlocked

LEMMA SellerSells ==
  ASSUME SaleInv, NEW s \in Sellers, Sell(s)
  PROVE  SaleInv'
<1>1. SaleTypeOK' /\ ticketsNum' = ticketsNum - 1 /\ ticketsNum > 0 /\ saleMutex = s
  BY DEF Sell, SaleInv, SaleTypeOK, Unlocked
<1>2. s \notin 1..joined
  BY DEF Sell, SaleInv
<1>3. 1..joined \in SUBSET Sellers
  BY SaleAssumption DEF SaleAssumption, SaleInv, SaleTypeOK, Sellers
<1>4. sell \in [Sellers -> Nat] /\ sell' \in [Sellers -> Nat] /\ sell' = [sell EXCEPT ![s] = @ + 1]
  BY DEF Sell, SaleInv, SaleTypeOK
<1> DEFINE f == sell
           g == sell'
<1>5. f \in [Sellers -> Nat] /\ g \in [Sellers -> Nat]
  BY <1>4
<1>6. \A r \in Sellers : g[r] = f[r] + (IF r = s THEN 1 ELSE 0)
  BY <1>4
<1> HIDE DEF f, g
<1>7. \A T \in SUBSET Sellers : Sums(g)[T] = Sums(f)[T] + (IF s \in T THEN 1 ELSE 0)
  BY <1>5, <1>6, OneMore
<1>8. Sums(f) \in [SUBSET Sellers -> Nat]
  BY <1>5, SumsExist
<1>9. Sums(sell')[Sellers] = Sums(sell)[Sellers] + 1
  BY <1>7 DEF f, g
<1>10. Sums(sell')[1..joined] = Sums(sell)[1..joined]
  <2>1. Sums(g)[1..joined] = Sums(f)[1..joined] + 0
    BY <1>2, <1>3, <1>7
  <2>2. Sums(f)[1..joined] \in Nat
    BY <1>3, <1>8
  <2> QED
    BY <2>1, <2>2 DEF f, g
<1>11. Sums(sell)[Sellers] \in Nat
  BY <1>8 DEF f
<1>12. ticketsNum' + Sums(sell')[Sellers] = TicketsNum
  BY <1>1, <1>9, <1>11 DEF SaleInv, SaleTypeOK
<1>13. saleSum' = Sums(sell')[1..joined'] /\ joined' = joined
  BY <1>10 DEF SaleInv, Sell
<1>14. \A r \in Sellers :
         /\ sellerPc'[r] \in {"test", "sell"} <=> saleMutex' = r
         /\ sellerPc'[r] = "sell" => ticketsNum' > 0
         /\ sellerPc'[r] = "exited" => ticketsNum' = 0
  BY <1>1, SaleAssumption DEF SaleAssumption, SaleInv, Sell, SaleTypeOK, Unlocked, Sellers
<1>15. \A r \in 1..joined' : sellerPc'[r] = "exited"
  BY <1>2, <1>3, <1>13 DEF SaleInv, Sell, SaleTypeOK
<1> QED
  BY <1>1, <1>12, <1>13, <1>14, <1>15 DEF SaleInv, SaleTypeOK

LEMMA SellerMoves ==
  ASSUME SaleInv, NEW s \in Sellers, TryLock(s) \/ FindTickets(s) \/ SoldOut(s)
  PROVE  SaleInv'
<1> USE SaleAssumption DEF SaleAssumption, SaleInv
<1>1. SaleTypeOK'
  BY DEF TryLock, FindTickets, SoldOut, SaleTypeOK, Unlocked
<1>2. UNCHANGED <<ticketsNum, sell, joined, saleSum>>
  BY DEF TryLock, FindTickets, SoldOut
<1>3. Sums(sell') = Sums(sell)
  BY <1>2
<1>4. \A r \in Sellers :
         /\ sellerPc'[r] \in {"test", "sell"} <=> saleMutex' = r
         /\ sellerPc'[r] = "sell" => ticketsNum' > 0
         /\ sellerPc'[r] = "exited" => ticketsNum' = 0
  <2>1. CASE TryLock(s)
    BY <2>1 DEF TryLock, SaleTypeOK, Unlocked, Sellers
  <2>2. CASE FindTickets(s)
    BY <2>2 DEF FindTickets, SaleTypeOK, Unlocked, Sellers
  <2>3. CASE SoldOut(s)
    BY <2>3 DEF SoldOut, SaleTypeOK, Unlocked, Sellers
  <2> QED
    BY <2>1, <2>2, <2>3
<1>5. \A r \in 1..joined' : sellerPc'[r] = "exited"
  <2>1. \A r \in Sellers : sellerPc[r] = "exited" => sellerPc'[r] = "exited"
    BY DEF TryLock, FindTickets, SoldOut, SaleTypeOK
  <2>2. 1..joined \subseteq Sellers
    BY DEF SaleTypeOK, Sellers
  <2> QED
    BY <1>2, <2>1, <2>2
<1> QED
  BY <1>1, <1>2, <1>3, <1>4, <1>5

LEMMA SellerJoined ==
  ASSUME SaleInv, JoinSeller
  PROVE  SaleInv'
<1> DEFINE next == joined + 1
<1>1. next \in Sellers /\ 1..next \in SUBSET Sellers /\ next \in 1..next /\ (1..next) \ {next} = 1..joined
  BY SaleAssumption DEF SaleAssumption, SaleInv, JoinSeller, SaleTypeOK, Sellers
<1>2. joined' = next /\ saleSum' = saleSum + sell[next] /\ UNCHANGED <<ticketsNum, saleMutex, sellerPc, sell>>
  BY DEF JoinSeller
<1> HIDE DEF next
<1>3. sell \in [Sellers -> Nat]
  BY DEF SaleInv, SaleTypeOK
<1>4. Sums(sell)[1..next] = sell[next] + Sums(sell)[1..joined]
  <2>1. Sums(sell)[1..next] = sell[next] + Sums(sell)[(1..next) \ {next}]
    BY <1>1, <1>3, TakeAny
  <2> QED
    BY <1>1, <2>1
<1>5. saleSum' = Sums(sell')[1..joined']
  <2>1. Sums(sell') = Sums(sell) /\ saleSum \in Nat /\ sell[next] \in Nat
    BY <1>1, <1>2, <1>3 DEF SaleInv, SaleTypeOK
  <2>2. saleSum = Sums(sell)[1..joined]
    BY DEF SaleInv
  <2>3. saleSum + sell[next] = sell[next] + saleSum
    BY <2>1
  <2> QED
    BY <1>2, <1>4, <2>1, <2>2, <2>3
<1>6. SaleTypeOK'
  BY <1>1, <1>2, <1>3 DEF SaleInv, SaleTypeOK, Sellers
<1>7. \A s \in 1..joined' : sellerPc'[s] = "exited"
  BY <1>2 DEF SaleInv, JoinSeller, SaleTypeOK, next
<1>8. ticketsNum' + Sums(sell')[Sellers] = TicketsNum
  BY <1>2 DEF SaleInv
<1> QED
  BY <1>2, <1>5, <1>6, <1>7, <1>8 DEF SaleInv

LEMMA SaleInvariance == SaleSpec => []SaleInv
<1>1. SaleInv /\ [SaleNext]_saleVars => SaleInv'
  <2>1. SaleInv /\ UNCHANGED saleVars => SaleInv'
    <3> SUFFICES ASSUME SaleInv, UNCHANGED saleVars PROVE SaleInv'
      OBVIOUS
    <3>1. Sums(sell') = Sums(sell)
      BY DEF saleVars
    <3> QED
      BY <3>1 DEF saleVars, SaleInv, SaleTypeOK
  <2> QED
    BY <2>1, SellerSells, SellerMoves, SellerJoined DEF SaleNext, SellerStep
<1> QED
  BY <1>1, SaleStarts, PTL DEF SaleSpec

(* case_sell_tickets.cpp, with any number of threads and tickets: no ticket *)
(* is sold twice or lost, and main() prints the number there were.          *)
THEOREM TicketsAreSoldOnce == SaleSpec => []EveryTicketSoldOnce
<1>1. SaleInv => EveryTicketSoldOnce
  <2> SUFFICES ASSUME SaleInv PROVE EveryTicketSoldOnce
    OBVIOUS
  <2>1. SaleOver => saleSum = TicketsNum
    <3> SUFFICES ASSUME SaleOver PROVE saleSum = TicketsNum
      OBVIOUS
    <3>1. 1..joined = Sellers /\ 1 \in Sellers
      BY SaleAssumption DEF SaleAssumption, SaleOver, Sellers
    <3>2. ticketsNum = 0
      BY <3>1 DEF SaleInv
    <3>3. sell \in [Sellers -> Nat]
      BY DEF SaleInv, SaleTypeOK
    <3>4. Sums(sell)[Sellers] \in Nat
      BY <3>3, SumsExist
    <3> QED
      BY <3>1, <3>2, <3>4 DEF SaleInv
  <2> QED
    BY <2>1, SumIsFold DEF SaleInv, EveryTicketSoldOnce
<1> QED
  BY <1>1, SaleInvariance, PTL

-----------------------------------------------------------------------------
(* chapter 2: the chat                                                      *)

(* p has done with access() and mkfifo() of f.                              *)
Passed(p, f) == stage[p] > f \/ talkerPc[p] \in {"open", "compose", "read"}

(* Whoever loses the race for a FIFO lost it to a partner that went on.     *)
RaceHasWinner ==
  \A p \in Talkers :
    /\ talkerPc[p] = "left" => Passed(Partner(p), stage[p])
    /\ talkerPc[p] = "mkfifo" /\ stage[p] \in fifoMade => Passed(Partner(p), stage[p])

NothingSent == fifo[1] = << >> /\ fifo[2] = << >>

(* A is the first to speak, and counts as about to speak before it has got  *)
(* past its open() calls, as B counts as reading.                           *)
OneOfThemSpeaks ==
  \/ talkerPc["A"] # "read" /\ talkerPc["B"] # "compose" /\ NothingSent
  \/ talkerPc["A"] = "read" /\ talkerPc["B"] = "compose" /\ NothingSent
  \/ talkerPc["A"] = "read" /\ talkerPc["B"] # "compose" /\ \E f \in 1..2 : fifo[f] # << >> /\ fifo[3 - f] = << >>
  \/ talkerPc["A"] = "read" /\ talkerPc["B"] # "compose" /\ NothingSent /\ emptySent

ChatInv == ChatTypeOK /\ RaceHasWinner /\ OneOfThemSpeaks

LEMMA BytesAre ==
  ASSUME NEW s
  PROVE  s \in Bytes <=> s \in Seq(Talkers) /\ Len(s) <= MaxLine
<1> USE ChatAssumption DEF ChatAssumption
<1>1. ASSUME s \in Bytes
      PROVE  s \in Seq(Talkers) /\ Len(s) <= MaxLine
  <2>1. PICK n \in 0..MaxLine : s \in [1..n -> Talkers]
    BY <1>1 DEF Bytes
  <2> QED
    BY <2>1
<1>2. ASSUME s \in Seq(Talkers), Len(s) <= MaxLine
      PROVE  s \in Bytes
  <2>1. s \in [1..Len(s) -> Talkers] /\ Len(s) \in 0..MaxLine
    BY <1>2, LenProperties
  <2> QED
    BY <2>1 DEF Bytes
<1> QED
  BY <1>1, <1>2

(* What Send puts into the FIFO, which is empty by then.                    *)
LEMMA LineSent ==
  ASSUME ChatTypeOK, OneOfThemSpeaks, NEW p \in Talkers, NEW n \in 0..MaxLine, Send(p, n)
  PROVE  \E text \in Bytes :
           /\ fifo' = [fifo EXCEPT ![FifoToWrite(p)] = text]
           /\ emptySent' = (emptySent \/ text = << >>)
<1> DEFINE kept == IF p = "A" THEN << >> ELSE talkerBuf[p]
           line == [i \in 1..n |-> p]
           rest == SubSeq(kept, n + 1, Len(kept))
           text == line \o rest
<1>1. n \in Nat /\ n <= MaxLine /\ MaxLine \in Nat
  BY ChatAssumption DEF ChatAssumption
<1>2. kept \in Seq(Talkers) /\ Len(kept) <= MaxLine
  <2>1. talkerBuf[p] \in Bytes
    BY DEF ChatTypeOK
  <2>2. << >> \in Seq(Talkers) /\ Len(<< >>) <= MaxLine
    BY <1>1
  <2> QED
    BY <2>1, <2>2, BytesAre
<1>3. line \in Seq(Talkers) /\ Len(line) = n
  BY <1>1
<1> HIDE DEF kept, line
<1>4. rest \in Seq(Talkers) /\ Len(rest) = IF n < Len(kept) THEN Len(kept) - n ELSE 0
  BY <1>1, <1>2
<1> HIDE DEF rest
<1>5. text \in Seq(Talkers) /\ Len(text) = n + Len(rest) /\ Len(kept) \in Nat
  BY <1>2, <1>3, <1>4
<1>6. text \in Bytes
  <2>1. Len(text) <= MaxLine
    BY <1>1, <1>2, <1>4, <1>5
  <2> HIDE DEF text
  <2> QED
    BY <1>5, <2>1, BytesAre
<1>7. fifo' = [fifo EXCEPT ![FifoToWrite(p)] = @ \o text] /\ emptySent' = (emptySent \/ text = << >>)
  BY DEF Send, kept, line, rest
<1>8. fifo[FifoToWrite(p)] = << >>
  BY DEF Send, OneOfThemSpeaks, NothingSent, FifoToWrite, FifoToRead, Partner, Talkers
<1>9. << >> \o text = text
  BY <1>5
<1> QED
  BY <1>6, <1>7, <1>8, <1>9

LEMMA ChatFlag ==
  ASSUME ChatTypeOK, OneOfThemSpeaks, NEW p \in Talkers, ChatStep(p)
  PROVE  emptySent' \in BOOLEAN
<1>1. CASE Access(p)
  BY <1>1, Zenon DEF Access, ChatTypeOK
<1>2. CASE MakeFifo(p)
  BY <1>2, Zenon DEF MakeFifo, ChatTypeOK
<1>3. CASE OpenFifo(p)
  BY <1>3, Zenon DEF OpenFifo, ChatTypeOK
<1>4. CASE Receive(p)
  BY <1>4, Zenon DEF Receive, ChatTypeOK
<1>5. ASSUME NEW n \in 0..MaxLine, Send(p, n)
      PROVE  emptySent' \in BOOLEAN
  <2>1. PICK text \in Bytes : emptySent' = (emptySent \/ text = << >>)
    BY <1>5, LineSent
  <2>2. (emptySent \/ text = << >>) \in BOOLEAN
    BY Zenon
  <2> QED
    BY <2>1, <2>2, Zenon
<1> QED
  BY <1>1, <1>2, <1>3, <1>4, <1>5 DEF ChatStep

(* The types of all but the flag.                                           *)
ChatRestOK ==
  /\ fifoMade \subseteq 1..2
  /\ talkerPc \in [Talkers -> {"access", "mkfifo", "open", "compose", "read", "left"}]
  /\ stage \in [Talkers -> 1..2]
  /\ fifo \in [1..2 -> Bytes]
  /\ talkerBuf \in [Talkers -> Bytes]

LEMMA EmptyLine == << >> \in Bytes
<1>1. << >> \in Seq(Talkers) /\ Len(<< >>) = 0
  OBVIOUS
<1>2. 0 <= MaxLine
  BY ChatAssumption DEF ChatAssumption
<1> QED
  BY <1>1, <1>2, BytesAre

LEMMA FifosOf ==
  ASSUME NEW p \in Talkers
  PROVE  /\ FifoToRead(p) \in 1..2 /\ FifoToWrite(p) \in 1..2 /\ Partner(p) \in Talkers
         /\ p = "A" => FifoToRead(p) = 1 /\ FifoToWrite(p) = 2 /\ Partner(p) = "B"
         /\ p = "B" => FifoToRead(p) = 2 /\ FifoToWrite(p) = 1 /\ Partner(p) = "A"
         /\ \A k \in 1..2 : OpenOrder(p, k) = k
BY DEF Talkers, FifoToRead, FifoToWrite, Partner, OpenOrder

LEMMA FifoDone ==
  ASSUME ChatRestOK, NEW p \in Talkers, NextFifo(p)
  PROVE  /\ stage' \in [Talkers -> 1..2]
         /\ talkerPc' \in [Talkers -> {"access", "mkfifo", "open", "compose", "read", "left"}]
         /\ stage[p] = 1 => stage'[p] = 2 /\ talkerPc'[p] = "access"
         /\ stage[p] = 2 => stage'[p] = 1 /\ talkerPc'[p] = "open"
         /\ \A r \in Talkers : r # p => stage'[r] = stage[r] /\ talkerPc'[r] = talkerPc[r]
<1>1. stage[p] \in 1..2 /\ 3 - stage[p] \in 1..2
  BY DEF ChatRestOK
<1> QED
  BY <1>1 DEF ChatRestOK, NextFifo, ChatGoto

LEMMA ChatTypes ==
  ASSUME ChatRestOK, ChatTypeOK, OneOfThemSpeaks, NEW p \in Talkers, ChatStep(p)
  PROVE  ChatRestOK'
<1> USE DEF ChatRestOK, ChatGoto
<1> HIDE DEF ChatTypeOK
<1>1. CASE Access(p)
  BY <1>1 DEF Access, NextFifo
<1>2. CASE MakeFifo(p)
  <2>1. CASE stage[p] \notin fifoMade
    <3>1. stage[p] \in 1..2 /\ fifoMade' = fifoMade \cup {stage[p]}
          /\ NextFifo(p) /\ UNCHANGED <<fifo, talkerBuf>>
      BY <1>2, <2>1 DEF MakeFifo
    <3> QED
      BY <3>1, FifoDone
  <2>2. CASE stage[p] \in fifoMade
    BY <1>2, <2>2 DEF MakeFifo
  <2> QED
    BY <2>1, <2>2
<1>3. CASE OpenFifo(p)
  BY <1>3 DEF OpenFifo
<1>4. CASE Receive(p)
  BY <1>4, EmptyLine, FifosOf DEF Receive
<1>5. ASSUME NEW n \in 0..MaxLine, Send(p, n)
      PROVE  ChatRestOK'
  <2>1. PICK text \in Bytes : fifo' = [fifo EXCEPT ![FifoToWrite(p)] = text]
    BY <1>5, LineSent
  <2>2. fifo' \in [1..2 -> Bytes]
    BY <2>1, FifosOf
  <2>3. talkerBuf' \in [Talkers -> Bytes]
    BY <1>5, EmptyLine DEF Send
  <2> QED
    BY <1>5, <2>2, <2>3 DEF Send
<1> QED
  BY <1>1, <1>2, <1>3, <1>4, <1>5 DEF ChatStep

LEMMA ChatRace ==
  ASSUME ChatRestOK, RaceHasWinner, NEW p \in Talkers, ChatStep(p)
  PROVE  RaceHasWinner'
<1> DEFINE q == Partner(p)
<1>0. q \in Talkers /\ q # p /\ Partner(q) = p /\ \A r \in Talkers : r = p \/ r = q
  BY DEF Partner, Talkers
<1> HIDE DEF q
<1>1. talkerPc[q] = talkerPc'[q] /\ stage[q] = stage'[q]
  BY <1>0 DEF ChatStep, Access, MakeFifo, OpenFifo, Receive, Send, NextFifo, ChatGoto, ChatRestOK
<1>2. \A f \in 1..2 : Passed(q, f)' <=> Passed(q, f)
  BY <1>1 DEF Passed
<1>3. \A f \in 1..2 : Passed(p, f) => Passed(p, f)'
  <2>1. CASE NextFifo(p) /\ stage[p] = 1
    <3>1. stage'[p] = 2 /\ talkerPc'[p] = "access"
      BY <2>1, FifoDone
    <3>2. ~OpenFifo(p) /\ ~Receive(p) /\ ~(\E n \in 0..MaxLine : Send(p, n))
      BY <3>1 DEF OpenFifo, Receive, Send, ChatGoto, ChatRestOK
    <3>3. talkerPc[p] \in {"access", "mkfifo"}
      BY <3>2 DEF ChatStep, Access, MakeFifo
    <3> QED
      BY <2>1, <3>1, <3>3 DEF Passed
  <2>2. CASE NextFifo(p) /\ stage[p] = 2
    BY <2>2, FifoDone DEF Passed
  <2>3. CASE ~NextFifo(p) /\ (Access(p) \/ MakeFifo(p))
    BY <2>3 DEF Access, MakeFifo, ChatGoto, ChatRestOK, Passed
  <2>4. CASE OpenFifo(p) \/ Receive(p) \/ (\E n \in 0..MaxLine : Send(p, n))
    BY <2>4 DEF OpenFifo, Receive, Send, ChatGoto, ChatRestOK, Passed
  <2>5. stage[p] = 1 \/ stage[p] = 2
    BY DEF ChatRestOK
  <2> QED
    BY <2>1, <2>2, <2>3, <2>4, <2>5 DEF ChatStep
<1>4. stage[p] \in 1..2 /\ stage[q] \in 1..2
  BY <1>0 DEF ChatRestOK
<1>5. /\ talkerPc'[q] = "left" => Passed(p, stage[q])'
      /\ talkerPc'[q] = "mkfifo" /\ stage'[q] \in fifoMade' => Passed(p, stage[q])'
  <2>1. talkerPc[q] = "left" => Passed(p, stage[q])'
    BY <1>0, <1>1, <1>3, <1>4 DEF RaceHasWinner, Passed
  <2>2. ASSUME talkerPc[q] = "mkfifo", stage[q] \in fifoMade'
        PROVE  Passed(p, stage[q])'
    <3>1. CASE stage[q] \in fifoMade
      BY <1>0, <1>1, <1>3, <1>4, <2>2, <3>1 DEF RaceHasWinner, Passed
    <3>2. CASE stage[q] \notin fifoMade
      <4>1. MakeFifo(p) /\ stage[q] = stage[p] /\ stage[p] \notin fifoMade
        BY <2>2, <3>2 DEF ChatStep, Access, MakeFifo, OpenFifo, Receive, Send
      <4> QED
        BY <1>1, <1>4, <4>1 DEF MakeFifo, NextFifo, ChatGoto, ChatRestOK, Passed
    <3> QED
      BY <3>1, <3>2
  <2> QED
    BY <1>1, <2>1, <2>2
<1>6. /\ talkerPc'[p] = "left" => Passed(q, stage[p])'
      /\ talkerPc'[p] = "mkfifo" /\ stage'[p] \in fifoMade' => Passed(q, stage[p])'
  <2>1. CASE MakeFifo(p)
    <3>1. CASE stage[p] \in fifoMade
      <4>1. Passed(q, stage[p]) /\ stage'[p] = stage[p]
        BY <2>1, <3>1 DEF RaceHasWinner, MakeFifo, q
      <4>2. talkerPc'[p] = "left"
        BY <2>1, <3>1 DEF MakeFifo, ChatGoto, ChatRestOK
      <4> QED
        BY <1>1, <4>1, <4>2 DEF Passed
    <3>2. CASE stage[p] \notin fifoMade
      BY <2>1, <3>2 DEF MakeFifo, NextFifo, ChatGoto, ChatRestOK
    <3> QED
      BY <3>1, <3>2
  <2>2. CASE Access(p)
    BY <2>2 DEF Access, NextFifo, ChatGoto, ChatRestOK
  <2>3. CASE OpenFifo(p) \/ Receive(p) \/ (\E n \in 0..MaxLine : Send(p, n))
    BY <2>3 DEF OpenFifo, Receive, Send, ChatGoto, ChatRestOK
  <2> QED
    BY <2>1, <2>2, <2>3 DEF ChatStep
<1> QED
  BY <1>0, <1>5, <1>6 DEF RaceHasWinner, q

LEMMA ChatTurn ==
  ASSUME ChatTypeOK, ChatRestOK, OneOfThemSpeaks, NEW p \in Talkers, ChatStep(p)
  PROVE  OneOfThemSpeaks'
<1> HIDE DEF ChatTypeOK
<1>0. p = "A" \/ p = "B"
  BY DEF Talkers
<1>1. CASE Access(p) \/ MakeFifo(p)
  <2>1. talkerPc[p] \in {"access", "mkfifo"} /\ UNCHANGED <<fifo, emptySent>>
    BY <1>1 DEF Access, MakeFifo
  <2>2. \A r \in Talkers : r # p => talkerPc'[r] = talkerPc[r]
    BY <1>1 DEF Access, MakeFifo, NextFifo, ChatGoto, ChatRestOK
  <2>3. talkerPc'[p] \notin {"compose", "read"}
    <3>1. CASE NextFifo(p)
      <4>1. stage[p] = 1 \/ stage[p] = 2
        BY DEF ChatRestOK
      <4> QED
        BY <3>1, <4>1, FifoDone
    <3>2. CASE ~NextFifo(p)
      BY <1>1, <3>2 DEF Access, MakeFifo, ChatGoto, ChatRestOK
    <3> QED
      BY <3>1, <3>2
  <2> QED
    BY <1>0, <2>1, <2>2, <2>3 DEF OneOfThemSpeaks, NothingSent, Talkers
<1>2. CASE OpenFifo(p)
  <2>1. talkerPc[p] = "open" /\ UNCHANGED <<fifo, emptySent>>
    BY <1>2 DEF OpenFifo
  <2>2. \A r \in Talkers : r # p => talkerPc'[r] = talkerPc[r]
    BY <1>2 DEF OpenFifo, ChatGoto, ChatRestOK
  <2>3. talkerPc'[p] = "open" \/ talkerPc'[p] = IF p = "A" THEN "compose" ELSE "read"
    BY <2>1, <1>2 DEF OpenFifo, ChatGoto, ChatRestOK
  <2> QED
    BY <1>0, <2>1, <2>2, <2>3 DEF OneOfThemSpeaks, NothingSent, Talkers
<1>3. CASE Receive(p)
  BY <1>0, <1>3, FifosOf DEF Receive, ChatGoto, ChatRestOK, OneOfThemSpeaks, NothingSent, Talkers
<1>4. ASSUME NEW n \in 0..MaxLine, Send(p, n)
      PROVE  OneOfThemSpeaks'
  <2>1. PICK text \in Bytes :
          /\ fifo' = [fifo EXCEPT ![FifoToWrite(p)] = text]
          /\ emptySent' = (emptySent \/ text = << >>)
    BY <1>4, LineSent
  <2>2. text = << >> => emptySent'
    BY <2>1, Zenon
  <2>3. talkerPc[p] = "compose" /\ talkerPc' = [talkerPc EXCEPT ![p] = "read"]
    BY <1>4 DEF Send, ChatGoto
  <2>4. fifo' = [fifo EXCEPT ![FifoToWrite(p)] = text]
    BY <2>1
  <2> QED
    BY <1>0, <2>2, <2>3, <2>4, FifosOf DEF ChatRestOK, OneOfThemSpeaks, NothingSent, Talkers
<1> QED
  BY <1>1, <1>2, <1>3, <1>4 DEF ChatStep

LEMMA ChatTypeSplit == ChatTypeOK <=> ChatRestOK /\ emptySent \in BOOLEAN
BY Zenon DEF ChatTypeOK, ChatRestOK

LEMMA ChatStarts == ChatInit => ChatInv
<1> SUFFICES ASSUME ChatInit PROVE ChatInv
  OBVIOUS
<1>1. ChatRestOK
  BY EmptyLine DEF ChatInit, ChatRestOK
<1>2. emptySent \in BOOLEAN
  BY Zenon DEF ChatInit
<1>3. ChatTypeOK
  BY <1>1, <1>2, ChatTypeSplit, Zenon
<1>4. RaceHasWinner /\ OneOfThemSpeaks
  BY DEF ChatInit, RaceHasWinner, OneOfThemSpeaks, NothingSent, Talkers
<1> QED
  BY <1>3, <1>4 DEF ChatInv

LEMMA ChatInvariance == ChatSpec => []ChatInv
<1>1. ChatInv /\ [ChatNext]_chatVars => ChatInv'
  <2> SUFFICES ASSUME ChatInv, [ChatNext]_chatVars PROVE ChatInv'
    OBVIOUS
  <2>0. ChatTypeOK' <=> ChatRestOK' /\ (emptySent \in BOOLEAN)'
    BY ChatTypeSplit, PTL
  <2>1. ASSUME NEW p \in Talkers, ChatStep(p)
        PROVE  ChatInv'
    <3>1. ChatTypeOK /\ ChatRestOK /\ RaceHasWinner /\ OneOfThemSpeaks
      BY ChatTypeSplit, Zenon DEF ChatInv
    <3>2. ChatRestOK'
      BY <2>1, <3>1, ChatTypes
    <3>3. (emptySent \in BOOLEAN)'
      BY <2>1, <3>1, ChatFlag
    <3>4. RaceHasWinner'
      BY <2>1, <3>1, ChatRace
    <3>5. OneOfThemSpeaks'
      BY <2>1, <3>1, ChatTurn
    <3> QED
      BY <2>0, <3>2, <3>3, <3>4, <3>5, Zenon DEF ChatInv
  <2>2. CASE UNCHANGED chatVars
    BY <2>2, Zenon DEF chatVars, ChatInv, ChatTypeOK, RaceHasWinner, Passed, OneOfThemSpeaks, NothingSent
  <2> QED
    BY <2>1, <2>2 DEF ChatNext
<1> QED
  BY <1>1, ChatStarts, PTL DEF ChatSpec

(* chatA.cpp and chatB.cpp stop for ever only after an empty line or when   *)
(* one of them lost the race between access() and mkfifo(); they never both *)
(* lose it, never wait for each other in open(), and one is always to speak.*)
THEOREM ChatGoesOn == ChatSpec => []ChatStopsForAReason
<1>1. ChatInv => ChatStopsForAReason
  <2> SUFFICES ASSUME ChatInv PROVE ChatStopsForAReason
    OBVIOUS
  <2>0. ChatRestOK /\ RaceHasWinner /\ OneOfThemSpeaks
    BY ChatTypeSplit, Zenon DEF ChatInv
  <2>1. \E p \in Talkers : talkerPc[p] # "left"
    <3> SUFFICES ASSUME \A p \in Talkers : talkerPc[p] = "left" PROVE FALSE
      OBVIOUS
    <3>1. stage["A"] \in 1..2 /\ stage["B"] \in 1..2
      BY <2>0 DEF ChatRestOK, Talkers
    <3>2. stage["B"] > stage["A"] /\ stage["A"] > stage["B"]
      BY <2>0 DEF RaceHasWinner, Passed, Partner, Talkers
    <3> QED
      BY <3>1, <3>2
  <2>2. (\A p \in Talkers : Talking(p)) =>
          LET toSpeak == {p \in Talkers : talkerPc[p] = "compose"}
              sent == {f \in 1..2 : fifo[f] # << >>}
          IN  \/ \E p \in Talkers : toSpeak = {p} /\ sent = {}
              \/ \E f \in 1..2 : toSpeak = {} /\ sent = {f}
              \/ toSpeak = {} /\ sent = {} /\ emptySent
    <3> SUFFICES ASSUME \A p \in Talkers : Talking(p)
                 PROVE  \/ \E p \in Talkers : /\ {r \in Talkers : talkerPc[r] = "compose"} = {p}
                                              /\ {f \in 1..2 : fifo[f] # << >>} = {}
                        \/ \E f \in 1..2 : /\ {r \in Talkers : talkerPc[r] = "compose"} = {}
                                           /\ {g \in 1..2 : fifo[g] # << >>} = {f}
                        \/ /\ {r \in Talkers : talkerPc[r] = "compose"} = {}
                           /\ {f \in 1..2 : fifo[f] # << >>} = {}
                           /\ emptySent
      OBVIOUS
    <3>1. talkerPc["A"] \in {"compose", "read"} /\ talkerPc["B"] \in {"compose", "read"}
      BY DEF Talking, Talkers
    <3>2. NothingSent => {f \in 1..2 : fifo[f] # << >>} = {}
      BY DEF NothingSent
    <3>3. CASE talkerPc["A"] # "read" /\ talkerPc["B"] # "compose" /\ NothingSent
      <4>1. {r \in Talkers : talkerPc[r] = "compose"} = {"A"}
        BY <3>1, <3>3 DEF Talkers
      <4> QED
        BY <3>2, <3>3, <4>1 DEF Talkers
    <3>4. CASE talkerPc["A"] = "read" /\ talkerPc["B"] = "compose" /\ NothingSent
      <4>1. {r \in Talkers : talkerPc[r] = "compose"} = {"B"}
        BY <3>4 DEF Talkers
      <4> QED
        BY <3>2, <3>4, <4>1 DEF Talkers
    <3>5. CASE talkerPc["A"] = "read" /\ talkerPc["B"] # "compose"
      <4>1. {r \in Talkers : talkerPc[r] = "compose"} = {}
        BY <3>5 DEF Talkers
      <4>2. CASE \E f \in 1..2 : fifo[f] # << >> /\ fifo[3 - f] = << >>
        <5>1. PICK f \in 1..2 : fifo[f] # << >> /\ fifo[3 - f] = << >>
          BY <4>2
        <5>2. {g \in 1..2 : fifo[g] # << >>} = {f}
          <6>1. \A g \in 1..2 : g = f \/ g = 3 - f
            OBVIOUS
          <6> QED
            BY <5>1, <6>1
        <5> QED
          BY <4>1, <5>2
      <4>3. CASE NothingSent /\ emptySent
        BY <3>2, <4>1, <4>3, Zenon
      <4> QED
        BY <2>0, <3>4, <3>3, <3>5, <4>2, <4>3, Zenon DEF OneOfThemSpeaks
    <3> QED
      BY <2>0, <3>3, <3>4, <3>5, Zenon DEF OneOfThemSpeaks
  <2>3. ASSUME ChatStuck, \A p \in Talkers : talkerPc[p] # "left"
        PROVE  emptySent
    <3>1. stage["A"] \in 1..2 /\ stage["B"] \in 1..2
      BY <2>0 DEF ChatRestOK, Talkers
    <3>2. \A p \in Talkers : talkerPc[p] = "open" => ~HasCalledOpen(Partner(p), stage[p])
      BY <2>0, <2>3, FifosOf DEF ChatStuck, Stuck, ChatRestOK
    <3>3. talkerPc["A"] # "open" \/ talkerPc["B"] # "open"
      <4> SUFFICES ASSUME talkerPc["A"] = "open", talkerPc["B"] = "open" PROVE FALSE
        OBVIOUS
      <4>1. ~HasCalledOpen("B", stage["A"]) /\ ~HasCalledOpen("A", stage["B"])
        BY <3>2 DEF Partner, Talkers
      <4>2. stage["A"] \in 1..stage["B"] \/ stage["B"] \in 1..stage["A"]
        BY <3>1
      <4>3. \A k \in 1..2 : OpenOrder("A", k) = k /\ OpenOrder("B", k) = k
        BY FifosOf DEF Talkers
      <4> QED
        BY <3>1, <4>1, <4>2, <4>3 DEF HasCalledOpen
    <3>4. talkerPc["A"] = "read" /\ talkerPc["B"] = "read"
      BY <2>3, <3>2, <3>3 DEF ChatStuck, Stuck, HasCalledOpen, Talking, Partner, Talkers
    <3>5. fifo[1] = << >> /\ fifo[2] = << >>
      BY <2>3, <3>4, FifosOf DEF ChatStuck, Stuck, Talkers
    <3>6. ~ \E f \in 1..2 : fifo[f] # << >> /\ fifo[3 - f] = << >>
      BY <3>5
    <3>7. "read" # "compose"
      OBVIOUS
    <3> QED
      BY <2>0, <3>4, <3>6, <3>7, Zenon DEF OneOfThemSpeaks
  <2> QED
    BY <2>1, <2>2, <2>3, Zenon DEF ChatStopsForAReason
<1> QED
  BY <1>1, ChatInvariance, PTL

-----------------------------------------------------------------------------
(* The suite. Whichever program runs, every other one stands still, so that *)
(* each makes only steps of its own and keeps what was shown of it above    *)
(* and in its module of proofs.                                             *)

LEMMA SuiteStarts ==
  Init => /\ BufferInit /\ SaleInit /\ RwInit /\ LifeInit /\ ReaperInit
          /\ ChatInit /\ StreamInit /\ TimerInit /\ SegmentInit /\ MappingInit
BY Zenon DEF Init

LEMMA SuiteSteps ==
  ASSUME [Next]_allVars
  PROVE  /\ [BufferNext]_bufferVars /\ [SaleNext]_saleVars /\ [RwNext]_rwVars
         /\ [LifeNext]_lifeVars /\ [ReaperNext]_reaperVars /\ [ChatNext]_chatVars
         /\ [StreamNext]_streamVars /\ [TimerNext]_timerVars
         /\ [SegmentNext]_segmentVars /\ [MappingNext]_mappingVars
<1>1. CASE BufferRuns
  BY <1>1, Zenon DEF BufferRuns
<1>2. CASE SaleRuns
  BY <1>2, Zenon DEF SaleRuns
<1>3. CASE RwlockRuns
  BY <1>3, Zenon DEF RwlockRuns
<1>4. CASE LifeRuns
  BY <1>4, Zenon DEF LifeRuns
<1>5. CASE ReaperRuns
  BY <1>5, Zenon DEF ReaperRuns
<1>6. CASE ChatRuns
  BY <1>6, Zenon DEF ChatRuns
<1>7. CASE StreamRuns
  BY <1>7, Zenon DEF StreamRuns
<1>8. CASE TimersRuns
  BY <1>8, Zenon DEF TimersRuns
<1>9. CASE SegmentRuns
  BY <1>9, Zenon DEF SegmentRuns
<1>10. CASE MappingRuns
  BY <1>10, Zenon DEF MappingRuns
<1>11. CASE UNCHANGED allVars
  BY <1>11, Zenon DEF allVars
<1> QED
  BY <1>1, <1>2, <1>3, <1>4, <1>5, <1>6, <1>7, <1>8, <1>9, <1>10, <1>11, Zenon DEF Next

LEMMA EachKeepsItsOwn ==
  Spec => /\ BufferSpec /\ SaleSpec /\ RwSpec /\ LifeSpec /\ ChatSpec
          /\ TimerSpec /\ SegmentSpec /\ MappingSpec
          /\ ReaperInit /\ [][ReaperNext]_reaperVars
          /\ StreamInit /\ [][StreamNext]_streamVars
BY SuiteStarts, SuiteSteps, PTL
DEF Spec, BufferSpec, SaleSpec, RwSpec, LifeSpec, ChatSpec, TimerSpec, SegmentSpec, MappingSpec

(* Every variable of every program of chapters 2 and 3 keeps to its type:   *)
(* counters to their bounds, sequences to their length, functions to their  *)
(* domain.                                                                  *)
THEOREM ProcessesTypeCorrect == Spec => []TypeOK
<1>1. SaleInv /\ RwInv /\ LifeInv /\ ChatInv /\ StreamInv /\ SegmentInv /\ MappingInv
      /\ BufferTypeOK /\ ReaperTypeOK /\ TimerTypeOK
      => TypeOK
  BY Zenon DEF TypeOK, SaleInv, RwInv, LifeInv, ChatInv, StreamInv, SegmentInv, MappingInv
<1> QED
  BY <1>1, EachKeepsItsOwn, SaleInvariance, RwInvariance, LifeInvariance, ChatInvariance,
     StreamInvariance, SegmentInvariance, MappingInvariance, BufferTypeCorrect,
     ReaperTypeInvariance, TimerTypeInvariance, PTL

(* Both pairs of processes that talk by turns, over two FIFOs and over one  *)
(* pipe, keep taking turns, for every length of the lines and of the pipe.  *)
THEOREM TalkersKeepTheirTurns == Spec => []TalkersTakeTurns
<1>1. ChatStopsForAReason /\ StreamInv => TalkersTakeTurns
  BY Zenon DEF TalkersTakeTurns, StreamInv
<1> QED
  BY <1>1, EachKeepsItsOwn, ChatGoesOn, StreamInvariance, PTL

(* No segment is left behind, the output of a joined thread is neither lost *)
(* nor doubled, and the parent of mmap.cpp, which waits for its child,      *)
(* prints the whole text, for any number of processes, lines and bytes.     *)
(* Nothing is claimed of mmap_anon.cpp, whose child may read too early.     *)
THEOREM NothingLeftAtExit == Spec => []LeftAtExit
<1>1. NoSegmentLeft /\ OutputOddOnlyByReturn /\ TextReadWhole => LeftAtExit
  BY Zenon DEF LeftAtExit
<1> QED
  BY <1>1, EachKeepsItsOwn, SegmentsAreRemoved, JoinedThreadPrintsAll, MappedTextIsWhole, PTL

(* The suite keeps what each program promises by itself.                    *)
THEOREM ProcessesSafe ==
  Spec => /\ [](NoSleepOverNumbers /\ NumberForEachToken /\ EveryTicketSoldOnce)
          /\ [](ReadersCounted /\ SignalsKillInTime)
          /\ ImplementsBoundedStack
BY EachKeepsItsOwn, NoLostSignal, TokensHaveNumbers, TicketsAreSoldOnce, CounterCorrect,
   SignalsKillOnlyInTime, StackRefinement, PTL
=============================================================================
