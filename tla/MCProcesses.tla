----------------------------- MODULE MCProcesses -----------------------------
(***************************************************************************)
(* The programs of chapters 2 and 3 side by side, for one run of TLC: they   *)
(* share nothing, and only one of them runs in a behaviour.                  *)
(***************************************************************************)
EXTENDS
  BoundedBuffer, TicketSale, ReadersWriter, ThreadLife, ChildReaper,
  Chat, PipeStream, SignalTimers, SharedSegment, SharedMapping

VARIABLE program   \* which program runs; the others stay as they were at the start

allVars ==
  <<program, bufferVars, saleVars, rwVars, lifeVars, reaperVars, chatVars, streamVars, timerVars, segmentVars, mappingVars>>

TypeOK ==
  /\ BufferTypeOK
  /\ SaleTypeOK
  /\ RwTypeOK
  /\ LifeTypeOK
  /\ ReaperTypeOK
  /\ ChatTypeOK
  /\ StreamTypeOK
  /\ TimerTypeOK
  /\ SegmentTypeOK
  /\ MappingTypeOK

(* Several modules hold two or more variants of a program. While another    *)
(* program runs it makes no difference which of them stays idle.            *)
IdleKindsFixed ==
  /\ program # "buffer" => bufferKind = "polling"
  /\ program # "life" => lifeKind = "join"
  /\ program # "reaper" => reaperKind = "waiting"
  /\ program # "chat" => fifoMade = {}
  /\ program # "stream" => streamKind = "child"
  /\ program # "timers" => signalKind = "catch"
  /\ program # "mapping" => mappingKind = "file"

Init ==
  /\ program \in {"buffer", "sale", "rwlock", "life", "reaper", "chat", "stream", "timers",
                  "segment", "mapping"}
  /\ BufferInit
  /\ SaleInit
  /\ RwInit
  /\ LifeInit
  /\ ReaperInit
  /\ ChatInit
  /\ StreamInit
  /\ TimerInit
  /\ SegmentInit
  /\ MappingInit
  /\ IdleKindsFixed

BufferRuns ==
  /\ program = "buffer" /\ BufferNext
  /\ UNCHANGED <<program, saleVars, rwVars, lifeVars, reaperVars, chatVars, streamVars, timerVars, segmentVars, mappingVars>>

SaleRuns ==
  /\ program = "sale" /\ SaleNext
  /\ UNCHANGED <<program, bufferVars, rwVars, lifeVars, reaperVars, chatVars, streamVars, timerVars, segmentVars, mappingVars>>

RwlockRuns ==
  /\ program = "rwlock" /\ RwNext
  /\ UNCHANGED <<program, bufferVars, saleVars, lifeVars, reaperVars, chatVars, streamVars, timerVars, segmentVars, mappingVars>>

LifeRuns ==
  /\ program = "life" /\ LifeNext
  /\ UNCHANGED <<program, bufferVars, saleVars, rwVars, reaperVars, chatVars, streamVars, timerVars, segmentVars, mappingVars>>

ReaperRuns ==
  /\ program = "reaper" /\ ReaperNext
  /\ UNCHANGED <<program, bufferVars, saleVars, rwVars, lifeVars, chatVars, streamVars, timerVars, segmentVars, mappingVars>>

ChatRuns ==
  /\ program = "chat" /\ ChatNext
  /\ UNCHANGED <<program, bufferVars, saleVars, rwVars, lifeVars, reaperVars, streamVars, timerVars, segmentVars, mappingVars>>

StreamRuns ==
  /\ program = "stream" /\ StreamNext
  /\ UNCHANGED <<program, bufferVars, saleVars, rwVars, lifeVars, reaperVars, chatVars, timerVars, segmentVars, mappingVars>>

TimersRuns ==
  /\ program = "timers" /\ TimerNext
  /\ UNCHANGED <<program, bufferVars, saleVars, rwVars, lifeVars, reaperVars, chatVars, streamVars, segmentVars, mappingVars>>

SegmentRuns ==
  /\ program = "segment" /\ SegmentNext
  /\ UNCHANGED <<program, bufferVars, saleVars, rwVars, lifeVars, reaperVars, chatVars, streamVars, timerVars, mappingVars>>

MappingRuns ==
  /\ program = "mapping" /\ MappingNext
  /\ UNCHANGED <<program, bufferVars, saleVars, rwVars, lifeVars, reaperVars, chatVars, streamVars, timerVars, segmentVars>>

Next ==
  \/ BufferRuns \/ SaleRuns \/ RwlockRuns \/ LifeRuns \/ ReaperRuns
  \/ ChatRuns \/ StreamRuns \/ TimersRuns \/ SegmentRuns \/ MappingRuns

(* What can run does run at last: the sellers and main(), which wait for    *)
(* each other; the parent that collects; both ends of a pipe.               *)
Fairness ==
  /\ \A s \in Sellers : WF_saleVars(program = "sale" /\ SellerStep(s))
  /\ WF_saleVars(program = "sale" /\ JoinSeller)
  /\ WF_reaperVars(program = "reaper" /\ ParentStep)
  /\ WF_streamVars(program = "stream" /\ WriterStep)
  /\ WF_streamVars(program = "stream" /\ ReaderStep)

Spec == Init /\ [][Next]_allVars /\ Fairness

-----------------------------------------------------------------------------
(* What is to be shown of more than one program.                            *)

(* The sale of case_sell_tickets.cpp comes to its end: the lock is given    *)
(* back by a seller that finds nothing left (line 55), so that every other  *)
(* finds that out too and main() joins them all.                            *)
SaleEnds == (program = "sale") ~> SaleOver

(* The pairs of processes that talk by turns, chatA.cpp and chatB.cpp over  *)
(* two FIFOs, the parent and the child of pipe.cpp over one pipe, have one   *)
(* message on its way or one partner about to speak, and stop only for the  *)
(* reasons given in Chat.                                                   *)
TalkersTakeTurns == ChatStopsForAReason /\ OneMessageInPipe

(* What is left, or lost, when the processes of a program have ended: never *)
(* a shared segment; a line of output, lost or doubled, only where main()   *)
(* returns without a join; and the parent of mmap.cpp, which waits for its  *)
(* child, prints the whole text (nothing is said of the child of            *)
(* mmap_anon.cpp, which only sleeps).                                       *)
LeftAtExit == NoSegmentLeft /\ OutputOddOnlyByReturn /\ TextReadWhole
=============================================================================
