----------------------------- MODULE PipeStream -----------------------------
(***************************************************************************)
(* chapter_2/pipe: write_fifo.cpp and read_fifo.cpp ("fifo"), psaux.cpp     *)
(* ("child": a child that becomes ps writes, the parent reads) and pipe.cpp *)
(* ("talk": parent and child both write to and read from one pipe).         *)
(*                                                                          *)
(* What is written is counted in messages of equal size. ps itself is not   *)
(* part of the repository: it writes some lines and exits.                  *)
(***************************************************************************)
EXTENDS Integers, FiniteSets

CONSTANTS
  Messages,    \* how many messages the writer of a stream writes (100; what ps prints)
  PipeSize,    \* how many messages a pipe holds
  ReadMax      \* how many messages fit into buf (1024 bytes)

ASSUME StreamAssumption ==
  /\ Messages \in Nat
  /\ PipeSize \in Nat \ {0}
  /\ ReadMax \in Nat \ {0}

VARIABLES
  streamKind,  \* which program runs
  fifoExists,  \* ./fifo is there
  writerPc,    \* "start", "open", "write", "closed"; pipe.cpp's child: "write", "read"
  readerPc,    \* "start", "open", "read", "ended", "failed"; pipe.cpp's parent: "read", "write"
  writeEnds,   \* the processes that hold the write end
  written,     \* messages written
  piped,       \* messages in the pipe
  received     \* messages read

streamVars == <<streamKind, fifoExists, writerPc, readerPc, writeEnds, written, piped, received>>

StreamTypeOK ==
  /\ streamKind \in {"fifo", "child", "talk"}
  /\ fifoExists \in BOOLEAN
  /\ writerPc \in {"start", "open", "write", "read", "closed"}
  /\ readerPc \in {"start", "open", "read", "write", "ended", "failed"}
  /\ writeEnds \subseteq {"reader", "writer"}
  /\ written \in 0..Messages
  /\ piped \in 0..PipeSize
  /\ received \in 0..Messages

(* The pipe of psaux.cpp and pipe.cpp is made before fork(), so that both   *)
(* processes hold both ends of it.                                          *)
StreamInit ==
  /\ streamKind \in {"fifo", "child", "talk"}
  /\ fifoExists \in BOOLEAN
  /\ streamKind # "fifo" => fifoExists
  /\ writerPc = IF streamKind = "fifo" THEN "start" ELSE "write"
  /\ readerPc = IF streamKind = "fifo" THEN "start" ELSE IF streamKind = "child" THEN "open" ELSE "read"
  /\ writeEnds = IF streamKind = "fifo" THEN {} ELSE {"reader", "writer"}
  /\ written = 0 /\ piped = 0 /\ received = 0

-----------------------------------------------------------------------------
(* write_fifo.cpp, and the child of psaux.cpp                               *)

(* access(), mkfifo() and the call of open(), from which on the FIFO has a  *)
(* writer. Nobody else makes the FIFO.                                      *)
MakeTheFifo ==
  /\ streamKind = "fifo" /\ writerPc = "start"
  /\ fifoExists' = TRUE
  /\ writerPc' = "open"
  /\ writeEnds' = writeEnds \cup {"writer"}
  /\ UNCHANGED <<streamKind, readerPc, written, piped, received>>

(* open() of one end returns once somebody has called it for the other end. *)
OpenToWrite ==
  /\ writerPc = "open" /\ readerPc \in {"open", "read"}
  /\ writerPc' = "write"
  /\ UNCHANGED <<streamKind, fifoExists, readerPc, writeEnds, written, piped, received>>

(* A full pipe blocks the writer.                                           *)
WriteMessage ==
  /\ streamKind # "talk" /\ writerPc = "write"
  /\ written < Messages /\ piped < PipeSize
  /\ written' = written + 1
  /\ piped' = piped + 1
  /\ UNCHANGED <<streamKind, fifoExists, writerPc, readerPc, writeEnds, received>>

(* close(), or the exit of ps; dup2() left no other copy behind that the    *)
(* exit does not close.                                                     *)
CloseWriter ==
  /\ streamKind # "talk" /\ writerPc = "write" /\ written = Messages
  /\ writerPc' = "closed"
  /\ writeEnds' = writeEnds \ {"writer"}
  /\ UNCHANGED <<streamKind, fifoExists, readerPc, written, piped, received>>

-----------------------------------------------------------------------------
(* read_fifo.cpp, and the parent of psaux.cpp                               *)

OpenCalled ==
  /\ streamKind = "fifo" /\ readerPc = "start"
  /\ readerPc' = IF fifoExists THEN "open" ELSE "failed"
  /\ UNCHANGED <<streamKind, fifoExists, writerPc, writeEnds, written, piped, received>>

OpenToRead ==
  /\ streamKind = "fifo" /\ readerPc = "open" /\ writerPc # "start"
  /\ readerPc' = "read"
  /\ UNCHANGED <<streamKind, fifoExists, writerPc, writeEnds, written, piped, received>>

(* Mutant: the parent reads without close(fd[1]).                           *)
KeepWriteEnd ==
  /\ streamKind = "child" /\ readerPc = "open"
  /\ readerPc' = "read"
  /\ UNCHANGED <<streamKind, fifoExists, writerPc, writeEnds, written, piped, received>>

CloseWriteEnd ==
  /\ streamKind = "child" /\ readerPc = "open"
  /\ readerPc' = "read"
  /\ writeEnds' = writeEnds \ {"reader"}
  /\ UNCHANGED <<streamKind, fifoExists, writerPc, written, piped, received>>

(* What is there, as much of it as fits into buf.                           *)
ReadMessages ==
  /\ streamKind # "talk" /\ readerPc = "read" /\ piped > 0
  /\ LET n == IF piped < ReadMax THEN piped ELSE ReadMax
     IN  piped' = piped - n /\ received' = received + n
  /\ UNCHANGED <<streamKind, fifoExists, writerPc, readerPc, writeEnds, written>>

(* read() returns 0 when the pipe is empty and nobody can write any more.   *)
ReadEnd ==
  /\ streamKind # "talk" /\ readerPc = "read" /\ piped = 0 /\ writeEnds = {}
  /\ readerPc' = "ended"
  /\ UNCHANGED <<streamKind, fifoExists, writerPc, writeEnds, written, piped, received>>

-----------------------------------------------------------------------------
(* pipe.cpp: each process writes and reads by turns and may read what it    *)
(* has written itself; a read takes everything there is.                    *)

ChildWrites ==
  /\ streamKind = "talk" /\ writerPc = "write" /\ piped < PipeSize
  /\ piped' = piped + 1
  /\ writerPc' = "read"
  /\ UNCHANGED <<streamKind, fifoExists, readerPc, writeEnds, written, received>>

ChildReads ==
  /\ streamKind = "talk" /\ writerPc = "read" /\ piped > 0
  /\ piped' = 0
  /\ writerPc' = "write"
  /\ UNCHANGED <<streamKind, fifoExists, readerPc, writeEnds, written, received>>

ParentReads ==
  /\ streamKind = "talk" /\ readerPc = "read" /\ piped > 0
  /\ piped' = 0
  /\ readerPc' = "write"
  /\ UNCHANGED <<streamKind, fifoExists, writerPc, writeEnds, written, received>>

ParentWrites ==
  /\ streamKind = "talk" /\ readerPc = "write" /\ piped < PipeSize
  /\ piped' = piped + 1
  /\ readerPc' = "read"
  /\ UNCHANGED <<streamKind, fifoExists, writerPc, writeEnds, written, received>>

-----------------------------------------------------------------------------
WriterStep == MakeTheFifo \/ OpenToWrite \/ WriteMessage \/ CloseWriter \/ ChildWrites \/ ChildReads

ReaderStep ==
  \/ OpenCalled \/ OpenToRead \/ CloseWriteEnd \/ ReadMessages \/ ReadEnd
  \/ ParentReads \/ ParentWrites

StreamNext == WriterStep \/ ReaderStep

StreamSpec ==
  StreamInit /\ [][StreamNext]_streamVars /\ WF_streamVars(WriterStep) /\ WF_streamVars(ReaderStep)

-----------------------------------------------------------------------------
(* What is to be shown.                                                     *)

(* A reader of a stream that got its end of the pipe sees the end of the    *)
(* stream at last, after all that was written, although a copy of the write *)
(* end in any process would keep it waiting for ever.                       *)
StreamIsReadToEnd ==
  streamKind # "talk" /\ readerPc = "read" ~> readerPc = "ended" /\ received = Messages

(* Over the one pipe of pipe.cpp, from which either process may take back   *)
(* its own message, there is always one message on its way or one process   *)
(* about to write, never two and never none: no two messages merge in a     *)
(* read, and the processes never both wait.                                 *)
OneMessageInPipe ==
  streamKind = "talk" =>
    piped + (IF writerPc = "write" THEN 1 ELSE 0) + (IF readerPc = "write" THEN 1 ELSE 0) = 1
=============================================================================
