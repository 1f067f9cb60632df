-------------------------------- MODULE Chat --------------------------------
(***************************************************************************)
(* chapter_2/pipe: chatA.cpp and chatB.cpp, two processes that talk in turn *)
(* over two FIFOs, which whoever comes first creates.                       *)
(*                                                                          *)
(* A message is the sequence of the writers of its bytes. Nobody ends a     *)
(* process from outside, and a line fits into buf (128 bytes).              *)
(***************************************************************************)
EXTENDS Integers, Sequences

CONSTANT MaxLine     \* the longest line typed, in bytes

ASSUME ChatAssumption == MaxLine \in Nat \ {0}

Talkers == {"A", "B"}
Partner(p) == IF p = "A" THEN "B" ELSE "A"

(* A reads from fifo1 and B writes to it; fifo2 is the other way round.      *)
FifoToRead(p) == IF p = "A" THEN 1 ELSE 2
FifoToWrite(p) == FifoToRead(Partner(p))

VARIABLES
  fifoMade,    \* the FIFOs that are there
  talkerPc,    \* "access", "mkfifo", "open", "compose", "read", "left"
  stage,       \* the FIFO, 1 or 2 in the order of the code, "access".."open" is about
  fifo,        \* the bytes in each FIFO
  talkerBuf,   \* buf of each process
  emptySent    \* A was given an empty line and wrote nothing

chatVars == <<fifoMade, talkerPc, stage, fifo, talkerBuf, emptySent>>

Bytes == UNION {[1..n -> Talkers] : n \in 0..MaxLine}

ChatTypeOK ==
  /\ fifoMade \subseteq 1..2
  /\ talkerPc \in [Talkers -> {"access", "mkfifo", "open", "compose", "read", "left"}]
  /\ stage \in [Talkers -> 1..2]
  /\ fifo \in [1..2 -> Bytes]
  /\ talkerBuf \in [Talkers -> Bytes]
  /\ emptySent \in BOOLEAN

ChatInit ==
  /\ fifoMade \in {{}, {1, 2}}
  /\ talkerPc = [p \in Talkers |-> "access"]
  /\ stage = [p \in Talkers |-> 1]
  /\ fifo = [f \in 1..2 |-> << >>]
  /\ talkerBuf = [p \in Talkers |-> << >>]
  /\ emptySent = FALSE

ChatGoto(p, label) == talkerPc' = [talkerPc EXCEPT ![p] = label]

(* After fifo1 comes fifo2, after both the first open().                    *)
NextFifo(p) ==
  /\ stage' = [stage EXCEPT ![p] = 3 - @]
  /\ ChatGoto(p, IF stage[p] = 1 THEN "access" ELSE "open")

Access(p) ==
  /\ talkerPc[p] = "access"
  /\ IF stage[p] \in fifoMade THEN NextFifo(p) ELSE ChatGoto(p, "mkfifo") /\ UNCHANGED stage
  /\ UNCHANGED <<fifoMade, fifo, talkerBuf, emptySent>>

(* What access() said may no longer hold: then mkfifo() fails, exit(0).     *)
MakeFifo(p) ==
  /\ talkerPc[p] = "mkfifo"
  /\ \/ /\ stage[p] \notin fifoMade
        /\ fifoMade' = fifoMade \cup {stage[p]}
        /\ NextFifo(p)
     \/ /\ stage[p] \in fifoMade
        /\ ChatGoto(p, "left")
        /\ UNCHANGED <<fifoMade, stage>>
  /\ UNCHANGED <<fifo, talkerBuf, emptySent>>

(* Mutant: B opens the FIFO it reads from first, as A does.                 *)
ReadEndFirst(p, k) == IF k = 1 THEN FifoToRead(p) ELSE FifoToWrite(p)

(* The FIFO that p opens first (k = 1) and second: both begin with fifo1.   *)
OpenOrder(p, k) ==
  IF p = "A" THEN IF k = 1 THEN FifoToRead(p) ELSE FifoToWrite(p)
             ELSE IF k = 1 THEN FifoToWrite(p) ELSE FifoToRead(p)

Talking(p) == talkerPc[p] \in {"compose", "read"}

(* p is in open() of f, or has got past it.                                 *)
HasCalledOpen(p, f) ==
  \/ Talking(p)
  \/ talkerPc[p] = "open" /\ \E k \in 1..stage[p] : OpenOrder(p, k) = f

(* open() of one end of a FIFO returns when somebody opens the other end.   *)
OpenFifo(p) ==
  /\ talkerPc[p] = "open"
  /\ HasCalledOpen(Partner(p), OpenOrder(p, stage[p]))
  /\ IF stage[p] = 1
       THEN stage' = [stage EXCEPT ![p] = 2] /\ UNCHANGED talkerPc
       ELSE UNCHANGED stage /\ ChatGoto(p, IF p = "A" THEN "compose" ELSE "read")
  /\ UNCHANGED <<fifoMade, fifo, talkerBuf, emptySent>>

(* The line typed, copied over buf, which only A has cleared: what was      *)
(* received stays behind a shorter line. A message of no bytes is not sent. *)
Send(p, n) ==
  /\ talkerPc[p] = "compose"
  /\ LET kept == IF p = "A" THEN << >> ELSE talkerBuf[p]
         text == [i \in 1..n |-> p] \o SubSeq(kept, n + 1, Len(kept))
     IN  /\ fifo' = [fifo EXCEPT ![FifoToWrite(p)] = @ \o text]
         /\ emptySent' = (emptySent \/ text = << >>)
  /\ talkerBuf' = [talkerBuf EXCEPT ![p] = << >>]
  /\ ChatGoto(p, "read")
  /\ UNCHANGED <<fifoMade, stage>>

(* read() blocks while the FIFO is empty.                                   *)
Receive(p) ==
  /\ talkerPc[p] = "read" /\ fifo[FifoToRead(p)] # << >>
  /\ talkerBuf' = [talkerBuf EXCEPT ![p] = fifo[FifoToRead(p)]]
  /\ fifo' = [fifo EXCEPT ![FifoToRead(p)] = << >>]
  /\ ChatGoto(p, "compose")
  /\ UNCHANGED <<fifoMade, stage, emptySent>>

ChatStep(p) ==
  Access(p) \/ MakeFifo(p) \/ OpenFifo(p) \/ (\E n \in 0..MaxLine : Send(p, n)) \/ Receive(p)

ChatNext == \E p \in Talkers : ChatStep(p)

ChatSpec == ChatInit /\ [][ChatNext]_chatVars

-----------------------------------------------------------------------------
(* What is to be shown.                                                     *)

Stuck(p) ==
  \/ talkerPc[p] = "open" /\ ~HasCalledOpen(Partner(p), OpenOrder(p, stage[p]))
  \/ talkerPc[p] = "read" /\ fifo[FifoToRead(p)] = << >>
  \/ talkerPc[p] = "left"

ChatStuck == \A p \in Talkers : Stuck(p)

(* The conversation stops for ever only for one of two reasons: an empty    *)
(* line of A's, which sends nothing and makes both wait for the other, or   *)
(* the race between access() and mkfifo(), whose loser exits. The order of  *)
(* the open() calls never makes the two wait for each other, they never     *)
(* both lose the race, and until it stops one of them is always to speak.   *)
ChatStopsForAReason ==
  /\ ChatStuck => emptySent \/ \E p \in Talkers : talkerPc[p] = "left"
  /\ \E p \in Talkers : talkerPc[p] # "left"
  /\ (\A p \in Talkers : Talking(p)) =>
       LET toSpeak == {p \in Talkers : talkerPc[p] = "compose"}
           sent == {f \in 1..2 : fifo[f] # << >>}
       IN  \/ \E p \in Talkers : toSpeak = {p} /\ sent = {}
           \/ \E f \in 1..2 : toSpeak = {} /\ sent = {f}
           \/ toSpeak = {} /\ sent = {} /\ emptySent

=============================================================================
