---------------------------- MODULE HeaderParser ----------------------------
(***************************************************************************)
(* chapter_5/http_header_parser.cpp: a server for one connection that reads *)
(* until its state machine has a verdict on the request and answers with    *)
(* one of two sentences.                                                    *)
(*                                                                          *)
(* parse_content() has no return after its loop. The program is built       *)
(* without optimisation (.vscode/tasks.json), and then the register of the  *)
(* result still holds the outcome of the loop's test, which is false: the   *)
(* caller gets 0, which is NO_REQUEST, and reads on. That is what the       *)
(* binary under chapter_5/output does, and what is modelled here; another   *)
(* build may behave in any way.                                             *)
(***************************************************************************)
EXTENDS HttpParse

CONSTANTS
  Requests,      \* what the client may send before it closes
  BUFFER_SIZE

ASSUME ParserAssumption ==
  Requests \subseteq Seq(Tokens \ {"length"}) /\ BUFFER_SIZE \in Nat \ {0}

VARIABLES
  toSend,        \* what the server has not received yet
  buffer,        \* buffer up to read_index
  checkedIndex,  \* checked_index
  startLine,     \* start_line
  checkstate,    \* "REQUESTLINE" or "HEADER"
  parserPc,      \* "recv", "parse", "closed"
  sentence       \* "none", or what was sent: "correct" or "wrong"

parserVars ==
  <<toSend, buffer, checkedIndex, startLine, checkstate, parserPc, sentence>>

ParserTypeOK ==
  /\ toSend \in Seq(Tokens) /\ buffer \in Seq(Tokens)
  /\ Len(buffer) <= BUFFER_SIZE
  /\ checkedIndex \in 0..Len(buffer) /\ startLine \in 0..checkedIndex
  /\ checkstate \in {"REQUESTLINE", "HEADER"}
  /\ parserPc \in {"recv", "parse", "closed"}
  /\ sentence \in {"none", "correct", "wrong"}

ParserInit ==
  /\ toSend \in Requests
  /\ buffer = << >> /\ checkedIndex = 0 /\ startLine = 0
  /\ checkstate = "REQUESTLINE"
  /\ parserPc = "recv" /\ sentence = "none"

(* Mutant: recv() is given the whole size of the buffer.                    *)
WholeBuffer == BUFFER_SIZE

Room == BUFFER_SIZE - Len(buffer)

(* Any first part of what is on its way, as far as there is room.           *)
RecvSegment ==
  /\ parserPc = "recv"
  /\ \E n \in 1..Len(toSend) :
       /\ n <= Room
       /\ buffer' = buffer \o SubSeq(toSend, 1, n)
       /\ toSend' = SubSeq(toSend, n + 1, Len(toSend))
  /\ parserPc' = "parse"
  /\ UNCHANGED <<checkedIndex, startLine, checkstate, sentence>>

(* recv() returns 0, for a client that has closed and for a buffer that is  *)
(* full, or it fails.                                                       *)
RecvNothing ==
  /\ parserPc = "recv"
  /\ parserPc' = "closed"
  /\ UNCHANGED <<toSend, buffer, checkedIndex, startLine, checkstate, sentence>>

(* parse_line(), the same as in webserver/http_conn.cpp.                    *)
NextLine == ParseLine(buffer, checkedIndex)

(* The line that ends at checked_index, from start_line on.                 *)
LineRead(status) ==
  /\ parserPc = "parse" /\ NextLine.status = status
  /\ checkedIndex' = NextLine.checked
  /\ UNCHANGED <<toSend, buffer>>

ThisLine == LineText(buffer, startLine, NextLine.checked)

Say(s) == sentence' = s /\ parserPc' = "closed"

RequestLine ==
  /\ LineRead("LINE_OK") /\ checkstate = "REQUESTLINE"
  /\ startLine' = checkedIndex'
  /\ IF RequestLineOk(ThisLine)
       THEN checkstate' = "HEADER" /\ UNCHANGED <<parserPc, sentence>>
       ELSE Say("wrong") /\ UNCHANGED checkstate

(* parse_headers() takes every line, and the empty one for the end.         *)
HeaderLine ==
  /\ LineRead("LINE_OK") /\ checkstate = "HEADER"
  /\ startLine' = checkedIndex'
  /\ IF ThisLine = << >> THEN Say("correct") ELSE UNCHANGED <<parserPc, sentence>>
  /\ UNCHANGED checkstate

(* Mutant: the result is the line status, and main() takes LINE_OPEN, which *)
(* is 2, for BAD_REQUEST, and LINE_BAD, which is 1, for GET_REQUEST.        *)
ReturnsStatus ==
  /\ \/ LineRead("LINE_OPEN") /\ Say("wrong")
     \/ LineRead("LINE_BAD") /\ Say("correct")
  /\ UNCHANGED <<startLine, checkstate>>

(* The loop ends and with it parse_content(), with 0 for its result: main() *)
(* takes it for NO_REQUEST.                                                 *)
NoReturn ==
  /\ LineRead("LINE_OPEN") \/ LineRead("LINE_BAD")
  /\ parserPc' = "recv"
  /\ UNCHANGED <<startLine, checkstate, sentence>>

ParserNext == RecvSegment \/ RecvNothing \/ RequestLine \/ HeaderLine \/ NoReturn

ParserSpec == ParserInit /\ [][ParserNext]_parserVars

-----------------------------------------------------------------------------
(* What is to be shown.                                                     *)

(* What is answered is the verdict on all that was received, whatever the   *)
(* segments it came in; a request that is not complete, or stops in a bad   *)
(* line, is not answered (HTTP_CODE, line 33), and while the server waits   *)
(* for more there is nothing complete that it has missed. All of it rests   *)
(* on the value that parse_content() does not return (line 214).            *)
AnswersAsAWhole ==
  /\ sentence # "none" =>
       Verdict(buffer) = IF sentence = "correct" THEN "GET_REQUEST" ELSE "BAD_REQUEST"
  /\ parserPc = "recv" => Verdict(buffer) = "NO_REQUEST"
=============================================================================
