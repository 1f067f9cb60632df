------------------------------ MODULE HttpConn ------------------------------
(***************************************************************************)
(* One connection object of webserver/http_conn.cpp: what it reads, how it  *)
(* parses, which file it maps, what it answers and how write() sends that.  *)
(*                                                                          *)
(* One thread at a time has the object (WebServer!OneOwner), so read() is   *)
(* one step; process_read() takes a step per round of its loop and write()  *)
(* one per writev(), because the client goes on meanwhile.                  *)
(***************************************************************************)
EXTENDS HttpParse

CONSTANTS
  Streams,         \* what a client may send on a connection
  READ_BUFFER_SIZE,
  HeaderUnits,     \* the units of a response in m_write_buf
  FileUnits,       \* the units of a file that is not empty
  Resources,       \* what stat() and open() may find, a subset of ResourceSet
  MaxShorts        \* bound: writev() calls that take a part, or nothing

ResourceSet == {"missing", "unreadable", "directory", "empty", "file", "unopenable"}

ASSUME ConnAssumption ==
  /\ Streams \subseteq Seq(Tokens)
  /\ READ_BUFFER_SIZE \in Nat \ {0}
  /\ HeaderUnits \in Nat \ {0}
  /\ FileUnits \in Nat \ {0}
  /\ Resources \subseteq ResourceSet
  /\ MaxShorts \in Nat

VARIABLES
  outbox,         \* what the client has still to send
  inbox,          \* the socket's receive buffer
  shut,           \* the client has closed
  blocked,        \* the socket's send buffer is full
  shorts,         \* writev() calls that took a part, or nothing
  wire,           \* the units sent since the last read(), by their position
  stage,          \* where the object is
  buf,            \* m_read_buf, up to m_read_idx
  checked,        \* m_checked_idx
  start,          \* m_start_line
  checkState,     \* m_check_state
  contentLength,  \* m_conten_length
  linger,         \* m_linger
  verdict,        \* what process_read() returned last
  response,       \* the status of each response in m_write_buf
  iovCount,       \* m_iv_count
  fileSize,       \* m_file_stat.st_size
  mapping,        \* m_file_address: null, a mapping, MAP_FAILED, or never written
  haveSent        \* bytes_have_send of write()

network == <<outbox, inbox, shut, blocked, shorts, wire>>
request == <<buf, checked, start, checkState, contentLength, linger>>
file == <<fileSize, mapping>>
reply == <<response, iovCount, haveSent>>
answer == <<file, reply>>
vars == <<network, stage, request, verdict, answer>>

HTTP_CODE == {"NO_REQUEST", "BAD_REQUEST", "NO_RESOURCE", "FORBIDDEN_REQUEST",
              "FILE_REQUEST", "INTERNAL_ERROR"}

(* Armed for EPOLLIN, in process_read(), about to call process_write(),     *)
(* armed for EPOLLOUT, in write(), closed.                                  *)
Stages == {"in", "parse", "respond", "out", "write", "closed"}

NetworkTypeOK ==
  /\ outbox \in Seq(Tokens) /\ inbox \in Seq(Tokens)
  /\ shut \in BOOLEAN /\ blocked \in BOOLEAN
  /\ shorts \in 0..MaxShorts
  /\ wire \in Seq(Nat)

RequestTypeOK ==
  /\ buf \in Seq(Tokens) /\ Len(buf) < READ_BUFFER_SIZE
  /\ checked \in 0..Len(buf)
  /\ start \in 0..checked
  /\ checkState \in {"REQUESTLINE", "HEADER", "CONTENT"}
  /\ contentLength \in {0, BodyLength}
  /\ linger \in BOOLEAN

AnswerTypeOK ==
  /\ verdict \in HTTP_CODE
  /\ response \in Seq({200, 400, 403, 500})
  /\ iovCount \in 0..2
  /\ fileSize \in {0, FileUnits}
  /\ mapping \in {"null", "mapped", "MAP_FAILED", "garbage"}
  /\ haveSent \in Nat

TypeOK == stage \in Stages /\ NetworkTypeOK /\ RequestTypeOK /\ AnswerTypeOK

(* init_conn(); a new connection may be armed for bytes that are there.     *)
(* Neither it nor init() nor new writes m_file_address, which may be null   *)
(* or anything else then; a fileSize that stat() has not written is only    *)
(* the length unmap() passes on.                                            *)
Init ==
  /\ outbox \in Streams
  /\ inbox = << >> /\ wire = << >>
  /\ shut = FALSE /\ blocked = FALSE /\ shorts = 0
  /\ stage = "in"
  /\ buf = << >> /\ checked = 0 /\ start = 0
  /\ checkState = "REQUESTLINE" /\ contentLength = 0 /\ linger = TRUE
  /\ verdict = "NO_REQUEST"
  /\ fileSize = 0 /\ mapping \in {"null", "garbage"}
  /\ response = << >> /\ iovCount = 0 /\ haveSent = 0

(* init(), when a kept connection is about to read its next request.        *)
InitRequest ==
  /\ response' = << >>
  /\ buf' = << >> /\ checked' = 0 /\ start' = 0
  /\ checkState' = "REQUESTLINE" /\ contentLength' = 0 /\ linger' = TRUE

-----------------------------------------------------------------------------
(* The client and the network, which deliver a stream in any segments.      *)

ClientSend ==
  /\ outbox # << >> /\ ~shut
  /\ inbox' = Append(inbox, Head(outbox))
  /\ outbox' = Tail(outbox)
  /\ UNCHANGED <<shut, blocked, shorts, wire, stage, request, verdict, answer>>

ClientClose ==
  /\ ~shut
  /\ shut' = TRUE
  /\ UNCHANGED <<outbox, inbox, blocked, shorts, wire, stage, request, verdict, answer>>

ClientDrain ==
  /\ blocked
  /\ blocked' = FALSE
  /\ UNCHANGED <<outbox, inbox, shut, shorts, wire, stage, request, verdict, answer>>

-----------------------------------------------------------------------------
(* main() reads. recv() is repeated until there is nothing left.            *)

(* Mutant: a recv() that returns 0 is not taken for an error.               *)
ReadFullBuffer ==
  /\ stage = "in" /\ inbox # << >> /\ ~shut
  /\ Len(buf) + Len(inbox) <= READ_BUFFER_SIZE
  /\ buf' = buf \o inbox
  /\ inbox' = << >> /\ wire' = << >>
  /\ stage' = "parse"
  /\ UNCHANGED <<outbox, shut, blocked, shorts, checked, start, checkState>>
  /\ UNCHANGED <<contentLength, linger, verdict, answer>>

Read ==
  /\ stage = "in" /\ inbox # << >> /\ ~shut
  /\ Len(buf) + Len(inbox) < READ_BUFFER_SIZE
  /\ buf' = buf \o inbox
  /\ inbox' = << >> /\ wire' = << >>
  /\ stage' = "parse"
  /\ UNCHANGED <<outbox, shut, blocked, shorts, checked, start, checkState>>
  /\ UNCHANGED <<contentLength, linger, verdict, answer>>

(* recv() returns 0: the client has closed, or the buffer is full, which    *)
(* leaves no room to ask for. The bytes read before are of no use.          *)
ReadFails ==
  /\ stage = "in" /\ inbox # << >>
  /\ shut \/ Len(buf) + Len(inbox) >= READ_BUFFER_SIZE
  /\ stage' = "closed"
  /\ UNCHANGED <<network, request, verdict, answer>>

(* EPOLLRDHUP, in main(): nobody unmaps the file of an unfinished reply.    *)
Hangup ==
  /\ stage \in {"in", "out"} /\ shut
  /\ stage' = "closed"
  /\ UNCHANGED <<network, request, verdict, answer>>

-----------------------------------------------------------------------------
(* process_read() in a worker.                                              *)

Line == ParseLine(buf, checked)
Text == LineText(buf, start, Line.checked)

(* No complete line, or a bad one: NO_REQUEST, and the socket is armed.     *)
LineIncomplete ==
  /\ stage = "parse" /\ checkState # "CONTENT"
  /\ Line.status # "LINE_OK"
  /\ checked' = Line.checked
  /\ verdict' = "NO_REQUEST"
  /\ stage' = "in"
  /\ UNCHANGED <<network, buf, start, checkState, contentLength, linger, answer>>

GetsLine(state) ==
  /\ stage = "parse" /\ checkState = state
  /\ Line.status = "LINE_OK"
  /\ checked' = Line.checked
  /\ start' = Line.checked
  /\ UNCHANGED <<network, buf>>

ParseRequestLine ==
  /\ GetsLine("REQUESTLINE")
  /\ IF RequestLineOk(Text)
     THEN checkState' = "HEADER" /\ UNCHANGED <<stage, verdict>>
     ELSE verdict' = "BAD_REQUEST" /\ stage' = "respond" /\ UNCHANGED checkState
  /\ UNCHANGED <<contentLength, linger, answer>>

ParseHeader ==
  /\ GetsLine("HEADER")
  /\ Text # << >>
  /\ linger' = (linger /\ ~HeaderIs(Text, "close"))
  /\ contentLength' = IF HeaderIs(Text, "length") THEN BodyLength ELSE contentLength
  /\ UNCHANGED <<stage, checkState, verdict, answer>>

(* do_request(): what it returns, and maps, for a resource of each kind.    *)
(* Neither open() nor mmap() is checked; mmap() of an empty file fails.     *)
DoRequest(resource) ==
  /\ verdict' = IF resource = "missing" THEN "NO_RESOURCE"
                ELSE IF resource = "unreadable" THEN "FORBIDDEN_REQUEST"
                ELSE IF resource = "directory" THEN "BAD_REQUEST"
                ELSE "FILE_REQUEST"
  /\ fileSize' = IF resource = "missing" THEN fileSize
                 ELSE IF resource = "empty" THEN 0
                 ELSE FileUnits
  /\ mapping' = IF resource = "file" THEN "mapped"
                ELSE IF resource \in {"empty", "unopenable"} THEN "MAP_FAILED"
                ELSE mapping
  /\ stage' = "respond"
  /\ UNCHANGED reply

(* The empty line after the headers.                                        *)
HeadersEnd(resource) ==
  /\ GetsLine("HEADER")
  /\ Text = << >>
  /\ IF contentLength # 0
     THEN checkState' = "CONTENT" /\ UNCHANGED <<stage, verdict, answer>>
     ELSE DoRequest(resource) /\ UNCHANGED checkState
  /\ UNCHANGED <<contentLength, linger>>

(* Mutant: the length of the body is compared with all that was read.       *)
ParseContentFromStart(resource) ==
  /\ stage = "parse" /\ checkState = "CONTENT"
  /\ start' = checked
  /\ IF Len(buf) >= contentLength
     THEN DoRequest(resource)
     ELSE verdict' = "INTERNAL_ERROR" /\ stage' = "respond" /\ UNCHANGED answer
  /\ UNCHANGED <<network, buf, checked, checkState, contentLength, linger>>

(* parse_content() returns no value when the body is incomplete. In the     *)
(* debug build that CMakeLists.txt asks for, the register holds             *)
(* m_conten_length + m_checked_idx then, which is not GET_REQUEST, and the  *)
(* case falls through to INTERNAL_ERROR.                                    *)
ParseContent(resource) ==
  /\ stage = "parse" /\ checkState = "CONTENT"
  /\ start' = checked
  /\ IF Len(buf) >= contentLength + checked
     THEN DoRequest(resource)
     ELSE verdict' = "INTERNAL_ERROR" /\ stage' = "respond" /\ UNCHANGED answer
  /\ UNCHANGED <<network, buf, checked, checkState, contentLength, linger>>

-----------------------------------------------------------------------------
(* process_write() in the same worker. NO_RESOURCE falls through to the     *)
(* case of FORBIDDEN_REQUEST, so two responses are put together; of         *)
(* BAD_REQUEST only the return remains, after a stray semicolon.            *)

Responses(code) ==
  IF code = "INTERNAL_ERROR" THEN <<500>>
  ELSE IF code = "BAD_REQUEST" THEN <<400>>
  ELSE IF code = "NO_RESOURCE" THEN <<400, 403>>
  ELSE IF code = "FORBIDDEN_REQUEST" THEN <<403>>
  ELSE <<200>>

ProcessWrite ==
  /\ stage = "respond"
  /\ response' = response \o Responses(verdict)
  /\ IF verdict = "BAD_REQUEST"
     THEN stage' = "closed" /\ UNCHANGED iovCount
     ELSE /\ iovCount' = IF verdict = "FILE_REQUEST" /\ fileSize # 0 THEN 2 ELSE 1
          /\ stage' = "out"
  /\ UNCHANGED <<network, request, verdict, file, haveSent>>

-----------------------------------------------------------------------------
(* write() in main().                                                       *)

BufferUnits == HeaderUnits * Len(response)       \* m_write_idx
MessageUnits == BufferUnits + IF iovCount = 2 THEN fileSize ELSE 0

(* write() is called. The counts are its locals.                            *)
BeginWrite ==
  /\ stage = "out" /\ ~blocked /\ ~shut
  /\ haveSent' = 0
  /\ stage' = "write"
  /\ UNCHANGED <<network, request, verdict, file, response, iovCount>>

(* Mutant: unmap() does not set m_file_address to NULL.                     *)
UnmapWithoutReset == UNCHANGED file

(* unmap(). munmap() of MAP_FAILED fails, and so, it is assumed, does that  *)
(* of an address that was never written.                                    *)
Unmap == mapping' = "null" /\ UNCHANGED fileSize

(* What follows a writev() that took n units, counting them against the     *)
(* write buffer alone: until it has sent half of it, write() goes on. The   *)
(* reply is then over, and the connection is kept or closed.                *)
AfterWritev(n) ==
  IF BufferUnits - n - haveSent > haveSent + n
  THEN haveSent' = haveSent + n /\ UNCHANGED <<stage, request, file, response>>
  ELSE /\ Unmap
       /\ haveSent' = 0
       /\ IF linger THEN InitRequest /\ stage' = "in"
                    ELSE stage' = "closed" /\ UNCHANGED <<request, response>>

(* writev() takes the first n units of the message: m_iv is what            *)
(* process_write() made it, however much has been sent.                     *)
Writev(n) ==
  /\ stage = "write"
  /\ iovCount = 2 => mapping = "mapped"
  /\ n = MessageUnits \/ shorts < MaxShorts
  /\ wire' = wire \o [i \in 1..n |-> i]
  /\ shorts' = IF n = MessageUnits THEN shorts ELSE shorts + 1
  /\ AfterWritev(n)
  /\ UNCHANGED <<outbox, inbox, shut, blocked, verdict, iovCount>>

(* Mutant: the file is unmapped before write() waits for room.              *)
WriteBlocksUnmapped ==
  /\ stage = "write"
  /\ iovCount = 2 => mapping = "mapped"
  /\ shorts < MaxShorts
  /\ shorts' = shorts + 1
  /\ blocked' = TRUE
  /\ stage' = "out"
  /\ Unmap
  /\ UNCHANGED <<outbox, inbox, shut, wire, request, verdict, reply>>

(* EAGAIN.                                                                  *)
WriteBlocks ==
  /\ stage = "write"
  /\ iovCount = 2 => mapping = "mapped"
  /\ shorts < MaxShorts
  /\ shorts' = shorts + 1
  /\ blocked' = TRUE
  /\ stage' = "out"
  /\ UNCHANGED <<outbox, inbox, shut, wire, request, verdict, answer>>

(* Another error: the client has reset the connection, or EFAULT for a file *)
(* that was not mapped.                                                     *)
WriteFails ==
  /\ stage = "write"
  /\ shut \/ (iovCount = 2 /\ mapping # "mapped")
  /\ Unmap
  /\ stage' = "closed"
  /\ UNCHANGED <<network, request, verdict, reply>>

-----------------------------------------------------------------------------
ClientStep == ClientSend \/ ClientClose \/ ClientDrain

ServerStep ==
  \/ Read \/ ReadFails \/ Hangup
  \/ LineIncomplete \/ ParseRequestLine \/ ParseHeader
  \/ \E resource \in Resources : HeadersEnd(resource) \/ ParseContent(resource)
  \/ ProcessWrite \/ BeginWrite \/ WriteBlocks \/ WriteFails
  \/ \E n \in 1..MessageUnits : Writev(n)

Next == ClientStep \/ ServerStep

Spec == Init /\ [][Next]_vars

(* The threads of the server run; what the client does is up to it.         *)
FairSpec == Spec /\ WF_vars(ServerStep)

-----------------------------------------------------------------------------
(* What is to be shown.                                                     *)

Complete == Verdict(buf) # "NO_REQUEST"

(* Parsing is resumed in the middle of a request whenever recv() has        *)
(* returned, and comes to what the bytes mean as a whole: an object that    *)
(* waits for input holds no complete request, and one that is answered was  *)
(* judged as all its bytes would be, wherever the segments ended (a '\r'    *)
(* may be the last byte of one). Two exceptions are in the code: what       *)
(* do_request() makes of a complete request, and a request whose body is    *)
(* still incomplete, which is answered as an internal error.                *)
ParsesAsAWhole ==
  /\ stage = "in" => ~Complete
  /\ stage \in {"respond", "out", "write"} =>
       IF verdict = "INTERNAL_ERROR" THEN checkState = "CONTENT" /\ ~Complete
       ELSE IF verdict = "BAD_REQUEST" THEN Complete
       ELSE Verdict(buf) = "GET_REQUEST"

(* writev() is given a file only for a request of a file, which do_request() *)
(* has mapped or failed to map; a reply without a file holds no mapping; and *)
(* a connection that reads has none left from the reply before.             *)
FileMappedForReply ==
  /\ stage \in {"out", "write"} /\ iovCount = 2 =>
       verdict = "FILE_REQUEST" /\ mapping \in {"mapped", "MAP_FAILED"}
  /\ stage \in {"out", "write"} /\ mapping = "mapped" => iovCount = 2
  /\ stage \in {"in", "parse"} => mapping \in {"null", "garbage"}

(* A file that do_request() has mapped stays mapped through process_write()  *)
(* and every retry of write(), also while the connection waits for room: it *)
(* is unmapped in the very step that ends the reply.                        *)
MappedUntilReplyOver ==
  [][mapping = "mapped" /\ mapping' # "mapped" =>
       stage = "write" /\ stage' \in {"in", "closed"}]_vars

(* A complete request is answered or its connection closed, unless the      *)
(* client does not take the answer.                                         *)
RequestAnswered == Complete ~> (wire # << >> \/ stage = "closed" \/ blocked)

(* http_conn.h:54 and http_conn.cpp:233: a request that is incomplete is    *)
(* read on, and the body is only looked at for whether it was read in full. *)
IncompleteIsReadOn == stage = "respond" => Complete

(* http_conn.cpp:294-299: a file that exists and may be read is mapped to   *)
(* m_file_address, and then the caller is told so.                          *)
FileRequestIsMapped ==
  stage = "respond" /\ verdict = "FILE_REQUEST" => mapping = "mapped"

(* http_conn.h:89: m_write_idx is the number of bytes of the write buffer   *)
(* that are to be sent. Once a reply is over and the connection kept, the   *)
(* client has them all.                                                     *)
BufferSent ==
  [][stage = "write" /\ stage' = "in" => Len(wire') >= BufferUnits]_vars
=============================================================================
