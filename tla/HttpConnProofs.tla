--------------------------- MODULE HttpConnProofs ---------------------------
(***************************************************************************)
(* What holds of a connection for every stream of bytes, every segment it   *)
(* may arrive in, every size of the buffers and of the body: its types,     *)
(* that parsing piece by piece comes to what the bytes mean as a whole, and *)
(* which file is mapped while a reply is sent.                              *)
(***************************************************************************)
EXTENDS HttpConn, HttpParseProofs

-----------------------------------------------------------------------------
(* Types                                                                    *)

LEMMA UnitsType ==
  ASSUME AnswerTypeOK
  PROVE  BufferUnits \in Nat /\ MessageUnits \in Nat
<1>1. HeaderUnits \in Nat /\ FileUnits \in Nat /\ Len(response) \in Nat /\ fileSize \in Nat
  BY ConnAssumption DEF AnswerTypeOK
<1> QED
  BY <1>1 DEF BufferUnits, MessageUnits

(* parse_line() goes forward, and past the end of no buffer.                *)
LEMMA LineType ==
  ASSUME RequestTypeOK
  PROVE  Line.checked \in checked .. Len(buf)
<1> DEFINE marks == LineMarks(buf, checked)
           i == FirstOf(marks)
<1>1. CASE marks = {}
  BY <1>1 DEF Line, ParseLine, RequestTypeOK
<1>2. CASE marks # {}
  <2>1. i \in checked + 1 .. Len(buf)
    BY <1>2, FirstMark DEF RequestTypeOK
  <2>2. Line.checked \in {i - 1, i} \/ (Line.checked = i + 1 /\ i # Len(buf))
    BY <1>2 DEF Line, ParseLine, CR, LF
  <2> HIDE DEF i
  <2> QED
    BY <2>1, <2>2 DEF RequestTypeOK
<1> QED
  BY <1>1, <1>2

LEMMA ResponsesType == Responses(verdict) \in Seq({200, 400, 403, 500})
<1>1. /\ <<500>> \in Seq({200, 400, 403, 500}) /\ <<400>> \in Seq({200, 400, 403, 500})
      /\ <<400, 403>> \in Seq({200, 400, 403, 500}) /\ <<403>> \in Seq({200, 400, 403, 500})
      /\ <<200>> \in Seq({200, 400, 403, 500})
  OBVIOUS
<1> QED
  BY <1>1 DEF Responses

LEMMA InitTypes == Init => TypeOK
<1> SUFFICES ASSUME Init PROVE TypeOK
  OBVIOUS
<1>1. << >> \in Seq(Tokens) /\ << >> \in Seq(Nat) /\ << >> \in Seq({200, 400, 403, 500})
  OBVIOUS
<1>2. NetworkTypeOK
  <2>1. outbox \in Seq(Tokens) /\ 0 \in 0..MaxShorts
    BY ConnAssumption DEF Init
  <2> QED
    BY <1>1, <2>1 DEF Init, NetworkTypeOK
<1>3. RequestTypeOK
  BY <1>1, ConnAssumption DEF Init, RequestTypeOK
<1>4. AnswerTypeOK /\ stage \in Stages
  BY <1>1 DEF Init, AnswerTypeOK, Stages, HTTP_CODE
<1> QED
  BY <1>2, <1>3, <1>4 DEF TypeOK

(* Every step, for the client and the network. *)
LEMMA NetworkTypes ==
  ASSUME TypeOK, [Next]_vars
  PROVE  NetworkTypeOK'
<1> USE DEF TypeOK, NetworkTypeOK
<1>1. CASE ClientSend
  <2>1. Head(outbox) \in Tokens /\ Tail(outbox) \in Seq(Tokens)
    BY <1>1 DEF ClientSend
  <2> QED
    BY <1>1, <2>1 DEF ClientSend
<1>2. CASE Read
  BY <1>2 DEF Read
<1>3. ASSUME NEW n \in 1..MessageUnits, Writev(n)
      PROVE  NetworkTypeOK'
  <2>1. n \in Nat
    BY UnitsType
  <2>2. [i \in 1..n |-> i] \in Seq(Nat)
    BY <2>1
  <2> QED
    BY <1>3, <2>2, ConnAssumption DEF Writev
<1>4. CASE WriteBlocks
  BY <1>4, ConnAssumption DEF WriteBlocks
<1>5. CASE ClientClose \/ ClientDrain
  BY <1>5 DEF ClientClose, ClientDrain
<1>6. ASSUME UNCHANGED network
      PROVE  NetworkTypeOK'
  BY <1>6 DEF network
<1> QED
  BY <1>1, <1>2, <1>3, <1>4, <1>5, <1>6
  DEF Next, ClientStep, ServerStep, ReadFails, Hangup, LineIncomplete, ParseRequestLine, ParseHeader,
      GetsLine, HeadersEnd, ParseContent, ProcessWrite, BeginWrite, WriteFails, vars

LEMMA RequestTypes ==
  ASSUME TypeOK, [Next]_vars
  PROVE  RequestTypeOK' /\ stage' \in Stages
<1> USE DEF TypeOK, Stages
<1>1. CASE Read
  BY <1>1 DEF Read, RequestTypeOK, NetworkTypeOK
<1>2. CASE LineIncomplete
  BY <1>2, LineType DEF LineIncomplete, RequestTypeOK
<1>3. CASE ParseRequestLine
  BY <1>3, LineType DEF ParseRequestLine, GetsLine, RequestTypeOK
<1>4. CASE ParseHeader
  BY <1>4, LineType DEF ParseHeader, GetsLine, RequestTypeOK
<1>5. ASSUME NEW resource \in Resources, HeadersEnd(resource)
      PROVE  RequestTypeOK' /\ stage' \in Stages
  BY <1>5, LineType DEF HeadersEnd, DoRequest, GetsLine, RequestTypeOK
<1>6. ASSUME NEW resource \in Resources, ParseContent(resource)
      PROVE  RequestTypeOK' /\ stage' \in Stages
  BY <1>6 DEF ParseContent, DoRequest, RequestTypeOK
<1>7. ASSUME NEW n \in 1..MessageUnits, Writev(n)
      PROVE  RequestTypeOK' /\ stage' \in Stages
  <2>1. CASE UNCHANGED request
    BY <1>7, <2>1 DEF Writev, AfterWritev, request, RequestTypeOK
  <2>2. CASE InitRequest
    <3>1. << >> \in Seq(Tokens) /\ Len(<< >>) = 0
      OBVIOUS
    <3>2. RequestTypeOK'
      BY <2>2, <3>1, ConnAssumption DEF InitRequest, RequestTypeOK
    <3> QED
      BY <1>7, <3>2 DEF Writev, AfterWritev
  <2> QED
    BY <1>7, <2>1, <2>2 DEF Writev, AfterWritev
<1>8. ASSUME UNCHANGED request, stage' \in Stages
      PROVE  RequestTypeOK' /\ stage' \in Stages
  BY <1>8 DEF request, RequestTypeOK
<1>9. CASE ClientStep \/ UNCHANGED vars
  BY <1>8, <1>9 DEF ClientStep, ClientSend, ClientClose, ClientDrain, vars
<1>10. CASE ReadFails \/ Hangup
  BY <1>8, <1>10 DEF ReadFails, Hangup
<1>11. CASE ProcessWrite \/ BeginWrite \/ WriteBlocks \/ WriteFails
  BY <1>8, <1>11 DEF ProcessWrite, BeginWrite, WriteBlocks, WriteFails
<1> QED
  BY <1>1, <1>2, <1>3, <1>4, <1>5, <1>6, <1>7, <1>9, <1>10, <1>11 DEF Next, ServerStep

LEMMA DoRequestTypes ==
  ASSUME AnswerTypeOK, NEW resource \in Resources, DoRequest(resource)
  PROVE  AnswerTypeOK'
BY DEF DoRequest, AnswerTypeOK, HTTP_CODE, reply

LEMMA AnswerTypes ==
  ASSUME TypeOK, [Next]_vars
  PROVE  AnswerTypeOK'
<1> USE DEF TypeOK
<1>1. ASSUME UNCHANGED answer, verdict' \in HTTP_CODE
      PROVE  AnswerTypeOK'
  BY <1>1 DEF answer, file, reply, AnswerTypeOK
<1>2. verdict \in HTTP_CODE /\ {"NO_REQUEST", "BAD_REQUEST", "INTERNAL_ERROR"} \subseteq HTTP_CODE
  BY DEF AnswerTypeOK, HTTP_CODE
<1>3. CASE ClientStep \/ UNCHANGED vars
  BY <1>1, <1>2, <1>3 DEF ClientStep, ClientSend, ClientClose, ClientDrain, vars
<1>4. CASE Read \/ ReadFails \/ Hangup
  BY <1>1, <1>2, <1>4 DEF Read, ReadFails, Hangup
<1>5. CASE LineIncomplete \/ ParseRequestLine \/ ParseHeader
  BY <1>1, <1>2, <1>5 DEF LineIncomplete, ParseRequestLine, ParseHeader
<1>6. ASSUME NEW resource \in Resources, HeadersEnd(resource) \/ ParseContent(resource)
      PROVE  AnswerTypeOK'
  BY <1>1, <1>2, <1>6, DoRequestTypes DEF HeadersEnd, ParseContent
<1>7. CASE ProcessWrite
  <2>1. response' \in Seq({200, 400, 403, 500})
    BY <1>7, ResponsesType DEF ProcessWrite, AnswerTypeOK
  <2> QED
    BY <1>7, <2>1 DEF ProcessWrite, AnswerTypeOK, file
<1>8. CASE BeginWrite
  BY <1>8 DEF BeginWrite, AnswerTypeOK, file
<1>9. ASSUME NEW n \in 1..MessageUnits, Writev(n)
      PROVE  AnswerTypeOK'
  <2>1. n \in Nat
    BY UnitsType
  <2>2. << >> \in Seq({200, 400, 403, 500})
    OBVIOUS
  <2>3. response' \in Seq({200, 400, 403, 500})
    BY <1>9, <2>2 DEF Writev, AfterWritev, InitRequest, AnswerTypeOK
  <2>4. haveSent' \in Nat
    BY <1>9, <2>1 DEF Writev, AfterWritev, AnswerTypeOK
  <2>5. fileSize' \in {0, FileUnits} /\ mapping' \in {"null", "mapped", "MAP_FAILED", "garbage"}
    BY <1>9 DEF Writev, AfterWritev, Unmap, AnswerTypeOK, file
  <2> QED
    BY <1>9, <2>3, <2>4, <2>5 DEF Writev, AnswerTypeOK
<1>10. CASE WriteBlocks
  BY <1>1, <1>2, <1>10 DEF WriteBlocks
<1>11. CASE WriteFails
  BY <1>11 DEF WriteFails, Unmap, AnswerTypeOK, reply
<1> QED
  BY <1>3, <1>4, <1>5, <1>6, <1>7, <1>8, <1>9, <1>10, <1>11 DEF Next, ServerStep

(* The variables of a connection keep their types; in particular m_read_buf *)
(* never runs over, and the indexes into it stay in order.                  *)
THEOREM ConnTypeOK == Spec => []TypeOK
<1>1. TypeOK /\ [Next]_vars => TypeOK'
  BY NetworkTypes, RequestTypes, AnswerTypes DEF TypeOK
<1> QED
  BY InitTypes, <1>1, PTL DEF Spec

-----------------------------------------------------------------------------
(* Parsing                                                                  *)

(* What has been read, up to m_checked_idx, while a request is parsed. Each *)
(* state of the parser knows what came before the line it waits for.        *)
LinesRead ==
  stage \in {"in", "parse"} =>
    /\ Parsed(buf, start, checked)
    /\ checkState = "REQUESTLINE" => start = 0 /\ contentLength = 0
    /\ checkState = "HEADER" =>
         Headers(buf, start) /\ (contentLength # 0 <=> HasLength(buf, start))
    /\ checkState = "CONTENT" =>
         /\ stage = "parse" /\ start = checked /\ contentLength # 0
         /\ HeadersEndAt(buf, start) /\ HasLength(buf, start - 2)

ParseInv == TypeOK /\ LinesRead /\ ParsesAsAWhole

(* Bytes that arrive do not change what is known.                           *)
LEMMA ReadKeeps == ASSUME ParseInv, Read PROVE ParseInv'
<1>1. TypeOK'
  BY NetworkTypes, RequestTypes, AnswerTypes DEF ParseInv, TypeOK, Next, ServerStep
<1>2. /\ buf \in Seq(Tokens) /\ inbox \in Seq(Tokens) /\ checked \in 0..Len(buf)
      /\ start \in 0..checked /\ start \in 0..Len(buf)
  BY DEF ParseInv, TypeOK, NetworkTypeOK, RequestTypeOK
<1>3. stage = "in" /\ stage' = "parse" /\ buf' = buf \o inbox
  BY DEF Read
<1>4. UNCHANGED <<checked, start, checkState, contentLength>>
  BY DEF Read
<1>5. checkState # "CONTENT" /\ Parsed(buf, start, checked)
  BY <1>3 DEF ParseInv, LinesRead
<1>6. Parsed(buf', start, checked)
  BY <1>2, <1>3, <1>5, ParsedStays
<1>7. /\ Headers(buf, start) => Headers(buf', start)
      /\ HasLength(buf', start) <=> HasLength(buf, start)
  BY <1>2, <1>3, HeadersStay
<1>8. LinesRead'
  BY <1>3, <1>4, <1>5, <1>6, <1>7 DEF ParseInv, LinesRead
<1>9. ParsesAsAWhole'
  BY <1>3 DEF ParsesAsAWhole
<1> QED
  BY <1>1, <1>8, <1>9 DEF ParseInv

(* What the line parsers find when they are called.                         *)
LEMMA LinesWhenParsing ==
  ASSUME ParseInv, stage = "parse"
  PROVE  /\ buf \in Seq(Tokens) /\ checked \in 0..Len(buf) /\ start \in 0..checked
         /\ Parsed(buf, start, checked)
         /\ checkState = "REQUESTLINE" => start = 0 /\ contentLength = 0
         /\ checkState = "HEADER" =>
              Headers(buf, start) /\ (contentLength # 0 <=> HasLength(buf, start))
         /\ checkState \in {"REQUESTLINE", "HEADER", "CONTENT"}
BY DEF ParseInv, LinesRead, TypeOK, RequestTypeOK

(* No line: nothing complete is there, and the next call goes on from here. *)
LEMMA IncompleteKeeps == ASSUME ParseInv, LineIncomplete PROVE ParseInv'
<1>1. TypeOK'
  BY NetworkTypes, RequestTypes, AnswerTypes DEF ParseInv, TypeOK, Next, ServerStep
<1>2. /\ stage = "parse" /\ checkState # "CONTENT" /\ Line.status # "LINE_OK"
      /\ checked' = Line.checked /\ stage' = "in"
      /\ UNCHANGED <<buf, start, checkState, contentLength>>
  BY DEF LineIncomplete
<1>3. Parsed(buf, start, Line.checked)
  BY <1>2, LinesWhenParsing, NoLineFound DEF Line
<1>4. Verdict(buf) = "NO_REQUEST"
  BY <1>2, LinesWhenParsing, RequestIncomplete DEF Line
<1>5. LinesRead'
  BY <1>2, <1>3, LinesWhenParsing DEF LinesRead
<1>6. ParsesAsAWhole'
  BY <1>2, <1>4 DEF ParsesAsAWhole, Complete
<1> QED
  BY <1>1, <1>5, <1>6 DEF ParseInv

LEMMA RequestLineKeeps == ASSUME ParseInv, ParseRequestLine PROVE ParseInv'
<1>1. TypeOK'
  BY NetworkTypes, RequestTypes, AnswerTypes DEF ParseInv, TypeOK, Next, ServerStep
<1>2. /\ stage = "parse" /\ checkState = "REQUESTLINE" /\ Line.status = "LINE_OK"
      /\ checked' = Line.checked /\ start' = Line.checked
      /\ UNCHANGED <<buf, contentLength>>
  BY DEF ParseRequestLine, GetsLine
<1>3. start = 0 /\ contentLength = 0
  BY <1>2, LinesWhenParsing
<1>4. IF Text = <<"get">> THEN Headers(buf, Line.checked) /\ ~HasLength(buf, Line.checked)
                          ELSE Verdict(buf) = "BAD_REQUEST"
  BY <1>2, <1>3, LinesWhenParsing, RequestLineRead DEF Line, Text
<1>5. CASE Text = <<"get">>
  <2>1. checkState' = "HEADER" /\ stage' = "parse"
    BY <1>2, <1>5 DEF ParseRequestLine, RequestLineOk
  <2>2. Parsed(buf, Line.checked, Line.checked)
    BY <1>2, LinesWhenParsing, LineFound DEF Line, Parsed
  <2>3. LinesRead'
    BY <1>2, <1>3, <1>4, <1>5, <2>1, <2>2 DEF LinesRead
  <2> QED
    BY <1>1, <2>1, <2>3 DEF ParseInv, ParsesAsAWhole
<1>6. CASE Text # <<"get">>
  <2>1. verdict' = "BAD_REQUEST" /\ stage' = "respond"
    BY <1>6 DEF ParseRequestLine, RequestLineOk
  <2> QED
    BY <1>1, <1>2, <1>4, <1>6, <2>1 DEF ParseInv, LinesRead, ParsesAsAWhole, Complete
<1> QED
  BY <1>5, <1>6

LEMMA HeaderKeeps == ASSUME ParseInv, ParseHeader PROVE ParseInv'
<1>1. TypeOK'
  BY NetworkTypes, RequestTypes, AnswerTypes DEF ParseInv, TypeOK, Next, ServerStep
<1>2. /\ stage = "parse" /\ checkState = "HEADER" /\ Line.status = "LINE_OK"
      /\ checked' = Line.checked /\ start' = Line.checked /\ Text # << >>
      /\ UNCHANGED <<buf, stage, checkState>>
  BY DEF ParseHeader, GetsLine
<1>3. contentLength' = IF Head(Text) = "length" THEN BodyLength ELSE contentLength
  BY <1>2 DEF ParseHeader, HeaderIs
<1>4. Headers(buf, start) /\ (contentLength # 0 <=> HasLength(buf, start))
  BY <1>2, LinesWhenParsing
<1>5. /\ Headers(buf, Line.checked)
      /\ HasLength(buf, Line.checked) <=> HasLength(buf, start) \/ Head(Text) = "length"
  BY <1>2, <1>4, LinesWhenParsing, HeaderRead DEF Line, Text
<1>6. Parsed(buf, Line.checked, Line.checked)
  BY <1>2, LinesWhenParsing, LineFound DEF Line, Parsed
<1>7. LinesRead'
  BY <1>2, <1>3, <1>4, <1>5, <1>6, BodyAssumption DEF LinesRead
<1> QED
  BY <1>1, <1>2, <1>7 DEF ParseInv, ParsesAsAWhole

(* Whatever do_request() finds, the request was complete.                   *)
LEMMA RequestDone ==
  ASSUME NEW resource, DoRequest(resource), TypeOK', UNCHANGED buf,
         Verdict(buf) = "GET_REQUEST"
  PROVE  ParseInv'
BY DEF DoRequest, ParseInv, LinesRead, ParsesAsAWhole, Complete

LEMMA HeadersEndKeeps ==
  ASSUME ParseInv, NEW resource \in Resources, HeadersEnd(resource)
  PROVE  ParseInv'
<1>1. TypeOK'
  BY NetworkTypes, RequestTypes, AnswerTypes DEF ParseInv, TypeOK, Next, ServerStep
<1>2. /\ stage = "parse" /\ checkState = "HEADER" /\ Line.status = "LINE_OK"
      /\ checked' = Line.checked /\ start' = Line.checked /\ Text = << >>
      /\ UNCHANGED <<buf, contentLength>>
  BY DEF HeadersEnd, GetsLine
<1>3. Headers(buf, start) /\ (contentLength # 0 <=> HasLength(buf, start))
  BY <1>2, LinesWhenParsing
<1>4. Line.checked = start + 2 /\ HeadersEndAt(buf, Line.checked)
  BY <1>2, <1>3, LinesWhenParsing, EmptyLineRead DEF Line, Text
<1>5. Line.checked \in 0..Len(buf) /\ Line.checked - 2 = start
  BY <1>4, LineType, LinesWhenParsing, <1>2 DEF ParseInv, TypeOK
<1>6. CASE contentLength # 0
  <2>1. checkState' = "CONTENT" /\ stage' = "parse"
    BY <1>2, <1>6 DEF HeadersEnd
  <2>2. Parsed(buf, Line.checked, Line.checked)
    BY <1>4, <1>5 DEF HeadersEndAt, Parsed
  <2>3. LinesRead'
    BY <1>2, <1>3, <1>4, <1>5, <1>6, <2>1, <2>2 DEF LinesRead
  <2> QED
    BY <1>1, <2>1, <2>3 DEF ParseInv, ParsesAsAWhole
<1>7. CASE contentLength = 0
  <2>1. Verdict(buf) = "GET_REQUEST"
    BY <1>3, <1>4, <1>5, <1>7, LinesWhenParsing, <1>2, HeadersOver
  <2>2. DoRequest(resource)
    BY <1>7 DEF HeadersEnd
  <2> QED
    BY <1>1, <1>2, <2>1, <2>2, RequestDone
<1> QED
  BY <1>6, <1>7

LEMMA ContentKeeps ==
  ASSUME ParseInv, NEW resource \in Resources, ParseContent(resource)
  PROVE  ParseInv'
<1>1. TypeOK'
  BY NetworkTypes, RequestTypes, AnswerTypes DEF ParseInv, TypeOK, Next, ServerStep
<1>2. stage = "parse" /\ checkState = "CONTENT" /\ UNCHANGED <<buf, checkState>>
  BY DEF ParseContent
<1>3. /\ start = checked /\ contentLength = BodyLength
      /\ HeadersEndAt(buf, start) /\ HasLength(buf, start - 2)
  BY <1>2 DEF ParseInv, LinesRead, TypeOK, RequestTypeOK
<1>4. Verdict(buf) = IF Len(buf) < start + BodyLength THEN "NO_REQUEST" ELSE "GET_REQUEST"
  BY <1>2, <1>3, LinesWhenParsing, HeadersOver
<1>5. Len(buf) >= contentLength + checked <=> ~(Len(buf) < start + BodyLength)
  BY <1>2, <1>3, LinesWhenParsing, BodyAssumption
<1>6. CASE Len(buf) >= contentLength + checked
  <2>1. DoRequest(resource)
    BY <1>6 DEF ParseContent
  <2> QED
    BY <1>1, <1>2, <1>4, <1>5, <1>6, <2>1, RequestDone
<1>7. CASE ~(Len(buf) >= contentLength + checked)
  <2>1. verdict' = "INTERNAL_ERROR" /\ stage' = "respond"
    BY <1>7 DEF ParseContent
  <2> QED
    BY <1>1, <1>2, <1>4, <1>5, <1>7, <2>1
    DEF ParseInv, LinesRead, ParsesAsAWhole, Complete
<1> QED
  BY <1>6, <1>7

(* init(): nothing has been read of the next request.                       *)
LEMMA NothingRead ==
  ASSUME NEW s, s = << >>
  PROVE  Parsed(s, 0, 0) /\ Verdict(s) = "NO_REQUEST"
<1>1. LineEnds(s) = {}
  BY DEF LineEnds
<1> QED
  BY <1>1 DEF Parsed, WholeLines, Verdict

LEMMA InitRequestIsIn ==
  ASSUME InitRequest, stage' = "in", TypeOK'
  PROVE  ParseInv'
<1>1. /\ buf' = << >> /\ checked' = 0 /\ start' = 0
      /\ checkState' = "REQUESTLINE" /\ contentLength' = 0
  BY DEF InitRequest
<1>2. Parsed(buf', start', checked') /\ Verdict(buf') = "NO_REQUEST"
  BY <1>1, NothingRead
<1> QED
  BY <1>1, <1>2 DEF ParseInv, LinesRead, ParsesAsAWhole, Complete

(* The steps between a verdict and the end of the reply.                    *)
LEMMA ReplyKeeps ==
  ASSUME ParseInv, TypeOK', UNCHANGED <<request, verdict>>,
         stage' = "closed" \/ stage' = stage
         \/ (stage \in {"respond", "out", "write"} /\ stage' \in {"respond", "out", "write"})
  PROVE  ParseInv'
BY DEF ParseInv, LinesRead, ParsesAsAWhole, Complete, request

LEMMA ParseInit == Init => ParseInv
<1> SUFFICES ASSUME Init PROVE ParseInv
  OBVIOUS
<1>1. /\ buf = << >> /\ checked = 0 /\ start = 0 /\ stage = "in"
      /\ checkState = "REQUESTLINE" /\ contentLength = 0
  BY DEF Init
<1>2. Parsed(buf, start, checked) /\ Verdict(buf) = "NO_REQUEST"
  BY <1>1, NothingRead
<1> QED
  BY <1>1, <1>2, InitTypes DEF ParseInv, LinesRead, ParsesAsAWhole, Complete

LEMMA ParseNext ==
  ASSUME ParseInv, [Next]_vars
  PROVE  ParseInv'
<1>1. TypeOK'
  BY NetworkTypes, RequestTypes, AnswerTypes DEF ParseInv, TypeOK
<1>2. CASE ClientStep \/ UNCHANGED vars
  BY <1>1, <1>2, ReplyKeeps DEF ClientStep, ClientSend, ClientClose, ClientDrain, vars
<1>3. CASE ReadFails \/ Hangup \/ WriteFails
  BY <1>1, <1>3, ReplyKeeps DEF ReadFails, Hangup, WriteFails
<1>4. CASE ProcessWrite \/ BeginWrite \/ WriteBlocks
  BY <1>1, <1>4, ReplyKeeps DEF ProcessWrite, BeginWrite, WriteBlocks
<1>5. ASSUME NEW n \in 1..MessageUnits, Writev(n)
      PROVE  ParseInv'
  <2>1. CASE UNCHANGED request
    <3>1. stage' = stage \/ stage' = "closed" \/ (InitRequest /\ stage' = "in")
      BY <1>5 DEF Writev, AfterWritev
    <3>2. UNCHANGED verdict
      BY <1>5 DEF Writev
    <3> QED
      BY <1>1, <2>1, <3>1, <3>2, ReplyKeeps, InitRequestIsIn
  <2>2. CASE InitRequest /\ stage' = "in"
    BY <1>1, <2>2, InitRequestIsIn
  <2> QED
    BY <1>5, <2>1, <2>2 DEF Writev, AfterWritev
<1> QED
  BY <1>2, <1>3, <1>4, <1>5, ReadKeeps, IncompleteKeeps, RequestLineKeeps, HeaderKeeps,
     HeadersEndKeeps, ContentKeeps
  DEF Next, ServerStep

(* Whatever the segments that a request arrives in, an object that waits    *)
(* for input holds no complete request, and what is answered is the verdict *)
(* on all the bytes, with the two exceptions the property names.            *)
THEOREM ConnParsesAsAWhole == Spec => []ParsesAsAWhole
<1>1. ParseInv /\ [Next]_vars => ParseInv'
  BY ParseNext
<1>2. ParseInv => ParsesAsAWhole
  BY DEF ParseInv
<1> QED
  BY ParseInit, <1>1, <1>2, PTL DEF Spec

-----------------------------------------------------------------------------
(* Mappings                                                                 *)

(* A mapping, or the failure to make one, is there for a file that was      *)
(* asked for, and the reply has two parts when that file is not empty.      *)
MappingInv ==
  /\ stage \in {"in", "parse"} => mapping \in {"null", "garbage"}
  /\ stage \in {"respond", "out", "write"} =>
       IF verdict = "FILE_REQUEST"
       THEN mapping \in {"mapped", "MAP_FAILED"} /\ (mapping = "mapped" => fileSize # 0)
       ELSE mapping \in {"null", "garbage"}
  /\ stage \in {"out", "write"} => (iovCount = 2 <=> verdict = "FILE_REQUEST" /\ fileSize # 0)

LEMMA MappingNext ==
  ASSUME MappingInv, [Next]_vars
  PROVE  MappingInv'
<1> USE DEF MappingInv
<1>1. CASE ClientStep \/ UNCHANGED vars
  BY <1>1 DEF ClientStep, ClientSend, ClientClose, ClientDrain, vars, answer, file, reply
<1>2. CASE Read \/ ReadFails \/ Hangup
  BY <1>2 DEF Read, ReadFails, Hangup, answer, file, reply
<1>3. CASE LineIncomplete \/ ParseRequestLine \/ ParseHeader
  BY <1>3 DEF LineIncomplete, ParseRequestLine, ParseHeader, GetsLine, answer, file, reply
<1>4. ASSUME NEW resource \in Resources, HeadersEnd(resource) \/ ParseContent(resource)
      PROVE  MappingInv'
  <2>1. stage = "parse" /\ mapping \in {"null", "garbage"}
    BY <1>4 DEF HeadersEnd, GetsLine, ParseContent
  <2>2. CASE DoRequest(resource)
    BY <2>1, <2>2, ConnAssumption DEF DoRequest, ResourceSet
  <2>3. CASE UNCHANGED answer /\ stage' \in {"parse", "respond"}
             /\ (stage' = "respond" => verdict' = "INTERNAL_ERROR")
    BY <2>1, <2>3 DEF answer, file
  <2> QED
    BY <1>4, <2>1, <2>2, <2>3 DEF HeadersEnd, ParseContent
<1>5. CASE ProcessWrite
  BY <1>5 DEF ProcessWrite, file
<1>6. CASE BeginWrite \/ WriteBlocks \/ WriteFails
  BY <1>6 DEF BeginWrite, WriteBlocks, WriteFails, Unmap, answer, file, reply
<1>7. ASSUME NEW n \in 1..MessageUnits, Writev(n)
      PROVE  MappingInv'
  BY <1>7 DEF Writev, AfterWritev, Unmap, file
<1> QED
  BY <1>1, <1>2, <1>3, <1>4, <1>5, <1>6, <1>7 DEF Next, ServerStep

LEMMA MappingInvariance == Spec => []MappingInv
<1>1. Init => MappingInv
  BY DEF Init, MappingInv
<1>2. MappingInv /\ [Next]_vars => MappingInv'
  BY MappingNext
<1> QED
  BY <1>1, <1>2, PTL DEF Spec

(* writev() is given a file only for a request of one, mapped or failed to  *)
(* map; a reply without a file holds no mapping, and neither does a         *)
(* connection that reads, whatever m_file_address was before it was written.*)
THEOREM ConnFileMappedForReply == Spec => []FileMappedForReply
<1>1. MappingInv => FileMappedForReply
  BY DEF MappingInv, FileMappedForReply
<1> QED
  BY <1>1, MappingInvariance, PTL

(* A mapping is taken away only by the step of write() that ends the reply. *)
LEMMA OnlyWriteUnmaps ==
  ASSUME MappingInv, Next, mapping = "mapped", mapping' # "mapped"
  PROVE  stage = "write" /\ stage' \in {"in", "closed"}
<1>1. ~ClientStep
  BY DEF ClientStep, ClientSend, ClientClose, ClientDrain, answer, file
<1>2. ~(Read \/ ReadFails \/ Hangup)
  BY DEF Read, ReadFails, Hangup, answer, file
<1>3. ~(LineIncomplete \/ ParseRequestLine \/ ParseHeader)
  BY DEF LineIncomplete, ParseRequestLine, ParseHeader, answer, file
<1>4. ASSUME NEW resource \in Resources, HeadersEnd(resource) \/ ParseContent(resource)
      PROVE  FALSE
  BY <1>4 DEF MappingInv, HeadersEnd, GetsLine, ParseContent
<1>5. ~(ProcessWrite \/ BeginWrite \/ WriteBlocks)
  BY DEF ProcessWrite, BeginWrite, WriteBlocks, answer, file
<1>6. CASE WriteFails
  BY <1>6 DEF WriteFails
<1>7. ASSUME NEW n \in 1..MessageUnits, Writev(n)
      PROVE  stage = "write" /\ stage' \in {"in", "closed"}
  BY <1>7 DEF Writev, AfterWritev, file
<1> QED
  BY <1>1, <1>2, <1>3, <1>4, <1>5, <1>6, <1>7 DEF Next, ServerStep

(* A file that was mapped stays mapped through every retry and every wait   *)
(* for room, until the reply is over.                                       *)
THEOREM ConnMappedUntilReplyOver == Spec => MappedUntilReplyOver
<1>1. MappingInv /\ [Next]_vars =>
        [mapping = "mapped" /\ mapping' # "mapped" =>
           stage = "write" /\ stage' \in {"in", "closed"}]_vars
  BY OnlyWriteUnmaps
<1> QED
  BY <1>1, MappingInvariance, PTL DEF Spec, MappedUntilReplyOver
=============================================================================
