----------------------------- MODULE HttpParse ------------------------------
(***************************************************************************)
(* The text of HTTP requests: parse_line() and the line parsers of          *)
(* webserver/http_conn.cpp as operators on the read buffer, and what a      *)
(* buffer means when it is looked at as a whole.                            *)
(*                                                                          *)
(* A buffer is a sequence of tokens: the two bytes that end a line, and the *)
(* texts that the parsers tell apart. A line is parsed when it is complete, *)
(* so it makes no difference that a text arrives in one piece.              *)
(***************************************************************************)
EXTENDS Integers, Sequences

CONSTANT BodyLength   \* the value of a Content-Length header, in tokens

ASSUME BodyAssumption == BodyLength \in Nat \ {0}

CR == "\r"
LF == "\n"

(* "GET / HTTP/1.1", another request line, "Proxy-Connection: close",       *)
(* "Content-Length: n", and any other text: another header, or a body.      *)
Texts == {"get", "post", "close", "length", "text"}
Tokens == Texts \cup {CR, LF}

FirstOf(S) == CHOOSE i \in S : \A j \in S : i <= j

-----------------------------------------------------------------------------
(* parse_line(): its LINE_STATUS and the m_checked_idx it leaves. The       *)
(* buffer keeps the line ends that the code overwrites with '\0'; bytes     *)
(* before m_checked_idx are not looked at again, except by the test of the  *)
(* byte before a line feed, which is never a carriage return then.          *)

LineMarks(buf, checked) == {i \in checked + 1 .. Len(buf) : buf[i] \in {CR, LF}}

(* Mutant: m_checked_idx moves past a '\r' at the end of the buffer, and a  *)
(* '\n' is not looked at for the byte before it.                            *)
ParseLineSkipsCR(buf, checked) ==
  LET marks == LineMarks(buf, checked)
      i == FirstOf(marks)
  IN  IF marks = {} THEN [status |-> "LINE_OPEN", checked |-> Len(buf)]
      ELSE IF buf[i] = CR /\ i = Len(buf) THEN [status |-> "LINE_OPEN", checked |-> i]
      ELSE IF buf[i] = CR /\ buf[i + 1] = LF THEN [status |-> "LINE_OK", checked |-> i + 1]
      ELSE [status |-> "LINE_BAD", checked |-> i - 1]

ParseLine(buf, checked) ==
  LET marks == LineMarks(buf, checked)
      i == FirstOf(marks)
  IN  IF marks = {} THEN [status |-> "LINE_OPEN", checked |-> Len(buf)]
      ELSE IF buf[i] = CR /\ i = Len(buf) THEN [status |-> "LINE_OPEN", checked |-> i - 1]
      ELSE IF buf[i] = CR /\ buf[i + 1] = LF THEN [status |-> "LINE_OK", checked |-> i + 1]
      ELSE IF buf[i] = LF /\ i > 2 /\ buf[i - 1] = CR THEN [status |-> "LINE_OK", checked |-> i]
      ELSE [status |-> "LINE_BAD", checked |-> i - 1]

(* get_line(), after parse_line() has moved m_checked_idx past the line.    *)
LineText(buf, start, checked) == SubSeq(buf, start + 1, checked - 2)

(* parse_request_line() accepts GET, a path and HTTP/1.1, and nothing else  *)
(* on the line.                                                             *)
RequestLineOk(text) == text = <<"get">>

(* parse_headers() tells a header by how its line begins.                   *)
HeaderIs(text, name) == text # << >> /\ Head(text) = name

-----------------------------------------------------------------------------
(* What a buffer means, whatever the segments it came in.                   *)

Flaws(s) == {i \in 1 .. Len(s) :
               \/ s[i] = LF /\ (i = 1 \/ s[i - 1] # CR)
               \/ s[i] = CR /\ i < Len(s) /\ s[i + 1] # LF}

(* The line ends before the first flaw, by their '\r'.                      *)
LineEnds(s) == {i \in 1 .. Len(s) - 1 : s[i] = CR /\ s[i + 1] = LF /\ \A j \in Flaws(s) : i < j}

(* The empty lines that follow another line end.                            *)
EmptyLines(s) == {i \in LineEnds(s) : i - 2 \in LineEnds(s)}

DeclaresBody(s) ==
  \E i \in LineEnds(s) : i + 2 < FirstOf(EmptyLines(s)) /\ s[i + 2] = "length"

BodyArrived(s) == Len(s) > FirstOf(EmptyLines(s)) + BodyLength

Verdict(s) ==
  IF LineEnds(s) = {} THEN "NO_REQUEST"
  ELSE IF SubSeq(s, 1, FirstOf(LineEnds(s)) - 1) # <<"get">> THEN "BAD_REQUEST"
  ELSE IF EmptyLines(s) = {} THEN "NO_REQUEST"
  ELSE IF DeclaresBody(s) /\ ~BodyArrived(s) THEN "NO_REQUEST"
  ELSE "GET_REQUEST"
=============================================================================
