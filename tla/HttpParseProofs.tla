--------------------------- MODULE HttpParseProofs ---------------------------
(***************************************************************************)
(* Lemmas about the parser of HTTP requests, for every buffer: what         *)
(* parse_line() finds, and how a request that is looked at line by line     *)
(* comes to what the buffer means as a whole. HttpConn and HeaderParser use *)
(* them.                                                                    *)
(***************************************************************************)
EXTENDS HttpParse, SequenceTheorems, WellFoundedInduction, TLAPS

-----------------------------------------------------------------------------
(* The least element of a set of numbers.                                   *)

(* There is one. The order of Nat is well-founded; this is its only use.    *)
LEMMA FirstExists ==
  ASSUME NEW S, S \subseteq Nat, S # {}
  PROVE  FirstOf(S) \in S /\ \A j \in S : FirstOf(S) <= j
<1> DEFINE R == OpToRel(<, Nat)
<1>1. \E x \in S : \A y \in S : ~ (<<y, x>> \in R)
  BY NatLessThanWellFounded, WFMin
<1>2. \A x, y \in Nat : <<y, x>> \in R <=> y < x
  BY DEF OpToRel
<1> HIDE DEF R
<1>3. PICK x \in S : \A y \in S : ~ (<<y, x>> \in R)
  BY <1>1
<1>4. ASSUME NEW y \in S
      PROVE  x <= y
  <2>1. ~ (<<y, x>> \in R) /\ y \in Nat /\ x \in Nat
    BY <1>3
  <2>2. ~ (y < x)
    BY <1>2, <2>1
  <2> QED
    BY <2>1, <2>2
<1> QED
  BY <1>4 DEF FirstOf

LEMMA FirstIs ==
  ASSUME NEW S, S \subseteq Int, NEW m \in S, \A j \in S : m <= j
  PROVE  FirstOf(S) = m
<1>1. FirstOf(S) \in S /\ \A j \in S : FirstOf(S) <= j
  BY DEF FirstOf
<1>2. FirstOf(S) \in Int /\ m \in Int /\ FirstOf(S) <= m /\ m <= FirstOf(S)
  BY <1>1
<1> QED
  BY <1>2

-----------------------------------------------------------------------------
(* Lines                                                                    *)

Ends == {CR, LF}

(* Up to start every '\r' and '\n' is half of a line end, and start is the  *)
(* end of a line, or nothing has been read.                                 *)
WholeLines(s, start) ==
  /\ start = 0 \/ (start >= 2 /\ s[start - 1] = CR /\ s[start] = LF)
  /\ \A i \in 1..start :
       /\ s[i] = LF => i > 1 /\ s[i - 1] = CR
       /\ s[i] = CR => i < start /\ s[i + 1] = LF

(* From start to checked there is no line end, and none has begun.          *)
Parsed(s, start, checked) ==
  /\ WholeLines(s, start)
  /\ \A i \in start + 1 .. checked : s[i] \notin Ends

LEMMA EndsDiffer == CR # LF
BY DEF CR, LF

(* What is read later leaves the lines as they are.                         *)
LEMMA ParsedStays ==
  ASSUME NEW s \in Seq(Tokens), NEW t \in Seq(Tokens),
         NEW checked \in 0..Len(s), NEW start \in 0..checked, Parsed(s, start, checked)
  PROVE  Parsed(s \o t, start, checked)
<1>1. \A i \in 1..Len(s) : (s \o t)[i] = s[i]
  BY ConcatProperties
<1> QED
  BY <1>1 DEF Parsed, WholeLines

LEMMA FlawsFollow ==
  ASSUME NEW s \in Seq(Tokens), NEW start \in 0..Len(s), WholeLines(s, start)
  PROVE  \A j \in Flaws(s) : j > start
BY DEF WholeLines, Flaws

(* The line ends up to start are where the '\r' are.                        *)
LEMMA LineEndsBefore ==
  ASSUME NEW s \in Seq(Tokens), NEW start \in 0..Len(s), WholeLines(s, start),
         NEW i \in 1..start
  PROVE  i \in LineEnds(s) <=> s[i] = CR
<1>1. \A j \in Flaws(s) : i < j
  BY FlawsFollow DEF Flaws
<1> QED
  BY <1>1 DEF LineEnds, WholeLines

(* The byte at which parse_line() stops.                                    *)
LEMMA FirstMark ==
  ASSUME NEW s \in Seq(Tokens), NEW checked \in 0..Len(s), LineMarks(s, checked) # {}
  PROVE  LET i == FirstOf(LineMarks(s, checked))
         IN  /\ i \in checked + 1 .. Len(s) /\ s[i] \in Ends
             /\ \A j \in checked + 1 .. i - 1 : s[j] \notin Ends
<1> DEFINE marks == LineMarks(s, checked)
           i == FirstOf(marks)
<1>1. marks \subseteq Nat
  BY DEF LineMarks
<1>2. i \in marks /\ \A j \in marks : i <= j
  BY <1>1, FirstExists
<1> HIDE DEF i
<1>3. i \in checked + 1 .. Len(s) /\ s[i] \in Ends
  BY <1>2 DEF LineMarks, Ends
<1>4. \A j \in checked + 1 .. i - 1 : s[j] \notin Ends
  BY <1>2, <1>3 DEF LineMarks, Ends
<1> QED
  BY <1>3, <1>4 DEF i

(* parse_line() has found a line: it is the next one.                       *)
LEMMA LineFound ==
  ASSUME NEW s \in Seq(Tokens), NEW checked \in 0..Len(s), NEW start \in 0..checked,
         Parsed(s, start, checked), ParseLine(s, checked).status = "LINE_OK"
  PROVE  LET c == ParseLine(s, checked).checked
         IN  /\ c \in checked + 1 .. Len(s)
             /\ c >= start + 2
             /\ s[c - 1] = CR /\ s[c] = LF
             /\ \A i \in start + 1 .. c - 2 : s[i] \notin Ends
             /\ WholeLines(s, c)
<1> DEFINE marks == LineMarks(s, checked)
           i == FirstOf(marks)
           c == ParseLine(s, checked).checked
<1>1. marks # {}
  BY DEF ParseLine
<1>2. /\ i \in checked + 1 .. Len(s) /\ s[i] \in Ends
      /\ \A j \in checked + 1 .. i - 1 : s[j] \notin Ends
  BY <1>1, FirstMark
<1>3. i \in checked + 1 .. Len(s) /\ s[i] \in Ends
  BY <1>2
<1>4. \A j \in start + 1 .. i - 1 : s[j] \notin Ends
  BY <1>2 DEF Parsed
<1>5. ~ (s[i] = LF /\ i > 2 /\ s[i - 1] = CR)
  BY <1>3, <1>4, EndsDiffer DEF Parsed, WholeLines, Ends
<1>6. s[i] = CR /\ i < Len(s) /\ s[i + 1] = LF /\ c = i + 1
  BY <1>1, <1>3, <1>5, EndsDiffer DEF ParseLine, Ends
<1>7. WholeLines(s, c)
  BY <1>3, <1>4, <1>6, EndsDiffer DEF Parsed, WholeLines, Ends
<1> HIDE DEF marks, i, c
<1> QED
  BY <1>3, <1>4, <1>6, <1>7 DEF c

(* It has not: there is none, now or in what follows a bad one.             *)
LEMMA NoLineFound ==
  ASSUME NEW s \in Seq(Tokens), NEW checked \in 0..Len(s), NEW start \in 0..checked,
         Parsed(s, start, checked), ParseLine(s, checked).status # "LINE_OK"
  PROVE  LET c == ParseLine(s, checked).checked
         IN  /\ c \in checked .. Len(s)
             /\ Parsed(s, start, c)
             /\ \A j \in LineEnds(s) : j < start
<1> DEFINE marks == LineMarks(s, checked)
           i == FirstOf(marks)
           c == ParseLine(s, checked).checked
<1>0. \A j \in LineEnds(s) : j \in 1..Len(s) /\ s[j] = CR /\ j # start
  BY EndsDiffer DEF LineEnds, Parsed, WholeLines
<1>1. CASE marks = {}
  <2>1. c = Len(s)
    BY <1>1 DEF ParseLine
  <2>2. \A j \in start + 1 .. Len(s) : s[j] \notin Ends
    BY <1>1 DEF LineMarks, Parsed, Ends
  <2> QED
    BY <1>0, <2>1, <2>2 DEF Parsed, Ends
<1>2. CASE marks # {}
  <2>1. /\ i \in checked + 1 .. Len(s) /\ s[i] \in Ends
        /\ \A j \in checked + 1 .. i - 1 : s[j] \notin Ends
    BY <1>2, FirstMark
  <2>2. i \in checked + 1 .. Len(s) /\ s[i] \in Ends
    BY <2>1
  <2>3. \A j \in start + 1 .. i - 1 : s[j] \notin Ends
    BY <2>1 DEF Parsed
  <2>4. c = i - 1
    BY <1>2 DEF ParseLine
  <2>5. s[i] = CR /\ i < Len(s) => s[i + 1] # LF
    BY <1>2 DEF ParseLine
  <2>6. i = Len(s) \/ i \in Flaws(s)
    BY <2>2, <2>3, <2>5, EndsDiffer DEF Flaws, Parsed, WholeLines, Ends
  <2>7. \A j \in LineEnds(s) : j < i
    BY <2>6 DEF LineEnds
  <2> HIDE DEF marks, i, c
  <2>8. \A j \in LineEnds(s) : j < start
    BY <1>0, <2>2, <2>3, <2>7 DEF Ends
  <2>9. c \in checked .. Len(s) /\ Parsed(s, start, c)
    BY <2>2, <2>3, <2>4 DEF Parsed
  <2> QED
    BY <2>8, <2>9 DEF c
<1> QED
  BY <1>1, <1>2

-----------------------------------------------------------------------------
(* Requests                                                                 *)

(* Up to start there are the right request line and headers, and no empty   *)
(* line yet.                                                                *)
Headers(s, start) ==
  /\ start >= 3 /\ s[1] = "get" /\ s[2] = CR
  /\ \A i \in 3 .. start - 1 : s[i] = CR => s[i - 2] # CR

(* One of the headers is a Content-Length.                                  *)
HasLength(s, start) == \E i \in 1 .. start - 2 : s[i] = CR /\ s[i + 2] = "length"

(* The empty line after the headers ends at c.                              *)
HeadersEndAt(s, c) ==
  /\ WholeLines(s, c) /\ WholeLines(s, c - 2) /\ s[c - 1] = CR
  /\ Headers(s, c - 2)

LEMMA HeadersStay ==
  ASSUME NEW s \in Seq(Tokens), NEW t \in Seq(Tokens), NEW start \in 0..Len(s)
  PROVE  /\ Headers(s, start) => Headers(s \o t, start)
         /\ HasLength(s \o t, start) <=> HasLength(s, start)
<1>1. \A i \in 1..Len(s) : (s \o t)[i] = s[i]
  BY ConcatProperties
<1> QED
  BY <1>1 DEF Headers, HasLength

(* The first line of all: it is the request line, or the request is bad.    *)
LEMMA RequestLineRead ==
  ASSUME NEW s \in Seq(Tokens), NEW checked \in 0..Len(s),
         Parsed(s, 0, checked), ParseLine(s, checked).status = "LINE_OK"
  PROVE  LET c == ParseLine(s, checked).checked
         IN  IF LineText(s, 0, c) = <<"get">>
             THEN Headers(s, c) /\ ~HasLength(s, c)
             ELSE Verdict(s) = "BAD_REQUEST"
<1> DEFINE c == ParseLine(s, checked).checked
<1>1. /\ c \in checked + 1 .. Len(s) /\ c >= 2
      /\ s[c - 1] = CR /\ s[c] = LF
      /\ \A i \in 1 .. c - 2 : s[i] \notin Ends
      /\ WholeLines(s, c)
  BY LineFound
<1> HIDE DEF c
<1>2. c - 1 \in LineEnds(s)
  BY <1>1, LineEndsBefore
<1>3. \A j \in LineEnds(s) : c - 1 <= j
  BY <1>1 DEF LineEnds, Ends
<1>4. FirstOf(LineEnds(s)) = c - 1
  <2>1. LineEnds(s) \subseteq Int
    BY DEF LineEnds
  <2> QED
    BY <1>2, <1>3, <2>1, FirstIs
<1>5. LineText(s, 0, c) = SubSeq(s, 1, FirstOf(LineEnds(s)) - 1)
  BY <1>1, <1>4 DEF LineText
<1>6. CASE LineText(s, 0, c) # <<"get">>
  BY <1>2, <1>5, <1>6 DEF Verdict, c
<1>7. CASE LineText(s, 0, c) = <<"get">>
  <2>1. SubSeq(s, 1, c - 2) = <<"get">>
    BY <1>1, <1>7 DEF LineText
  <2>2. c - 2 = 1 /\ s[1] = "get"
    <3>1. Len(SubSeq(s, 1, c - 2)) = c - 2
      BY <1>1
    <3>2. c - 2 = 1
      BY <1>1, <2>1, <3>1
    <3>3. SubSeq(s, 1, c - 2)[1] = s[1]
      BY <1>1, <3>2
    <3>4. <<"get">>[1] = "get"
      OBVIOUS
    <3>5. SubSeq(s, 1, c - 2)[1] = "get"
      BY <2>1, <3>4, Zenon
    <3> QED
      BY <3>2, <3>3, <3>5
  <2>3. Headers(s, c) /\ ~HasLength(s, c)
    BY <1>1, <2>2, EndsDiffer DEF Headers, HasLength, CR
  <2> QED
    BY <1>7, <2>3 DEF c
<1> QED
  BY <1>6, <1>7

(* A line after it that is not empty: it is a header.                       *)
LEMMA HeaderRead ==
  ASSUME NEW s \in Seq(Tokens), NEW checked \in 0..Len(s), NEW start \in 0..checked,
         Parsed(s, start, checked), Headers(s, start),
         ParseLine(s, checked).status = "LINE_OK",
         LineText(s, start, ParseLine(s, checked).checked) # << >>
  PROVE  LET c == ParseLine(s, checked).checked
             text == LineText(s, start, c)
         IN  /\ Headers(s, c)
             /\ HasLength(s, c) <=> HasLength(s, start) \/ Head(text) = "length"
<1> DEFINE c == ParseLine(s, checked).checked
           text == LineText(s, start, c)
<1>1. /\ c \in checked + 1 .. Len(s) /\ c >= start + 2
      /\ s[c - 1] = CR /\ s[c] = LF
      /\ \A i \in start + 1 .. c - 2 : s[i] \notin Ends
      /\ WholeLines(s, c)
  BY LineFound
<1>2. text # << >>
  OBVIOUS
<1> HIDE DEF c
<1>3. start >= 3 /\ s[start - 1] = CR /\ s[start] = LF
  BY DEF Headers, Parsed, WholeLines
<1>4. c >= start + 3 /\ Head(text) = s[start + 1]
  BY <1>1, <1>2 DEF LineText
<1>5. \A i \in start .. c - 2 : s[i] # CR
  BY <1>1, <1>3, EndsDiffer DEF Ends
<1>6. Headers(s, c)
  BY <1>1, <1>3, <1>4, <1>5 DEF Headers
<1>7. HasLength(s, c) <=> HasLength(s, start) \/ s[start + 1] = "length"
  BY <1>1, <1>3, <1>4, <1>5 DEF HasLength
<1> QED
  BY <1>4, <1>6, <1>7 DEF c

(* A request line has been read: it is the first line of the whole.         *)
LEMMA RequestLineStays ==
  ASSUME NEW s \in Seq(Tokens), NEW start \in 0..Len(s),
         WholeLines(s, start), Headers(s, start)
  PROVE  LineEnds(s) # {} /\ SubSeq(s, 1, FirstOf(LineEnds(s)) - 1) = <<"get">>
<1>1. 2 \in LineEnds(s)
  BY LineEndsBefore DEF Headers
<1>2. \A j \in LineEnds(s) : 2 <= j
  BY DEF LineEnds, Headers, CR
<1>3. FirstOf(LineEnds(s)) = 2
  <2>1. LineEnds(s) \subseteq Int
    BY DEF LineEnds
  <2> QED
    BY <1>1, <1>2, <2>1, FirstIs
<1>4. SubSeq(s, 1, 1) = <<"get">>
  <2>1. s[1] = "get" /\ 1 \in 1..Len(s)
    BY DEF Headers
  <2>2. Len(SubSeq(s, 1, 1)) = 1 /\ SubSeq(s, 1, 1)[1] = s[1]
    BY <2>1
  <2>3. SubSeq(s, 1, 1) \in Seq(Tokens)
    BY <2>1
  <2>4. <<"get">> \in Seq(Tokens) /\ Len(<<"get">>) = 1 /\ <<"get">>[1] = "get"
    BY DEF Tokens, Texts
  <2>5. \A i \in 1 .. Len(SubSeq(s, 1, 1)) : SubSeq(s, 1, 1)[i] = <<"get">>[i]
    BY <2>1, <2>2, <2>4
  <2> QED
    BY <2>2, <2>3, <2>4, <2>5, SeqEqual, ZenonT(30)
<1> QED
  BY <1>1, <1>3, <1>4

(* No line has been found: there is no complete request yet.                *)
LEMMA RequestIncomplete ==
  ASSUME NEW s \in Seq(Tokens), NEW checked \in 0..Len(s), NEW start \in 0..checked,
         Parsed(s, start, checked), ParseLine(s, checked).status # "LINE_OK",
         start = 0 \/ Headers(s, start)
  PROVE  Verdict(s) = "NO_REQUEST"
<1>1. \A j \in LineEnds(s) : j < start
  BY NoLineFound
<1>2. CASE start = 0
  <2>1. LineEnds(s) = {}
    BY <1>1, <1>2 DEF LineEnds
  <2> QED
    BY <2>1 DEF Verdict
<1>3. CASE Headers(s, start)
  <2>1. EmptyLines(s) = {}
    BY <1>1, <1>3 DEF EmptyLines, LineEnds, Headers
  <2>2. LineEnds(s) # {} /\ SubSeq(s, 1, FirstOf(LineEnds(s)) - 1) = <<"get">>
    BY <1>3, RequestLineStays DEF Parsed
  <2> QED
    BY <2>1, <2>2 DEF Verdict
<1> QED
  BY <1>2, <1>3

(* The line read is empty: it ends the headers.                             *)
LEMMA EmptyLineRead ==
  ASSUME NEW s \in Seq(Tokens), NEW checked \in 0..Len(s), NEW start \in 0..checked,
         Parsed(s, start, checked), Headers(s, start),
         ParseLine(s, checked).status = "LINE_OK",
         LineText(s, start, ParseLine(s, checked).checked) = << >>
  PROVE  LET c == ParseLine(s, checked).checked
         IN  c = start + 2 /\ HeadersEndAt(s, c)
<1> DEFINE c == ParseLine(s, checked).checked
<1>1. /\ c \in checked + 1 .. Len(s) /\ c >= start + 2
      /\ s[c - 1] = CR /\ WholeLines(s, c)
  BY LineFound
<1>2. LineText(s, start, c) = << >>
  OBVIOUS
<1> HIDE DEF c
<1>3. c = start + 2
  BY <1>1, <1>2 DEF LineText
<1> QED
  BY <1>1, <1>3 DEF c, HeadersEndAt, Parsed

(* The headers are over: what is left to wait for is a body.                *)
LEMMA HeadersOver ==
  ASSUME NEW s \in Seq(Tokens), NEW c \in 0..Len(s), HeadersEndAt(s, c)
  PROVE  Verdict(s) = IF HasLength(s, c - 2) /\ Len(s) < c + BodyLength
                      THEN "NO_REQUEST" ELSE "GET_REQUEST"
<1>1. \A i \in 1..c : i \in LineEnds(s) <=> s[i] = CR
  BY LineEndsBefore DEF HeadersEndAt
<1>2. c - 1 \in EmptyLines(s)
  BY <1>1 DEF EmptyLines, Headers, HeadersEndAt, WholeLines
<1>3. \A j \in EmptyLines(s) : c - 1 <= j
  <2> SUFFICES ASSUME NEW j \in EmptyLines(s), j < c - 1
               PROVE  FALSE
    BY DEF EmptyLines, LineEnds
  <2>1. j \in 3 .. c - 2 /\ s[j] = CR /\ s[j - 2] = CR
    BY <1>1 DEF EmptyLines, LineEnds
  <2>2. s[c - 2] # CR
    BY EndsDiffer DEF WholeLines, Headers, HeadersEndAt
  <2> QED
    BY <2>1, <2>2 DEF Headers, HeadersEndAt
<1>4. FirstOf(EmptyLines(s)) = c - 1
  <2>1. EmptyLines(s) \subseteq Int
    BY DEF EmptyLines, LineEnds
  <2> QED
    BY <1>2, <1>3, <2>1, FirstIs
<1>5. DeclaresBody(s) <=> HasLength(s, c - 2)
  <2>1. DeclaresBody(s) <=> \E i \in LineEnds(s) : i + 2 < c - 1 /\ s[i + 2] = "length"
    BY <1>4 DEF DeclaresBody
  <2>2. LineEnds(s) \subseteq Nat \ {0}
    BY DEF LineEnds
  <2> QED
    BY <1>1, <2>1, <2>2 DEF HasLength
<1>6. BodyArrived(s) <=> Len(s) >= c + BodyLength
  BY <1>4, BodyAssumption DEF BodyArrived
<1>7. LineEnds(s) # {} /\ SubSeq(s, 1, FirstOf(LineEnds(s)) - 1) = <<"get">>
  BY RequestLineStays DEF Headers, HeadersEndAt
<1> QED
  BY <1>2, <1>5, <1>6, <1>7, BodyAssumption DEF Verdict
=============================================================================
