------------------------------- MODULE HttpMessage -------------------------------
(***************************************************************************)
(* The head of an HTTP response: http_parse_response and                   *)
(* http_response_is_chunked (src/src/http.c).                              *)
(*                                                                         *)
(* A response is a sequence of characters, each its ASCII code, and of a   *)
(* few words that are never cut, each a number no character has: the words *)
(* of the status line, Transfer-Encoding in any case, "chunked" in any     *)
(* case, and Text for a word that is none of these.                        *)
(***************************************************************************)
EXTENDS Integers, Sequences

Tab       == 9
LF        == 10
CR        == 13
Space     == 32
Colon     == 58
Http      == 256   \* HTTP/
Version   == 257   \* 1.1
Encoding  == 258   \* Transfer-Encoding
Coded     == 259   \* chunked
Text      == 260   \* any other word; it has four characters

Smallest(S) == CHOOSE n \in S : \A m \in S : n <= m

\* The offsets of a CRLF in d, from offset o on.
LineEnds(d, o) == {p \in o .. (Len(d) - 2) : d[p + 1] = CR /\ d[p + 2] = LF}

HeaderEnds(d) == {p \in LineEnds(d, 0) : p + 2 \in LineEnds(d, p)}

\* How many characters a token of the status line has.
Width(t) == CASE t = Http -> 5 [] t = Version -> 3 [] t = Text -> 4 [] OTHER -> 1

WidthOf(line) ==
  LET upto[k \in 0 .. Len(line)] == IF k = 0 THEN 0 ELSE upto[k - 1] + Width(line[k])
  IN  upto[Len(line)]

Spaces(d) == {p \in 0 .. (Len(d) - 1) : d[p + 1] = Space}

IsDigit(c) == c \in 48 .. 57

\* strtol skips blanks, line ends included, before it looks for digits; it
\* returns 0 where there are none.
strtol(d, o) ==
  LET n        == Smallest({p \in o .. Len(d) : p = Len(d) \/ d[p + 1] \notin {Space, Tab, CR, LF}})
      value[p \in n .. Len(d)] ==
        IF p > n /\ IsDigit(d[p]) THEN value[p - 1] * 10 + d[p] - 48 ELSE 0
  IN  value[Smallest({p \in n .. Len(d) : p = Len(d) \/ ~IsDigit(d[p + 1])})]

\* Fault: what arrived is taken for the head while its end is missing.
HeaderLenOrAll(d) == IF HeaderEnds(d) = {} THEN Len(d) ELSE Smallest(HeaderEnds(d)) + 4

\* The length of the head, 0 if its end has not arrived.
HeaderLen(d) == IF HeaderEnds(d) = {} THEN 0 ELSE Smallest(HeaderEnds(d)) + 4

Refused(rc) == [rc |-> rc, status_code |-> 0, header_len |-> 0, body |-> <<>>]

http_parse_response(d) ==
  IF d = <<>> THEN Refused(-1)
  ELSE IF LineEnds(d, 0) = {} THEN Refused(-2)
  ELSE LET line_end == Smallest(LineEnds(d, 0))
       IN  IF \/ WidthOf(SubSeq(d, 1, line_end)) < 12 \/ d[1] # Http
              \/ Spaces(d) = {} \/ Smallest(Spaces(d)) >= line_end
           THEN Refused(-2)
           ELSE LET status == strtol(d, Smallest(Spaces(d)) + 1)
                IN  IF status < 100 \/ status > 999 THEN Refused(-2)
                    ELSE IF HeaderLen(d) = 0 THEN Refused(-3)
                    ELSE [rc |-> 0, status_code |-> status, header_len |-> HeaderLen(d),
                          body |-> SubSeq(d, HeaderLen(d) + 1, Len(d))]

header_name_matches(line) == Len(line) >= 2 /\ line[1] = Encoding /\ line[2] = Colon

value_contains_chunked(value) == \E k \in 1 .. Len(value) : value[k] = Coded

\* Fault: the lines of the body are looked at too.
HeaderLinesAndBody(d, header_len) ==
  {o \in 0 .. (Len(d) - 1) : o - 2 \in LineEnds(d, 0) /\ LineEnds(d, o) # {}}

\* The offsets at which the lines between the status line and the empty one start.
HeaderLines(d, header_len) ==
  {o \in 0 .. (header_len - 3) : o - 2 \in LineEnds(d, 0)}

\* The first Transfer-Encoding line decides.
http_response_is_chunked(d, header_len) ==
  LET Line(o)  == SubSeq(d, o + 1, Smallest(LineEnds(d, o)))
      matching == {o \in HeaderLines(d, header_len) : header_name_matches(Line(o))}
      first    == Line(Smallest(matching))
  IN  matching # {} /\ value_contains_chunked(SubSeq(first, 3, Len(first)))
=================================================================================
