------------------------------- MODULE HttpResponse ------------------------------
(***************************************************************************)
(* What becomes of a response: print_http_response (tools/netstack_http.c) *)
(* parses the head of what arrived, and prints the body as it is or what   *)
(* http_decode_chunked_body (src/src/http.c) makes of it.                  *)
(*                                                                         *)
(* The server, external, sends a head and a body, in chunks with any       *)
(* extensions and trailer if the head says so; the response may end early, *)
(* and a byte of the body may be wrong.  size_t is SizeMax + 1 values      *)
(* wide, and arithmetic on it wraps.                                       *)
(***************************************************************************)
EXTENDS HttpMessage

CONSTANTS
  Responses,       \* what a server may send: [start, headers, body], where a header
                   \* is [name, value] and a body [chunks, zeros, extension, trailer]
  AnyInput,        \* chunked bodies, well-formed or not
  DamageTo,        \* values a damaged byte may take
  SizeMax,         \* SIZE_MAX
  SpareOutput      \* output_len - body_len: 1 in the client, less in other callers

HeaderField == [name : Nat, value : Seq(Nat)]
Body        == [chunks : Seq(Seq(Nat)), zeros : Nat, extension : Seq(Nat), trailer : Seq(Nat)]

ASSUME ResponseAssumption ==
  /\ SizeMax \in Nat /\ SpareOutput \subseteq Int
  /\ DamageTo \subseteq Nat /\ AnyInput \subseteq Seq(Nat)
  /\ Responses \subseteq [start : Seq(Nat), headers : Seq(HeaderField), body : Body]

Semicolon == 59

VARIABLES
  pc,              \* "server", "parse", "line", "data", "returned", and how it
                   \* ended: "printed", "failed", "no_memory"
  sent,            \* the response, as the server made it
  arrived,         \* "whole", "part" or "other"
  data,            \* what arrived of it
  response,        \* what http_parse_response made of it
  chunked,         \* what http_response_is_chunked said of it
  output_len, input_offset, chunk_size,
  output,          \* output[0 .. output_offset)
  decoded_len,     \* what http_decode_chunked_body returned
  sizes,           \* history: the chunk lines accepted and the sizes read from them
  high             \* history: one past the highest offset of the body read

netVars     == <<sent, arrived, data>>
decoderVars == <<input_offset, chunk_size, output, sizes, high>>
headVars    == <<response, chunked>>
rvars       == <<pc, netVars, headVars, output_len, decoderVars, decoded_len>>

NoBody == [chunks |-> <<>>, zeros |-> 0, extension |-> <<>>, trailer |-> <<>>]

ResponseInit ==
  /\ pc = "server" /\ sent \in Responses /\ arrived = "part" /\ data = <<>>
  /\ response = Refused(-1) /\ chunked = FALSE /\ output_len = 0
  /\ input_offset = 0 /\ chunk_size = 0 /\ output = <<>> /\ decoded_len = 0 /\ sizes = {} /\ high = 0

input == response.body
-----------------------------------------------------------------------------
(***************************************************************************)
(* The server and the network.                                             *)
(***************************************************************************)
Concat(seqs) ==
  LET upto[k \in 0 .. Len(seqs)] == IF k = 0 THEN <<>> ELSE upto[k - 1] \o seqs[k]
  IN  upto[Len(seqs)]

HeadOf(r) ==
  r.start \o <<CR, LF>>
  \o Concat([k \in 1 .. Len(r.headers) |->
               <<r.headers[k].name, Colon>> \o r.headers[k].value \o <<CR, LF>>])
  \o <<CR, LF>>

IsChunked(r) ==
  LET te == {k \in 1 .. Len(r.headers) : r.headers[k].name = Encoding}
  IN  te # {} /\ value_contains_chunked(r.headers[Smallest(te)].value)

Digit(n) == IF n < 10 THEN 48 + n ELSE 55 + n

\* A size in hexadecimal digits, as few as it needs.
HexDigits(n) ==
  LET rest[k \in 0 .. (n + 1)] == IF k = 0 THEN n ELSE rest[k - 1] \div 16
      count == Smallest({k \in 1 .. (n + 1) : rest[k] = 0})
  IN  [j \in 1 .. count |-> Digit(rest[count - j] % 16)]

SizeLine(b, n) ==
  [k \in 1 .. b.zeros |-> Digit(0)] \o HexDigits(n) \o b.extension \o <<CR, LF>>

Chunks(b) ==
  Concat([k \in 1 .. Len(b.chunks) |->
            SizeLine(b, Len(b.chunks[k])) \o b.chunks[k] \o <<CR, LF>>])
  \o SizeLine(b, 0)

Data(b) == Concat(b.chunks)

BodyOf(r) ==
  IF IsChunked(r) THEN Chunks(r.body) \o r.body.trailer \o <<CR, LF>> ELSE Data(r.body)

\* The grammar of HTTP/1.1: a carriage return ends a line, a chunk of no bytes
\* ends the body, blanks and a semicolon come before an extension.
ASSUME ServerAssumption ==
  \A r \in Responses :
    /\ \A k \in 1 .. Len(r.start) : r.start[k] # CR
    /\ \A k \in 1 .. Len(r.headers) :
         /\ r.headers[k].name # CR
         /\ \A j \in 1 .. Len(r.headers[k].value) : r.headers[k].value[j] # CR
    /\ \A k \in 1 .. Len(r.body.chunks) : r.body.chunks[k] # <<>>
    /\ \A k \in 1 .. Len(r.body.extension) : r.body.extension[k] # CR
    /\ \E n \in 0 .. Len(r.body.extension) :
         /\ \A k \in 1 .. n : r.body.extension[k] \in {Space, Tab}
         /\ n < Len(r.body.extension) => r.body.extension[n + 1] = Semicolon

\* Lengths are of type size_t.
ASSUME SizeAssumption == \A r \in Responses : Len(BodyOf(r)) <= SizeMax

Arrive(how, bytes) ==
  /\ pc = "server" /\ pc' = "parse"
  /\ arrived' = how /\ data' = bytes
  /\ UNCHANGED <<sent, headVars, output_len, decoderVars, decoded_len>>

\* The connection or the client's deadline may end the response anywhere.
Network ==
  LET bytes == HeadOf(sent) \o BodyOf(sent)
  IN  \/ Arrive("whole", bytes)
      \/ \E n \in 0 .. (Len(bytes) - 1) : Arrive("part", SubSeq(bytes, 1, n))

DamagedBody ==
  /\ IsChunked(sent)
  /\ \E k \in 1 .. Len(BodyOf(sent)), v \in DamageTo :
       Arrive("other", HeadOf(sent) \o [BodyOf(sent) EXCEPT ![k] = v])

AnyBody ==
  /\ IsChunked(sent) /\ sent.body = NoBody
  /\ \E bytes \in AnyInput : Arrive("other", HeadOf(sent) \o bytes)
-----------------------------------------------------------------------------
(***************************************************************************)
(* print_http_response, up to the decoder.                                 *)
(***************************************************************************)
ParseFails ==
  /\ pc = "parse" /\ pc' = "failed"
  /\ http_parse_response(data).rc # 0
  /\ response' = http_parse_response(data)
  /\ UNCHANGED <<netVars, chunked, output_len, decoderVars, decoded_len>>

PrintPlain ==
  /\ pc = "parse" /\ pc' = "printed"
  /\ response' = http_parse_response(data) /\ response'.rc = 0
  /\ chunked' = http_response_is_chunked(data, response'.header_len) /\ ~chunked'
  /\ UNCHANGED <<netVars, output_len, decoderVars, decoded_len>>

\* The decoder is given as much room as the client gives it, or less.
StartDecoding ==
  /\ pc = "parse"
  /\ response' = http_parse_response(data) /\ response'.rc = 0
  /\ chunked' = http_response_is_chunked(data, response'.header_len) /\ chunked'
  /\ \/ pc' = "no_memory" /\ UNCHANGED output_len
     \/ \E spare \in SpareOutput :
          /\ Len(response'.body) + spare \in 0 .. SizeMax
          /\ output_len' = Len(response'.body) + spare
          /\ pc' = IF output_len' = 0 THEN "returned" ELSE "line"
  /\ UNCHANGED <<netVars, decoderVars, decoded_len>>
-----------------------------------------------------------------------------
(***************************************************************************)
(* parse_chunk_size.                                                       *)
(***************************************************************************)
hex_value(c) ==
  CASE c \in 48 .. 57  -> c - 48
    [] c \in 97 .. 102 -> c - 87
    [] c \in 65 .. 70  -> c - 55
    [] OTHER           -> -1

\* Fault: an extension is taken for a part of the size.
SizeLenAndExtension(line) == Len(line)

\* How much of the line stands before its extension.
SizeLen(line) == CHOOSE n \in 0 .. Len(line) :
  /\ n < Len(line) => line[n + 1] = Semicolon
  /\ \A k \in 1 .. n : line[k] # Semicolon

IsBlank(c) == c \in {Space, Tab}

Overflowed == -1

\* Fault: the size is not checked against SIZE_MAX.
AddDigitWrapping(value, digit) ==
  IF value = Overflowed \/ digit < 0 THEN Overflowed
  ELSE (value * 16 + digit) % (SizeMax + 1)

AddDigit(value, digit) ==
  IF value = Overflowed \/ digit < 0 \/ value > (SizeMax - digit) \div 16 THEN Overflowed
  ELSE value * 16 + digit

\* The size, or -1 where the code returns -1; blanks may stand anywhere.
parse_chunk_size(line) ==
  LET n == SizeLen(line)
      upto[k \in 0 .. n] ==
        IF k = 0 THEN 0
        ELSE IF IsBlank(line[k]) THEN upto[k - 1]
        ELSE AddDigit(upto[k - 1], hex_value(line[k]))
  IN  IF \A k \in 1 .. n : IsBlank(line[k]) THEN -1 ELSE upto[n]
-----------------------------------------------------------------------------
(***************************************************************************)
(* http_decode_chunked_body.  A read outside the input has no defined      *)
(* result; the value 0 stands for it.                                      *)
(***************************************************************************)
ByteAt(o)   == IF o < Len(input) THEN input[o + 1] ELSE 0
Minus(a, b) == (a - b) % (SizeMax + 1)

Return(n) == pc' = "returned" /\ decoded_len' = n

LastChunk ==
  /\ IF Len(output) >= output_len THEN Return(0) ELSE Return(Len(output))
  /\ UNCHANGED output

ChunkArrived(size, o) == size <= Minus(Len(input), o)

\* Fault: no byte is left for the terminating zero.
ChunkFitsExactly(size) == size <= Minus(output_len, Len(output))

ChunkFits(size) == size <= Minus(Minus(output_len, Len(output)), 1)

\* The head of the loop: a line, its size, and whether the chunk can be taken.
DecodeLine ==
  /\ pc = "line"
  /\ IF LineEnds(input, input_offset) = {}
     THEN /\ Return(0) /\ high' = Len(input)
          /\ UNCHANGED <<input_offset, chunk_size, output, sizes>>
     ELSE LET e    == Smallest(LineEnds(input, input_offset))
              line == SubSeq(input, input_offset + 1, e)
              size == parse_chunk_size(line)
          IN  /\ input_offset' = IF size < 0 THEN input_offset ELSE e + 2
              /\ high' = e + 2
              /\ sizes' = IF size < 0 THEN sizes ELSE sizes \cup {<<line, size>>}
              /\ CASE size < 0 -> Return(0) /\ UNCHANGED <<chunk_size, output>>
                   [] size = 0 -> LastChunk /\ UNCHANGED chunk_size
                   [] size > 0 /\ ChunkArrived(size, e + 2) /\ ChunkFits(size) ->
                        /\ pc' = "data" /\ chunk_size' = size
                        /\ UNCHANGED <<output, decoded_len>>
                   [] OTHER -> Return(0) /\ UNCHANGED <<chunk_size, output>>
  /\ UNCHANGED <<netVars, headVars, output_len>>

Closed(o) == o + 2 <= Len(input) /\ ByteAt(o) = CR /\ ByteAt(o + 1) = LF

\* The chunk's data and the CRLF behind it.
DecodeData ==
  LET o == input_offset + chunk_size
  IN  /\ pc = "data"
      /\ output' = output \o [k \in 1 .. chunk_size |-> ByteAt(input_offset + k - 1)]
      /\ IF Closed(o)
         THEN /\ input_offset' = o + 2 /\ high' = o + 2
              /\ IF o + 2 < Len(input)
                 THEN pc' = "line" /\ UNCHANGED decoded_len
                 ELSE Return(0)
         ELSE /\ Return(0) /\ input_offset' = o
              /\ high' = o + (IF o + 2 <= Len(input) THEN 2 ELSE 0)
      /\ UNCHANGED <<netVars, headVars, output_len, chunk_size, sizes>>

\* Fault: the decoder's result is not looked at.
PrintDecodedUnchecked ==
  /\ pc = "returned" /\ pc' = "printed"
  /\ UNCHANGED <<netVars, headVars, output_len, decoderVars, decoded_len>>

\* print_http_response takes 0 for a failure when the body has more than the
\* five bytes of "0", CRLF, CRLF.
PrintDecoded ==
  /\ pc = "returned"
  /\ pc' = IF decoded_len = 0 /\ Len(input) > 5 THEN "failed" ELSE "printed"
  /\ UNCHANGED <<netVars, headVars, output_len, decoderVars, decoded_len>>

print_http_response ==
  ParseFails \/ PrintPlain \/ StartDecoding \/ DecodeLine \/ DecodeData \/ PrintDecoded

ResponseNext == Network \/ DamagedBody \/ AnyBody \/ print_http_response

ResponseSpec == ResponseInit /\ [][ResponseNext]_rvars
-----------------------------------------------------------------------------
\* A status line as servers send it: version, blank, a code of three digits.
WellFormed(r) ==
  /\ Len(r.start) >= 6 /\ SubSeq(r.start, 1, 3) = <<Http, Version, Space>>
  /\ r.start[4] \in 49 .. 57 /\ IsDigit(r.start[5]) /\ IsDigit(r.start[6])
  /\ Len(r.start) > 6 => r.start[7] = Space

StatusOf(r) == 100 * (r.start[4] - 48) + 10 * (r.start[5] - 48) + (r.start[6] - 48)

Parsed == pc \notin {"server", "parse"}

\* Once the head has arrived, the client's view of it is the server's, however
\* much of the body the deadline let through and whatever that looks like: a
\* Transfer-Encoding line or an empty line in the body changes nothing.
HeadUnderstood ==
  Parsed /\ WellFormed(sent) /\ Len(data) >= Len(HeadOf(sent)) =>
    /\ response.rc = 0 /\ HeadOf(sent) \o response.body = data
    /\ response.status_code = StatusOf(sent)
    /\ chunked = IsChunked(sent)

\* A head that was cut anywhere is refused: neither a header line nor a part of
\* one is ever taken for the body, and no header is overlooked that would follow.
CutHeadRefused == Parsed /\ Len(data) < Len(HeadOf(sent)) => pc = "failed"

\* Whatever arrives, the decoder neither reads outside the body nor writes
\* outside the output, the terminating zero included, and no subtraction of
\* sizes wraps: the offsets never pass the lengths.
DecoderInBounds ==
  /\ input_offset <= Len(input) /\ high <= Len(input)
  /\ output_len > 0 => Len(output) < output_len

\* The size written in a line, without a limit.
WrittenSize(line) ==
  LET n == SizeLen(line)
      upto[k \in 0 .. n] ==
        IF k = 0 THEN 0
        ELSE IF IsBlank(line[k]) THEN upto[k - 1]
        ELSE upto[k - 1] * 16 + hex_value(line[k])
  IN  upto[n]

\* A chunk is never taken with a size other than the one written in its line:
\* a size too large for size_t is refused and does not wrap to a small one.
SizesExact == \A s \in sizes : s[2] = WrittenSize(s[1])

\* How a chunked body arrived behind its head.
Chunked(how) == WellFormed(sent) /\ IsChunked(sent) /\ arrived = how

CutBeforeLastChunk ==
  Chunked("part") /\ Len(data) < Len(HeadOf(sent)) + Len(Chunks(sent.body))

\* A chunked body that arrives whole, and for which there is room, is decoded
\* into the server's data, whatever its chunks contain, CRLF and digits
\* included; one cut before its last chunk yields 0 and never a part.
WholeOrNothing ==
  pc \in {"returned", "printed", "failed"} =>
    /\ Chunked("whole") /\ output_len > Len(Data(sent.body)) =>
         decoded_len = Len(Data(sent.body)) /\ output = Data(sent.body)
    /\ CutBeforeLastChunk => decoded_len = 0

\* The client prints a response that arrived whole, unless a chunked body is
\* empty, and reports a chunked one that was cut, if more than five bytes of
\* its body arrived.
ClientVerdict ==
  ~IsChunked(sent) \/ output_len = Len(input) + 1 =>
    /\ WellFormed(sent) /\ arrived = "whole" /\ Data(sent.body) # <<>> => pc # "failed"
    /\ CutBeforeLastChunk /\ Len(input) > 5 => pc # "printed"

\* What the comment at the end of the decoder's last chunk says: trailer headers
\* may follow, and the body counts all the same.
TrailerMayFollow ==
  /\ Chunked("whole") /\ output_len = Len(input) + 1
  /\ sent.body.zeros = 0 /\ sent.body.extension = <<>>
  => pc # "failed"
=================================================================================
