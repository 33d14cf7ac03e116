-------------------------------- MODULE DnsMessage --------------------------------
(***************************************************************************)
(* DNS messages (src/src/dns.c): the query dns_build_a_query makes of a    *)
(* hostname, the reply of a server, and dns_parse_response walking through *)
(* the datagram that arrives, one label or one record per step.            *)
(*                                                                         *)
(* The server and the network are external.  The server echoes the         *)
(* question; the network may cut the datagram or change one byte of it, so *)
(* the walk meets malformed messages too.  A hostname is a sequence of     *)
(* bytes, Dot among them.                                                  *)
(***************************************************************************)
EXTENDS Wire, FiniteSets

CONSTANTS
  Hostnames,        \* what the tool is called with
  RecordLists,      \* the answer sections a server may send
  TransactionId,    \* DNS_TRANSACTION_ID, expected by the parser
  StaleId,          \* the identifier of a reply to something else
  MaxHostname,      \* 253
  MaxLabelLen,      \* 63
  MaxLabels,        \* 127
  MaxAnswers,       \* DNS_MAX_ANSWERS, 16
  QueryBufferLen,   \* DNS_MAX_PACKET_LEN, 512
  DamageTo          \* values a damaged byte may take

Dot == 46

UINT16_MAX == 65535

U16 == 0 .. UINT16_MAX

\* A resource record, as its fields travel.
ResourceRecord ==
  [type : U16, class : U16, compressed : BOOLEAN, ttl : U16 \X U16, rdata : Seq(Byte)]

\* 127 labels of one byte and the dots between them are 253 bytes long.
ASSUME DnsAssumption ==
  /\ MaxLabelLen \in 1 .. 63 /\ MaxAnswers \in Nat /\ QueryBufferLen \in Nat
  /\ MaxHostname \in Nat /\ MaxLabels \in Nat /\ 2 * MaxLabels >= MaxHostname + 1
  /\ Hostnames \subseteq Seq(Byte) /\ DamageTo \subseteq Byte
  /\ TransactionId \in U16 /\ StaleId \in U16
  /\ RecordLists \subseteq Seq(ResourceRecord)
  /\ \A l \in RecordLists : Len(l) \in U16 /\ \A k \in 1 .. Len(l) : Len(l[k].rdata) \in U16

DNS_HEADER_LEN == 12
DNS_TYPE_A     == 1
DNS_CLASS_IN   == 1

VARIABLES
  pc,           \* "query", "server", "network", "header", "record", "name", "fixed", "done"
  query,        \* what dns_build_a_query wrote
  list,         \* the answer section the server sent
  whole,        \* nothing happened to the datagram
  cut,          \* the datagram is a proper prefix of the reply
  data,         \* the datagram
  section,      \* "question" or "answer": the loop the parser is in
  i,            \* that loop's counter
  offset,       \* where the parser is
  pos, labels_seen,   \* locals of dns_skip_name
  answers,      \* response->answers, of length response->answer_count
  rc,           \* what dns_parse_response returns
  high          \* history: one past the highest offset read so far

parser == <<section, i, offset, pos, labels_seen, answers, rc, high>>
dvars  == <<pc, query, list, whole, cut, data, parser>>

DnsInit ==
  /\ pc = "query" /\ query = <<>> /\ list = <<>> /\ whole = TRUE /\ cut = FALSE /\ data = <<>>
  /\ section = "question" /\ i = 0 /\ offset = 0 /\ pos = 0 /\ labels_seen = 0
  /\ answers = <<>> /\ rc = 0 /\ high = 0
-----------------------------------------------------------------------------
(***************************************************************************)
(* The query.                                                              *)
(***************************************************************************)
Ends(h) == {k \in 1 .. Len(h) : h[k] = Dot} \cup {Len(h) + 1}

\* The label that starts at index s runs to the next dot or the end.
LabelLen(h, s) == CHOOSE n \in 0 .. Len(h) :
  /\ s + n \in Ends(h)
  /\ \A m \in 0 .. (n - 1) : s + m \notin Ends(h)

Starts(h) == {1} \cup {k + 1 : k \in Ends(h) \ {Len(h) + 1}}

\* 07 example 03 com: each label is preceded by its length, in place of the dot.
EncodedName(h) ==
  [k \in 1 .. (Len(h) + 1) |-> IF k \in Starts(h) THEN LabelLen(h, k) ELSE h[k - 1]] \o <<0>>

QueryHeader == write_u16_be(TransactionId) \o <<1, 0, 0, 1, 0, 0, 0, 0, 0, 0>>

dns_build_a_query(h) ==
  IF \/ Len(h) = 0 \/ Len(h) > MaxHostname
     \/ \E s \in Starts(h) : LabelLen(h, s) = 0 \/ LabelLen(h, s) > MaxLabelLen
     \/ DNS_HEADER_LEN + Len(h) + 1 + 1 + 4 > QueryBufferLen
  THEN <<>>
  ELSE QueryHeader \o EncodedName(h) \o write_u16_be(DNS_TYPE_A) \o write_u16_be(DNS_CLASS_IN)

BuildQuery ==
  /\ pc = "query"
  /\ \E h \in Hostnames : query' = dns_build_a_query(h)
  /\ pc' = IF query' = <<>> THEN "done" ELSE "server"
  /\ rc' = IF query' = <<>> THEN -1 ELSE rc
  /\ UNCHANGED <<list, whole, cut, data, section, i, offset, pos, labels_seen, answers, high>>
-----------------------------------------------------------------------------
(***************************************************************************)
(* The server and the network.  A record's owner is a pointer to the       *)
(* question's name, or that name written out.                              *)
(***************************************************************************)
Question == From(query, DNS_HEADER_LEN)
Owner(r) == IF r.compressed THEN <<192, 12>> ELSE SubSeq(Question, 1, Len(Question) - 4)

RecordBytes(r) ==
  Owner(r) \o write_u16_be(r.type) \o write_u16_be(r.class) \o write_u32_be(r.ttl)
  \o write_u16_be(Len(r.rdata)) \o r.rdata

AllRecords(l) ==
  LET upto[k \in 0 .. Len(l)] == IF k = 0 THEN <<>> ELSE upto[k - 1] \o RecordBytes(l[k])
  IN  upto[Len(l)]

Reply(id, l) ==
  write_u16_be(id) \o <<129, 128, 0, 1>> \o write_u16_be(Len(l)) \o <<0, 0, 0, 0>>
  \o Question \o AllRecords(l)

Serve ==
  /\ pc = "server"
  /\ \E l \in RecordLists, id \in {TransactionId, StaleId} :
       /\ list' = l /\ data' = Reply(id, l)
       /\ whole' = (id = TransactionId)
  /\ pc' = "network"
  /\ UNCHANGED <<query, cut, parser>>

Deliver ==
  /\ pc = "network"
  /\ \/ UNCHANGED <<data, whole, cut>>
     \/ /\ \E n \in 0 .. (Len(data) - 1) : data' = SubSeq(data, 1, n)
        /\ whole' = FALSE /\ cut' = TRUE
     \/ /\ \E k \in 1 .. Len(data), v \in DamageTo : data' = [data EXCEPT ![k] = v]
        /\ whole' = FALSE /\ UNCHANGED cut
  /\ pc' = "header"
  /\ UNCHANGED <<query, list, parser>>
-----------------------------------------------------------------------------
(***************************************************************************)
(* dns_parse_response and dns_skip_name.  A read outside the datagram has  *)
(* no defined result; the value 0 stands for it.                           *)
(***************************************************************************)
ByteAt(o) == IF o < Len(data) THEN data[o + 1] ELSE 0
U16At(o)  == ByteAt(o) * 256 + ByteAt(o + 1)
Reads(o)  == high' = IF o + 1 > high THEN o + 1 ELSE high

Return(code) == pc' = "done" /\ rc' = code

question_count == U16At(4)
answer_count   == U16At(6)

ParseHeader ==
  /\ pc = "header"
  /\ \/ /\ Len(data) < DNS_HEADER_LEN
        /\ Return(-2) /\ UNCHANGED <<section, i, offset, answers, high>>
     \/ /\ Len(data) >= DNS_HEADER_LEN /\ Reads(7)
        /\ CASE U16At(0) # TransactionId -> Return(-3) /\ UNCHANGED <<section, i, offset, answers>>
             [] U16At(0) = TransactionId /\ ByteAt(2) < 128 ->
                  Return(-4) /\ UNCHANGED <<section, i, offset, answers>>
             [] OTHER -> /\ pc' = "record" /\ section' = "question" /\ i' = 0
                         /\ offset' = DNS_HEADER_LEN /\ answers' = <<>>
                         /\ UNCHANGED rc
  /\ UNCHANGED <<query, list, whole, cut, data, pos, labels_seen>>

Count == IF section = "question" THEN question_count ELSE answer_count

\* The head of either loop, and dns_skip_name's first test.
NextRecord ==
  /\ pc = "record"
  /\ \/ /\ i < Count /\ offset >= Len(data)
        /\ Return(-5) /\ UNCHANGED <<section, i, pos, labels_seen>>
     \/ /\ i < Count /\ offset < Len(data)
        /\ pc' = "name" /\ pos' = offset /\ labels_seen' = 0
        /\ UNCHANGED <<section, i, rc>>
     \/ /\ i = Count /\ section = "question"
        /\ section' = "answer" /\ i' = 0
        /\ UNCHANGED <<pc, pos, labels_seen, rc>>
     \/ /\ i = Count /\ section = "answer"
        /\ Return(0) /\ UNCHANGED <<section, i, pos, labels_seen>>
  /\ UNCHANGED <<query, list, whole, cut, data, offset, answers, high>>

\* Fault: a compression pointer is followed instead of skipped.
FollowPointer ==
  /\ pos' = (ByteAt(pos) % 64) * 256 + ByteAt(pos + 1)
  /\ labels_seen' = 0
  /\ UNCHANGED <<pc, offset, rc>>

\* A compression pointer ends the name; where it points to does not matter.
Pointer ==
  IF pos + 1 >= Len(data) THEN Return(-5) /\ UNCHANGED <<offset, pos, labels_seen>>
  ELSE /\ pc' = "fixed" /\ offset' = pos + 2
       /\ UNCHANGED <<pos, labels_seen, rc>>

\* Fault: the last label allowed is refused.
TooManyLabelsAndOne == labels_seen + 1 >= MaxLabels

TooManyLabels == labels_seen + 1 > MaxLabels

\* A label that ends at or behind the end leaves no room for the root.
Label(length) ==
  LET next == pos + 1 + length
  IN  IF length > MaxLabelLen \/ next >= Len(data) \/ TooManyLabels
      THEN Return(-5) /\ UNCHANGED <<offset, pos, labels_seen>>
      ELSE /\ pos' = next /\ labels_seen' = labels_seen + 1
           /\ UNCHANGED <<pc, offset, rc>>

\* One turn of the loop of dns_skip_name.
SkipName ==
  /\ pc = "name" /\ Reads(pos)
  /\ LET length == ByteAt(pos)
     IN  CASE length >= 192 -> Pointer
           [] length \in 64 .. 191 -> Return(-5) /\ UNCHANGED <<offset, pos, labels_seen>>
           [] length = 0 -> /\ pc' = "fixed" /\ offset' = pos + 1
                            /\ UNCHANGED <<pos, labels_seen, rc>>
           [] OTHER -> Label(length)
  /\ UNCHANGED <<query, list, whole, cut, data, section, i, answers>>

\* QTYPE and QCLASS.
SkipQuestion ==
  /\ pc = "fixed" /\ section = "question"
  /\ IF offset + 4 > Len(data) THEN Return(-5) /\ UNCHANGED <<i, offset>>
     ELSE /\ pc' = "record" /\ i' = i + 1 /\ offset' = offset + 4
          /\ UNCHANGED rc
  /\ UNCHANGED <<query, list, whole, cut, data, section, pos, labels_seen, answers, high>>

\* Fault: the data of a record may lie beyond the end of the datagram.
RecordFitsHeader(rdlength) == offset + 10 <= Len(data)

RecordFits(rdlength) == offset + 10 + rdlength <= Len(data)

\* Fault: the fixed part of a record is not checked against the end.
FixedPartUnchecked == TRUE

FixedPartFits == offset + 10 <= Len(data)

\* Fault: one address too many is stored.
RoomForAnswerAndOne == Len(answers) <= MaxAnswers

RoomForAnswer == Len(answers) < MaxAnswers

ParseAnswer ==
  LET rdlength == U16At(offset + 8)
      record   == [address |-> [k \in 1 .. 4 |-> ByteAt(offset + 9 + k)],
                   ttl |-> <<U16At(offset + 4), U16At(offset + 6)>>]
      isA      == U16At(offset) = DNS_TYPE_A /\ U16At(offset + 2) = DNS_CLASS_IN /\ rdlength = 4
      stored   == isA /\ RoomForAnswer
  IN  /\ pc = "fixed" /\ section = "answer"
      /\ \/ /\ ~FixedPartFits
            /\ Return(-5) /\ UNCHANGED <<i, offset, answers, high>>
         \/ /\ FixedPartFits /\ ~RecordFits(rdlength)
            /\ Return(-5) /\ Reads(offset + 9) /\ UNCHANGED <<i, offset, answers>>
         \/ /\ FixedPartFits /\ RecordFits(rdlength)
            /\ Reads(IF stored THEN offset + 13 ELSE offset + 9)
            /\ answers' = IF stored THEN Append(answers, record) ELSE answers
            /\ offset' = offset + 10 + rdlength /\ i' = i + 1 /\ pc' = "record"
            /\ UNCHANGED rc
      /\ UNCHANGED <<query, list, whole, cut, data, section, pos, labels_seen>>

dns_parse_response == ParseHeader \/ NextRecord \/ SkipName \/ SkipQuestion \/ ParseAnswer

DnsNext == BuildQuery \/ Serve \/ Deliver \/ dns_parse_response

\* The parser runs to its end; whether a reply comes is not its matter.
DnsSpec == DnsInit /\ [][DnsNext]_dvars /\ WF_dvars(dns_parse_response)
-----------------------------------------------------------------------------
\* The parser's locals stay in range: never more labels than are allowed in a
\* name, never more answers than the array has room for, one of its error codes.
DnsTypeOK ==
  /\ pc \in {"query", "server", "network", "header", "record", "name", "fixed", "done"}
  /\ query \in Seq(Byte) /\ data \in Seq(Byte)
  /\ whole \in BOOLEAN /\ cut \in BOOLEAN
  /\ section \in {"question", "answer"}
  /\ i \in Nat /\ offset \in Nat /\ pos \in Nat /\ high \in Nat
  /\ labels_seen \in 0 .. MaxLabels
  /\ Len(answers) <= MaxAnswers
  /\ rc \in -5 .. 0

\* Whatever the datagram holds, the parser reads nothing outside it: every
\* length is checked against the end before the bytes behind it are used.
ReadsInBounds == high <= Len(data)

IsA(r) == r.type = DNS_TYPE_A /\ r.class = DNS_CLASS_IN /\ Len(r.rdata) = 4

\* The addresses among the records of an answer section, in its order.
Addresses(l) ==
  LET upto[k \in 0 .. Len(l)] ==
        IF k = 0 THEN <<>>
        ELSE IF IsA(l[k]) THEN Append(upto[k - 1], [address |-> l[k].rdata, ttl |-> l[k].ttl])
        ELSE upto[k - 1]
  IN  upto[Len(l)]

FirstAnswers(as) == SubSeq(as, 1, IF Len(as) < MaxAnswers THEN Len(as) ELSE MaxAnswers)

\* A reply to the tool's own query, for any hostname it accepts, is understood:
\* neither the limit on labels nor a record of another type or class stands in
\* the way, and the addresses are the server's first MaxAnswers, in its order.
ReplyUnderstood ==
  pc = "done" /\ whole /\ data # <<>> => rc = 0 /\ answers = FirstAnswers(Addresses(list))

\* A reply that lost the end of its question or of an answer is refused, never
\* taken for a shorter list.
CutReplyRefused == pc = "done" /\ cut => rc # 0

\* The walk ends for every datagram: it only moves forward.
ParserReturns == (pc = "header") ~> (pc = "done")
=================================================================================
