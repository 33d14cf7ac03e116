---------------------------- MODULE DnsMessage_proofs ----------------------------
(***************************************************************************)
(* dns_parse_response reads nothing outside the datagram, for every        *)
(* datagram: whatever hostname, answer section, cut or damage made it.     *)
(* And it understands a reply: one that arrives whole is accepted with the *)
(* server's addresses, one that lost its end is refused.                   *)
(***************************************************************************)
EXTENDS DnsMessage, SequenceTheorems, Basics_proofs

(***************************************************************************)
(* What goes into a datagram is bytes.                                     *)
(***************************************************************************)
\* A byte has eight bits, a 16-bit value sixteen.
LEMMA WidthDef ==
  /\ \A x : x \in Byte <=> x \in Int /\ 0 <= x /\ x <= 255
  /\ \A x : x \in U16 <=> x \in Int /\ 0 <= x /\ x <= 65535
<1>1. UINT16_MAX \in Int
  BY DEF UINT16_MAX
<1>2. \A x : x \in U16 <=> x \in Int /\ 0 <= x /\ x <= UINT16_MAX
  BY <1>1 DEF U16
<1>3. \A x \in Int : x <= UINT16_MAX <=> x <= 65535
  BY DEF UINT16_MAX
<1>4. \A x : x \in Byte <=> x \in Int /\ 0 <= x /\ x <= 255
  BY DEF Byte
<1> QED
  BY <1>2, <1>3, <1>4

\* Buffers of a given length.
Buffer(n) == {s \in Seq(Byte) : Len(s) = n}

\* A buffer is as long as it says.
LEMMA BufferLen ==
  ASSUME NEW n \in Nat, NEW s \in Buffer(n)
  PROVE  s \in Seq(Byte) /\ Len(s) = n /\ Len(s) \in Nat
BY DEF Buffer

\* Every sequence of bytes is a buffer of its length.
LEMMA SeqIsBuffer ==
  ASSUME NEW s \in Seq(Byte)
  PROVE  Len(s) \in Nat /\ s \in Buffer(Len(s))
BY DEF Buffer

\* Buffers are put one behind the other.
LEMMA BufferConcat ==
  ASSUME NEW m \in Nat, NEW n \in Nat, NEW a \in Buffer(m), NEW b \in Buffer(n)
  PROVE  a \o b \in Buffer(m + n)
BY DEF Buffer

\* A 16-bit value is written as two bytes.
LEMMA WriteU16 ==
  ASSUME NEW v \in U16
  PROVE  write_u16_be(v) \in Buffer(2)
<1>1. v \in Int /\ 0 <= v /\ v <= 65535
  BY WidthDef
<1>2. v \div 256 \in Int /\ 0 <= v \div 256 /\ v \div 256 <= 255
  BY <1>1
<1>3. v % 256 \in Int /\ 0 <= v % 256 /\ v % 256 <= 255
  BY <1>1
<1>4. v \div 256 \in Byte /\ v % 256 \in Byte
  BY <1>2, <1>3, WidthDef
<1> QED
  BY <1>4 DEF write_u16_be, Buffer

\* A 32-bit value is written as four.
LEMMA WriteU32 ==
  ASSUME NEW v \in U16 \X U16
  PROVE  write_u32_be(v) \in Buffer(4)
<1>1. v[1] \in U16 /\ v[2] \in U16
  OBVIOUS
<1>2. write_u16_be(v[1]) \in Buffer(2) /\ write_u16_be(v[2]) \in Buffer(2)
  BY <1>1, WriteU16
<1>3. write_u16_be(v[1]) \o write_u16_be(v[2]) \in Buffer(2 + 2)
  BY <1>2, BufferConcat
<1> QED
  BY <1>3 DEF write_u32_be

\* Every label ends: at the next dot or at the end of the hostname.
LEMMA LabelLenType ==
  ASSUME NEW h \in Seq(Byte), NEW s \in 1 .. (Len(h) + 1)
  PROVE  /\ LabelLen(h, s) \in 0 .. Len(h)
         /\ s + LabelLen(h, s) \in Ends(h)
         /\ \A m \in 0 .. (LabelLen(h, s) - 1) : s + m \notin Ends(h)
<1> DEFINE T == {n \in Nat : s + n \in Ends(h)}
<1>1. Len(h) \in Nat /\ Ends(h) \subseteq 1 .. (Len(h) + 1) /\ Len(h) + 1 \in Ends(h)
  BY DEF Ends
<1>2. (Len(h) + 1 - s) \in T
  BY <1>1
<1>3. PICK n \in T : \A m \in T : n <= m
  <2> HIDE DEF T
  <2>1. T \subseteq Nat
    BY DEF T
  <2> QED
    BY <1>2, <2>1, LeastElement
<1>4. n \in 0 .. Len(h) /\ s + n \in Ends(h) /\ \A m \in 0 .. (n - 1) : s + m \notin Ends(h)
  BY <1>1, <1>3
<1> DEFINE P(k) == s + k \in Ends(h) /\ \A m \in 0 .. (k - 1) : s + m \notin Ends(h)
<1>5. \E k \in 0 .. Len(h) : P(k)
  BY <1>4
<1> HIDE DEF P
<1>6. (CHOOSE k \in 0 .. Len(h) : P(k)) \in 0 .. Len(h) /\ P(CHOOSE k \in 0 .. Len(h) : P(k))
  BY <1>5
<1> QED
  BY <1>6 DEF P, LabelLen

\* The name on the wire is one byte longer than the hostname, and the root.
LEMMA EncodedNameType ==
  ASSUME NEW h \in Seq(Byte), \A s \in Starts(h) : ~(LabelLen(h, s) > MaxLabelLen)
  PROVE  EncodedName(h) \in Buffer(Len(h) + 2)
<1> DEFINE name == [k \in 1 .. (Len(h) + 1) |-> IF k \in Starts(h) THEN LabelLen(h, k) ELSE h[k - 1]]
<1>1. /\ Starts(h) \subseteq 1 .. (Len(h) + 1) /\ 1 \in Starts(h) /\ Len(h) \in Nat
      /\ \A k \in 1 .. Len(h) : h[k] \in Byte
  BY DEF Starts, Ends
<1>2. ASSUME NEW k \in Starts(h) PROVE LabelLen(h, k) \in Byte
  <2>1. LabelLen(h, k) \in Nat /\ ~(LabelLen(h, k) > MaxLabelLen)
    BY <1>1, LabelLenType
  <2>2. MaxLabelLen \in 1 .. 63
    BY DnsAssumption
  <2>3. \A n \in Nat : ~(n > MaxLabelLen) => n \in Byte
    BY <2>2 DEF Byte
  <2> QED
    BY <2>1, <2>3, Zenon
<1>3. ASSUME NEW k \in 1 .. (Len(h) + 1)
      PROVE  (IF k \in Starts(h) THEN LabelLen(h, k) ELSE h[k - 1]) \in Byte
  BY <1>1, <1>2
<1>4. name \in Buffer(Len(h) + 1)
  <2>1. Len(h) + 1 \in Nat /\ name \in [1 .. (Len(h) + 1) -> Byte]
    BY <1>1, <1>3
  <2> HIDE DEF name
  <2> QED
    BY <2>1 DEF Buffer
<1>5. EncodedName(h) = name \o <<0>>
  BY DEF EncodedName
<1>6. <<0>> \in Buffer(1)
  BY DEF Byte, Buffer
<1> HIDE DEF name
<1>7. name \o <<0>> \in Buffer((Len(h) + 1) + 1)
  BY <1>1, <1>4, <1>6, BufferConcat
<1> QED
  BY <1>1, <1>5, <1>7

\* What dns_build_a_query writes, if it writes anything: a header, the encoded
\* name, a type and a class.
LEMMA QueryType ==
  ASSUME NEW h \in Seq(Byte), dns_build_a_query(h) # <<>>
  PROVE  dns_build_a_query(h) \in Buffer(Len(h) + 18)
<1> DEFINE hd == QueryHeader
           n  == EncodedName(h)
           t  == write_u16_be(DNS_TYPE_A)
           c  == write_u16_be(DNS_CLASS_IN)
<1>1. /\ \A s \in Starts(h) : ~(LabelLen(h, s) > MaxLabelLen)
      /\ dns_build_a_query(h) = ((hd \o n) \o t) \o c
  BY DEF dns_build_a_query
<1>2. hd \in Buffer(12)
  <2> DEFINE rest == <<1, 0, 0, 1, 0, 0, 0, 0, 0, 0>>
  <2>1. write_u16_be(TransactionId) \in Buffer(2)
    BY DnsAssumption, WriteU16
  <2>2. rest \in Buffer(10)
    BY DEF Byte, Buffer
  <2>3. hd = write_u16_be(TransactionId) \o rest
    BY DEF QueryHeader
  <2> HIDE DEF rest, hd
  <2>4. write_u16_be(TransactionId) \o rest \in Buffer(2 + 10)
    BY <2>1, <2>2, BufferConcat
  <2> QED
    BY <2>3, <2>4
<1>3. n \in Buffer(Len(h) + 2) /\ Len(h) \in Nat
  BY <1>1, EncodedNameType
<1>4. t \in Buffer(2) /\ c \in Buffer(2)
  BY WriteU16, WidthDef DEF DNS_TYPE_A, DNS_CLASS_IN
<1> HIDE DEF hd, n, t, c
<1>5. hd \o n \in Buffer(12 + (Len(h) + 2))
  BY <1>2, <1>3, BufferConcat
<1>6. (hd \o n) \o t \in Buffer((Len(h) + 14) + 2)
  BY <1>3, <1>4, <1>5, BufferConcat
<1>7. ((hd \o n) \o t) \o c \in Buffer((Len(h) + 16) + 2)
  BY <1>3, <1>4, <1>6, BufferConcat
<1> QED
  BY <1>1, <1>3, <1>7

(***************************************************************************)
(* The server's reply.                                                     *)
(***************************************************************************)
\* A part of a buffer.
LEMMA BufferPart ==
  ASSUME NEW s \in Seq(Byte), NEW m \in Nat, NEW n \in Nat, m <= n, n <= Len(s)
  PROVE  SubSeq(s, m + 1, n) \in Buffer(n - m)
<1>1. \A k \in (m + 1) .. n : s[k] \in Byte
  OBVIOUS
<1>2. /\ SubSeq(s, m + 1, n) \in Seq(Byte)
      /\ Len(SubSeq(s, m + 1, n)) = IF m + 1 <= n THEN n - (m + 1) + 1 ELSE 0
  BY <1>1, SubSeqProperties
<1>3. Len(SubSeq(s, m + 1, n)) = n - m
  BY <1>2
<1> QED
  BY <1>2, <1>3 DEF Buffer

\* The question is the query without its header; the owner of a record takes
\* two bytes, or as many as the name of the question.
LEMMA QuestionType ==
  ASSUME query \in Seq(Byte), Len(query) >= 18
  PROVE  /\ Question \in Buffer(Len(query) - 12)
         /\ \A r \in ResourceRecord : Owner(r) \in Seq(Byte)
<1>1. Len(query) \in Nat
  OBVIOUS
<1>2. Question \in Buffer(Len(query) - 12)
  <2>1. 12 \in Nat /\ 12 <= Len(query) /\ Len(query) <= Len(query)
    BY <1>1
  <2>2. SubSeq(query, 12 + 1, Len(query)) \in Buffer(Len(query) - 12)
    BY <1>1, <2>1, BufferPart, Zenon
  <2>3. Question = SubSeq(query, 12 + 1, Len(query))
    BY DEF Question, From, DNS_HEADER_LEN
  <2> QED
    BY <2>2, <2>3
<1>3. Question \in Seq(Byte) /\ Len(Question) = Len(query) - 12
  BY <1>1, <1>2, BufferLen
<1>4. SubSeq(Question, 0 + 1, Len(Question) - 4) \in Buffer(Len(Question) - 4 - 0)
  BY <1>1, <1>3, BufferPart
<1>5. SubSeq(Question, 1, Len(Question) - 4) \in Seq(Byte)
  BY <1>1, <1>3, <1>4, BufferLen
<1>6. <<192, 12>> \in Seq(Byte)
  BY DEF Byte
<1> QED
  BY <1>2, <1>5, <1>6 DEF Owner

\* A record is bytes.
LEMMA RecordType ==
  ASSUME query \in Seq(Byte), Len(query) >= 18,
         NEW r \in ResourceRecord, Len(r.rdata) \in U16
  PROVE  RecordBytes(r) \in Seq(Byte)
<1> DEFINE o == Owner(r)
           t == write_u16_be(r.type)
           c == write_u16_be(r.class)
           l == write_u32_be(r.ttl)
           n == write_u16_be(Len(r.rdata))
<1>1. r.type \in U16 /\ r.class \in U16 /\ r.ttl \in U16 \X U16 /\ r.rdata \in Seq(Byte)
  BY DEF ResourceRecord
<1>2. t \in Seq(Byte) /\ c \in Seq(Byte) /\ n \in Seq(Byte)
  BY <1>1, WriteU16, BufferLen
<1>3. l \in Seq(Byte)
  BY <1>1, WriteU32, BufferLen
<1>4. o \in Seq(Byte)
  BY QuestionType
<1>5. RecordBytes(r) = ((((o \o t) \o c) \o l) \o n) \o r.rdata
  BY DEF RecordBytes
<1> HIDE DEF o, t, c, l, n
<1>6. (((o \o t) \o c) \o l) \o n \in Seq(Byte)
  BY <1>2, <1>3, <1>4
<1> QED
  BY <1>1, <1>5, <1>6

\* A function that puts the first records of l together.
Joins(f, l) == f = [k \in 0 .. Len(l) |-> IF k = 0 THEN <<>> ELSE f[k - 1] \o RecordBytes(l[k])]

\* There is one.
LEMMA JoinsExists ==
  ASSUME NEW l, Len(l) \in Nat
  PROVE  \E f : Joins(f, l)
<1> DEFINE Good(f, n) ==
             f = [k \in 0 .. n |-> IF k = 0 THEN <<>> ELSE f[k - 1] \o RecordBytes(l[k])]
           S == {n \in Nat : \E f : Good(f, n)}
<1>1. 0 \in S
  <2>1. Good([k \in 0 .. 0 |-> <<>>], 0)
    OBVIOUS
  <2> QED
    BY <2>1
<1>2. ASSUME NEW n \in Nat, n \in S PROVE n + 1 \in S
  <2>1. PICK f : Good(f, n)
    BY <1>2
  <2> DEFINE g == [k \in 0 .. (n + 1) |-> IF k = n + 1 THEN f[n] \o RecordBytes(l[n + 1]) ELSE f[k]]
  <2>2. \A k \in 0 .. n : f[k] = IF k = 0 THEN <<>> ELSE f[k - 1] \o RecordBytes(l[k])
    BY <2>1
  <2>3. \A k \in 0 .. n : g[k] = f[k]
    OBVIOUS
  <2>4. ASSUME NEW k \in 0 .. (n + 1)
        PROVE  g[k] = IF k = 0 THEN <<>> ELSE g[k - 1] \o RecordBytes(l[k])
    <3>1. CASE k = n + 1
      BY <2>3, <3>1
    <3>2. CASE k # n + 1
      BY <2>2, <2>3, <3>2
    <3> QED
      BY <3>1, <3>2
  <2>5. Good(g, n + 1)
    BY <2>4
  <2> HIDE DEF g
  <2> QED
    BY <2>5
<1>3. Len(l) \in S
  <2> HIDE DEF S
  <2> QED
    BY <1>1, <1>2, SetInduction
<1> QED
  BY <1>3 DEF Joins

\* All records together are bytes.
LEMMA AllRecordsType ==
  ASSUME query \in Seq(Byte), Len(query) >= 18, NEW l \in RecordLists
  PROVE  AllRecords(l) \in Seq(Byte)
<1> DEFINE f == CHOOSE g : Joins(g, l)
<1>1. Len(l) \in Nat /\ \A k \in 1 .. Len(l) : RecordBytes(l[k]) \in Seq(Byte)
  <2>1. l \in Seq(ResourceRecord) /\ \A k \in 1 .. Len(l) : Len(l[k].rdata) \in U16
    BY DnsAssumption
  <2> QED
    BY <2>1, RecordType
<1>2. Joins(f, l)
  BY <1>1, JoinsExists
<1>3. AllRecords(l) = f[Len(l)]
  BY DEF AllRecords, Joins
<1> HIDE DEF f
<1>4. \A k \in 0 .. Len(l) : f[k] = IF k = 0 THEN <<>> ELSE f[k - 1] \o RecordBytes(l[k])
  BY <1>2 DEF Joins
<1> DEFINE S == {n \in Nat : n <= Len(l) => f[n] \in Seq(Byte)}
<1>5. 0 \in S
  <2>1. 0 \in 0 .. Len(l)
    BY <1>1
  <2>2. f[0] = <<>>
    BY <1>4, <2>1
  <2>3. <<>> \in Seq(Byte)
    OBVIOUS
  <2>4. f[0] \in Seq(Byte)
    BY <2>2, <2>3, Zenon
  <2> QED
    BY <2>4
<1>6. ASSUME NEW n \in Nat, n \in S PROVE n + 1 \in S
  <2> SUFFICES ASSUME n + 1 <= Len(l) PROVE f[n + 1] \in Seq(Byte)
    OBVIOUS
  <2>1. f[n] \in Seq(Byte) /\ RecordBytes(l[n + 1]) \in Seq(Byte)
    BY <1>1, <1>6
  <2>2. f[n + 1] = f[n] \o RecordBytes(l[n + 1])
    <3>1. n + 1 \in 0 .. Len(l) /\ n + 1 # 0 /\ (n + 1) - 1 = n
      BY <1>1
    <3>2. f[n + 1] = f[(n + 1) - 1] \o RecordBytes(l[n + 1])
      BY <1>4, <3>1, Zenon
    <3> QED
      BY <3>1, <3>2, Zenon
  <2> QED
    BY <2>1, <2>2
<1>7. Len(l) \in S
  <2> HIDE DEF S
  <2> QED
    BY <1>1, <1>5, <1>6, SetInduction
<1> QED
  BY <1>1, <1>3, <1>7

\* The datagram the server sends is bytes.
LEMMA ReplyType ==
  ASSUME query \in Seq(Byte), Len(query) >= 18, NEW l \in RecordLists, NEW id \in U16
  PROVE  Reply(id, l) \in Seq(Byte)
<1> DEFINE a == write_u16_be(id)
           b == <<129, 128, 0, 1>>
           c == write_u16_be(Len(l))
           d == <<0, 0, 0, 0>>
           rs == AllRecords(l)
<1>1. a \in Seq(Byte) /\ c \in Seq(Byte)
  BY DnsAssumption, WriteU16, BufferLen
<1>2. b \in Seq(Byte) /\ d \in Seq(Byte)
  BY DEF Byte
<1>3. Question \in Seq(Byte)
  BY QuestionType, BufferLen
<1>4. rs \in Seq(Byte)
  BY AllRecordsType
<1>5. Reply(id, l) = ((((a \o b) \o c) \o d) \o Question) \o rs
  BY DEF Reply
<1> HIDE DEF a, b, c, d, rs
<1>6. (((a \o b) \o c) \o d) \o Question \in Seq(Byte)
  BY <1>1, <1>2, <1>3
<1> QED
  BY <1>4, <1>5, <1>6

(***************************************************************************)
(* The parser.                                                             *)
(***************************************************************************)
\* What the array of answers holds.
Answer == [address : [1 .. 4 -> Byte], ttl : U16 \X U16]

\* The parser is on its way.
Parsing == pc \in {"record", "name", "fixed"}

\* The parser never stands behind the end: where it reads, it has checked.
ParserInBounds ==
  /\ ~Parsing /\ pc # "done" => high = 0
  /\ Parsing => offset <= Len(data)
  /\ pc = "name" => pos < Len(data)
  /\ high <= Len(data)

\* The inductive invariant.
DnsInv ==
  /\ DnsTypeOK
  /\ answers \in Seq(Answer)
  /\ pc = "server" => Len(query) >= 18
  /\ ParserInBounds

\* A read yields a byte, and two reads a 16-bit value.
LEMMA ReadType ==
  ASSUME data \in Seq(Byte), NEW o \in Nat
  PROVE  ByteAt(o) \in Byte /\ U16At(o) \in U16
<1>1. ASSUME NEW p \in Nat PROVE ByteAt(p) \in Byte
  <2>1. CASE p < Len(data)
    <3>1. p + 1 \in 1 .. Len(data)
      BY <2>1
    <3>2. data[p + 1] \in Byte
      BY <3>1
    <3> QED
      BY <2>1, <3>2 DEF ByteAt
  <2>2. CASE ~(p < Len(data))
    BY <2>2, WidthDef DEF ByteAt
  <2> QED
    BY <2>1, <2>2
<1>2. ByteAt(o) \in Byte /\ ByteAt(o + 1) \in Byte
  BY <1>1
<1>3. ASSUME NEW a \in Byte, NEW b \in Byte
      PROVE  a * 256 + b \in U16
  <2>1. a \in Int /\ 0 <= a /\ a <= 255 /\ b \in Int /\ 0 <= b /\ b <= 255
    BY WidthDef
  <2>2. a * 256 + b \in Int /\ 0 <= a * 256 + b /\ a * 256 + b <= 65535
    BY <2>1
  <2> QED
    BY <2>2, WidthDef
<1>4. ByteAt(o) * 256 + ByteAt(o + 1) \in U16
  BY <1>2, <1>3, Zenon
<1> QED
  BY <1>2, <1>4 DEF U16At

\* What a read records.
LEMMA ReadsType ==
  ASSUME high \in Nat, NEW o \in Nat, Reads(o)
  PROVE  /\ high' \in Nat
         /\ \A n \in Nat : high <= n /\ o < n => high' <= n
BY DEF Reads

\* Before the query is built.
LEMMA DnsInitInv == DnsInit => DnsInv
<1> SUFFICES ASSUME DnsInit PROVE DnsInv
  OBVIOUS
<1>1. MaxLabels \in Nat /\ MaxAnswers \in Nat
  BY DnsAssumption
<1>2. DnsTypeOK
  <2>1. labels_seen \in 0 .. MaxLabels /\ Len(answers) <= MaxAnswers /\ rc \in -5 .. 0
    BY <1>1 DEF DnsInit
  <2>2. query \in Seq(Byte) /\ data \in Seq(Byte)
    BY DEF DnsInit
  <2>3. whole \in BOOLEAN /\ cut \in BOOLEAN
    BY DEF DnsInit
  <2> QED
    BY <2>1, <2>2, <2>3 DEF DnsInit, DnsTypeOK
<1>3. answers \in Seq(Answer) /\ (pc = "server" => Len(query) >= 18) /\ ParserInBounds
  BY DEF DnsInit, ParserInBounds, Parsing
<1> QED
  BY <1>2, <1>3 DEF DnsInv

\* The query, the server and the network.
LEMMA DatagramInv ==
  ASSUME DnsInv, BuildQuery \/ Serve \/ Deliver
  PROVE  DnsInv'
<1> USE DEF DnsInv
<1>1. CASE BuildQuery
  <2>1. PICK h \in Hostnames : query' = dns_build_a_query(h)
    BY <1>1 DEF BuildQuery
  <2>2. h \in Seq(Byte) /\ Len(h) \in Nat
    BY DnsAssumption
  <2>3. query' \in Seq(Byte) /\ (query' # <<>> => Len(query') >= 18)
    <3>1. CASE query' = <<>>
      BY <3>1
    <3>2. CASE query' # <<>>
      <4>1. query' \in Buffer(Len(h) + 18)
        BY <2>1, <2>2, <3>2, QueryType
      <4>2. query' \in Seq(Byte) /\ Len(query') = Len(h) + 18
        BY <2>2, <4>1, BufferLen
      <4> QED
        BY <2>2, <4>2
    <3> QED
      BY <3>1, <3>2
  <2>4. DnsTypeOK'
    BY <1>1, <2>3 DEF BuildQuery, DnsTypeOK
  <2>5. pc' = "server" => Len(query') >= 18
    BY <1>1, <2>3 DEF BuildQuery
  <2>6. answers' \in Seq(Answer) /\ ParserInBounds'
    BY <1>1 DEF BuildQuery, ParserInBounds, Parsing
  <2> QED
    BY <2>4, <2>5, <2>6
<1>2. CASE Serve
  <2>1. PICK l \in RecordLists, id \in {TransactionId, StaleId} :
          data' = Reply(id, l) /\ whole' = (id = TransactionId)
    BY <1>2 DEF Serve
  <2>2. id \in U16
    BY DnsAssumption
  <2>3. data' \in Seq(Byte) /\ whole' \in BOOLEAN /\ Len(data') \in Nat
    BY <1>2, <2>1, <2>2, ReplyType DEF Serve, DnsTypeOK
  <2>4. DnsTypeOK'
    BY <1>2, <2>3 DEF Serve, DnsTypeOK, parser
  <2>5. answers' \in Seq(Answer) /\ (pc' = "server" => Len(query') >= 18) /\ ParserInBounds'
    BY <1>2, <2>3 DEF Serve, ParserInBounds, Parsing, parser
  <2> QED
    BY <2>4, <2>5
<1>3. CASE Deliver
  <2>1. data' \in Seq(Byte) /\ whole' \in BOOLEAN /\ cut' \in BOOLEAN
    <3>1. CASE UNCHANGED <<data, whole, cut>>
      BY <3>1 DEF DnsTypeOK
    <3>2. CASE /\ \E n \in 0 .. (Len(data) - 1) : data' = SubSeq(data, 1, n)
               /\ whole' = FALSE /\ cut' = TRUE
      <4>1. PICK n \in 0 .. (Len(data) - 1) : data' = SubSeq(data, 1, n)
        BY <3>2
      <4>2. data \in Seq(Byte) /\ Len(data) \in Nat
        BY DEF DnsTypeOK
      <4>3. \A k \in 1 .. n : data[k] \in Byte
        BY <4>2
      <4>4. data' \in Seq(Byte)
        BY <4>1, <4>2, <4>3, SubSeqProperties
      <4> QED
        BY <3>2, <4>4
    <3>3. CASE /\ \E k \in 1 .. Len(data), v \in DamageTo : data' = [data EXCEPT ![k] = v]
               /\ whole' = FALSE /\ UNCHANGED cut
      <4>1. PICK k \in 1 .. Len(data), v \in DamageTo : data' = [data EXCEPT ![k] = v]
        BY <3>3
      <4>2. data \in Seq(Byte) /\ v \in Byte
        BY DnsAssumption DEF DnsTypeOK
      <4>3. data' \in Seq(Byte)
        BY <4>1, <4>2
      <4> QED
        BY <3>3, <4>3 DEF DnsTypeOK
    <3> QED
      BY <1>3, <3>1, <3>2, <3>3 DEF Deliver
  <2>2. Len(data') \in Nat
    BY <2>1
  <2>3. DnsTypeOK'
    BY <1>3, <2>1 DEF Deliver, DnsTypeOK, parser
  <2>4. answers' \in Seq(Answer) /\ (pc' = "server" => Len(query') >= 18) /\ ParserInBounds'
    BY <1>3, <2>2 DEF Deliver, ParserInBounds, Parsing, parser
  <2> QED
    BY <2>3, <2>4
<1> QED
  BY <1>1, <1>2, <1>3

\* What every step of the parser needs to know of the state before it.
LEMMA ParserFacts ==
  ASSUME DnsInv
  PROVE  /\ data \in Seq(Byte) /\ Len(data) \in Nat
         /\ offset \in Nat /\ pos \in Nat /\ high \in Nat /\ i \in Nat
         /\ labels_seen \in Nat /\ labels_seen <= MaxLabels /\ MaxLabels \in Nat
         /\ answers \in Seq(Answer) /\ Len(answers) <= MaxAnswers /\ MaxAnswers \in Nat
         /\ high <= Len(data)
<1>1. data \in Seq(Byte) /\ Len(data) \in Nat /\ answers \in Seq(Answer)
  BY DEF DnsInv, DnsTypeOK
<1>2. MaxLabels \in Nat /\ MaxAnswers \in Nat
  BY DnsAssumption
<1> QED
  BY <1>1, <1>2 DEF DnsInv, DnsTypeOK, ParserInBounds

\* What a step of the parser leaves alone.
LEMMA ParserStepInv ==
  ASSUME DnsInv, UNCHANGED <<query, list, whole, cut, data>>,
         pc' \in {"record", "name", "fixed", "done"},
         section' \in {"question", "answer"},
         i' \in Nat, offset' \in Nat, pos' \in Nat, high' \in Nat,
         labels_seen' \in 0 .. MaxLabels,
         answers' \in Seq(Answer), Len(answers') <= MaxAnswers, rc' \in -5 .. 0,
         pc' # "done" => offset' <= Len(data),
         pc' = "name" => pos' < Len(data),
         high' <= Len(data)
  PROVE  DnsInv'
<1>1. DnsTypeOK'
  BY DEF DnsInv, DnsTypeOK
<1>2. ParserInBounds'
  BY DEF ParserInBounds, Parsing
<1> QED
  BY <1>1, <1>2 DEF DnsInv

\* The header is read when twelve bytes are there.
LEMMA ParseHeaderInv == DnsInv /\ ParseHeader => DnsInv'
<1> SUFFICES ASSUME DnsInv, ParseHeader PROVE DnsInv'
  OBVIOUS
<1>1. /\ pc = "header" /\ UNCHANGED <<query, list, whole, cut, data, pos, labels_seen>>
      /\ labels_seen \in 0 .. MaxLabels /\ rc \in -5 .. 0 /\ section \in {"question", "answer"}
  BY DEF ParseHeader, DnsInv, DnsTypeOK
<1>2. CASE Len(data) < DNS_HEADER_LEN
  <2>1. Return(-2) /\ UNCHANGED <<section, i, offset, answers, high>>
    BY <1>2, ParserFacts DEF ParseHeader, DNS_HEADER_LEN
  <2> QED
    BY <1>1, <2>1, ParserFacts, ParserStepInv DEF Return
<1>3. CASE Len(data) >= DNS_HEADER_LEN
  <2>1. Reads(7) /\ Len(data) >= 12
    BY <1>3, ParserFacts DEF ParseHeader, DNS_HEADER_LEN
  <2>2. high' \in Nat /\ high' <= Len(data)
    BY <2>1, ParserFacts, ReadsType
  <2>3. \/ \E c \in {-3, -4} : Return(c) /\ UNCHANGED <<section, i, offset, answers>>
        \/ /\ pc' = "record" /\ section' = "question" /\ i' = 0
           /\ offset' = 12 /\ answers' = <<>> /\ rc' = rc
    BY <1>3, ParserFacts DEF ParseHeader, DNS_HEADER_LEN
  <2>4. CASE \E c \in {-3, -4} : Return(c) /\ UNCHANGED <<section, i, offset, answers>>
    BY <1>1, <2>2, <2>4, ParserFacts, ParserStepInv DEF Return
  <2>5. CASE /\ pc' = "record" /\ section' = "question" /\ i' = 0
             /\ offset' = 12 /\ answers' = <<>> /\ rc' = rc
    <3>1. answers' \in Seq(Answer) /\ Len(answers') <= MaxAnswers
      BY <2>5, ParserFacts
    <3>2. offset' \in Nat /\ offset' <= Len(data) /\ pos' \in Nat
      BY <1>1, <2>1, <2>5, ParserFacts
    <3> QED
      BY <1>1, <2>2, <2>5, <3>1, <3>2, ParserStepInv
  <2> QED
    BY <2>3, <2>4, <2>5
<1> QED
  BY <1>2, <1>3, ParserFacts DEF DNS_HEADER_LEN

\* A name is begun only inside the datagram.
LEMMA NextRecordInv == DnsInv /\ NextRecord => DnsInv'
<1> SUFFICES ASSUME DnsInv, NextRecord PROVE DnsInv'
  OBVIOUS
<1>1. /\ pc = "record" /\ offset <= Len(data)
      /\ UNCHANGED <<query, list, whole, cut, data, offset, answers, high>>
      /\ labels_seen \in 0 .. MaxLabels /\ rc \in -5 .. 0 /\ section \in {"question", "answer"}
  BY DEF NextRecord, DnsInv, DnsTypeOK, ParserInBounds, Parsing
<1>2. \/ \E c \in {-5, 0} : Return(c) /\ UNCHANGED <<section, i, pos, labels_seen>>
      \/ /\ offset < Len(data) /\ pc' = "name" /\ pos' = offset /\ labels_seen' = 0
         /\ UNCHANGED <<section, i, rc>>
      \/ section' = "answer" /\ i' = 0 /\ UNCHANGED <<pc, pos, labels_seen, rc>>
  BY DEF NextRecord
<1>3. CASE \E c \in {-5, 0} : Return(c) /\ UNCHANGED <<section, i, pos, labels_seen>>
  BY <1>1, <1>3, ParserFacts, ParserStepInv DEF Return
<1>4. CASE /\ offset < Len(data) /\ pc' = "name" /\ pos' = offset /\ labels_seen' = 0
           /\ UNCHANGED <<section, i, rc>>
  <2>1. labels_seen' \in 0 .. MaxLabels
    BY <1>4, ParserFacts
  <2> QED
    BY <1>1, <1>4, <2>1, ParserFacts, ParserStepInv
<1>5. CASE section' = "answer" /\ i' = 0 /\ UNCHANGED <<pc, pos, labels_seen, rc>>
  BY <1>1, <1>5, ParserFacts, ParserStepInv
<1> QED
  BY <1>2, <1>3, <1>4, <1>5

\* A label, a pointer or the root leaves the walk inside.
LEMMA SkipNameInv == DnsInv /\ SkipName => DnsInv'
<1> SUFFICES ASSUME DnsInv, SkipName PROVE DnsInv'
  OBVIOUS
<1> DEFINE length == ByteAt(pos)
<1>1. /\ pc = "name" /\ pos < Len(data) /\ offset <= Len(data) /\ Reads(pos)
      /\ UNCHANGED <<query, list, whole, cut, data, section, i, answers>>
      /\ labels_seen \in 0 .. MaxLabels /\ rc \in -5 .. 0 /\ section \in {"question", "answer"}
  BY DEF SkipName, DnsInv, DnsTypeOK, ParserInBounds, Parsing
<1>2. high' \in Nat /\ high' <= Len(data)
  BY <1>1, ParserFacts, ReadsType
<1>3. length \in Nat /\ length <= 255
  BY ParserFacts, ReadType, WidthDef
<1>4. \/ Pointer
      \/ Return(-5) /\ UNCHANGED <<offset, pos, labels_seen>>
      \/ pc' = "fixed" /\ offset' = pos + 1 /\ UNCHANGED <<pos, labels_seen, rc>>
      \/ Label(length)
  BY DEF SkipName
<1> HIDE DEF length
<1>5. \/ Return(-5) /\ UNCHANGED <<offset, pos, labels_seen>>
      \/ /\ pc' = "fixed" /\ offset' \in Nat /\ offset' <= Len(data)
         /\ UNCHANGED <<pos, labels_seen, rc>>
      \/ /\ pos' \in Nat /\ pos' < Len(data) /\ labels_seen' \in 0 .. MaxLabels
         /\ UNCHANGED <<pc, offset, rc>>
  <2>1. CASE Pointer
    BY <1>1, <2>1, ParserFacts DEF Pointer
  <2>2. CASE pc' = "fixed" /\ offset' = pos + 1 /\ UNCHANGED <<pos, labels_seen, rc>>
    BY <1>1, <2>2, ParserFacts
  <2>3. CASE Label(length)
    <3>1. /\ pos \in Nat /\ Len(data) \in Nat /\ pos < Len(data)
          /\ labels_seen \in Nat /\ labels_seen <= MaxLabels /\ MaxLabels \in Nat
      BY <1>1, ParserFacts
    <3> QED
      BY <1>3, <2>3, <3>1 DEF Label, TooManyLabels
  <2> QED
    BY <1>4, <2>1, <2>2, <2>3
<1>6. CASE Return(-5) /\ UNCHANGED <<offset, pos, labels_seen>>
  BY <1>1, <1>2, <1>6, ParserFacts, ParserStepInv DEF Return
<1>7. CASE /\ pc' = "fixed" /\ offset' \in Nat /\ offset' <= Len(data)
           /\ UNCHANGED <<pos, labels_seen, rc>>
  BY <1>1, <1>2, <1>7, ParserFacts, ParserStepInv
<1>8. CASE /\ pos' \in Nat /\ pos' < Len(data) /\ labels_seen' \in 0 .. MaxLabels
           /\ UNCHANGED <<pc, offset, rc>>
  BY <1>1, <1>2, <1>8, ParserFacts, ParserStepInv
<1> QED
  BY <1>5, <1>6, <1>7, <1>8

\* The type and class of a question are skipped only if they are there.
LEMMA SkipQuestionInv == DnsInv /\ SkipQuestion => DnsInv'
<1> SUFFICES ASSUME DnsInv, SkipQuestion PROVE DnsInv'
  OBVIOUS
<1>1. /\ pc = "fixed" /\ offset <= Len(data)
      /\ UNCHANGED <<query, list, whole, cut, data, section, pos, labels_seen, answers, high>>
      /\ labels_seen \in 0 .. MaxLabels /\ rc \in -5 .. 0 /\ section \in {"question", "answer"}
  BY DEF SkipQuestion, DnsInv, DnsTypeOK, ParserInBounds, Parsing
<1>2. \/ Return(-5) /\ UNCHANGED <<i, offset>>
      \/ /\ pc' = "record" /\ i' = i + 1 /\ offset' = offset + 4 /\ rc' = rc
         /\ ~(offset + 4 > Len(data))
  BY DEF SkipQuestion
<1>3. CASE Return(-5) /\ UNCHANGED <<i, offset>>
  BY <1>1, <1>3, ParserFacts, ParserStepInv DEF Return
<1>4. CASE /\ pc' = "record" /\ i' = i + 1 /\ offset' = offset + 4 /\ rc' = rc
           /\ ~(offset + 4 > Len(data))
  <2>1. i' \in Nat /\ offset' \in Nat /\ offset' <= Len(data)
    BY <1>4, ParserFacts
  <2> QED
    BY <1>1, <1>4, <2>1, ParserFacts, ParserStepInv
<1> QED
  BY <1>2, <1>3, <1>4

\* A record is taken only if its fixed part and its data are there, and stored
\* only if there is room.
LEMMA ParseAnswerInv == DnsInv /\ ParseAnswer => DnsInv'
<1> SUFFICES ASSUME DnsInv, ParseAnswer PROVE DnsInv'
  OBVIOUS
<1> DEFINE rdlength == U16At(offset + 8)
           record   == [address |-> [k \in 1 .. 4 |-> ByteAt(offset + 9 + k)],
                        ttl |-> <<U16At(offset + 4), U16At(offset + 6)>>]
           isA      == U16At(offset) = DNS_TYPE_A /\ U16At(offset + 2) = DNS_CLASS_IN /\ rdlength = 4
           stored   == isA /\ RoomForAnswer
<1>1. /\ pc = "fixed" /\ offset <= Len(data)
      /\ UNCHANGED <<query, list, whole, cut, data, section, pos, labels_seen>>
      /\ labels_seen \in 0 .. MaxLabels /\ rc \in -5 .. 0 /\ section \in {"question", "answer"}
  BY DEF ParseAnswer, DnsInv, DnsTypeOK, ParserInBounds, Parsing
<1>2. rdlength \in Nat
  <2>1. offset + 8 \in Nat
    BY ParserFacts
  <2>2. rdlength \in U16
    BY <2>1, ParserFacts, ReadType
  <2> HIDE DEF rdlength
  <2> QED
    BY <2>2, WidthDef
<1>3. record \in Answer
  <2>1. \A k \in 1 .. 4 : ByteAt(offset + 9 + k) \in Byte
    BY ParserFacts, ReadType
  <2>2. U16At(offset + 4) \in U16 /\ U16At(offset + 6) \in U16
    BY ParserFacts, ReadType
  <2> QED
    BY <2>1, <2>2 DEF Answer
<1>4. \/ Return(-5) /\ UNCHANGED <<i, offset, answers, high>>
      \/ FixedPartFits /\ Return(-5) /\ Reads(offset + 9) /\ UNCHANGED <<i, offset, answers>>
      \/ /\ FixedPartFits /\ RecordFits(rdlength)
         /\ Reads(IF stored THEN offset + 13 ELSE offset + 9)
         /\ answers' = IF stored THEN Append(answers, record) ELSE answers
         /\ offset' = offset + 10 + rdlength /\ i' = i + 1 /\ pc' = "record"
         /\ rc' = rc
  BY DEF ParseAnswer
<1>5. stored => rdlength = 4 /\ Len(answers) < MaxAnswers
  BY DEF RoomForAnswer
<1> HIDE DEF rdlength, record, isA, stored
<1>6. CASE Return(-5) /\ UNCHANGED <<i, offset, answers, high>>
  BY <1>1, <1>6, ParserFacts, ParserStepInv DEF Return
<1>7. CASE FixedPartFits /\ Return(-5) /\ Reads(offset + 9) /\ UNCHANGED <<i, offset, answers>>
  <2>1. offset + 9 \in Nat /\ offset + 9 < Len(data)
    BY <1>7, ParserFacts DEF FixedPartFits
  <2>2. high' \in Nat /\ high' <= Len(data)
    BY <1>7, <2>1, ParserFacts, ReadsType
  <2> QED
    BY <1>1, <1>7, <2>2, ParserFacts, ParserStepInv DEF Return
<1>8. CASE /\ FixedPartFits /\ RecordFits(rdlength)
           /\ Reads(IF stored THEN offset + 13 ELSE offset + 9)
           /\ answers' = IF stored THEN Append(answers, record) ELSE answers
           /\ offset' = offset + 10 + rdlength /\ i' = i + 1 /\ pc' = "record"
           /\ rc' = rc
  <2> DEFINE last == IF stored THEN offset + 13 ELSE offset + 9
  <2>1. last \in Nat /\ last < Len(data)
    <3>1. offset \in Nat /\ Len(data) \in Nat
      BY ParserFacts
    <3>2. offset + 10 + rdlength <= Len(data)
      BY <1>8 DEF RecordFits
    <3>3. CASE stored
      <4>1. rdlength = 4 /\ last = offset + 13
        BY <1>5, <3>3
      <4> HIDE DEF last
      <4> QED
        BY <3>1, <3>2, <4>1
    <3>4. CASE ~stored
      <4>1. last = offset + 9
        BY <3>4
      <4> HIDE DEF last
      <4> QED
        BY <1>2, <3>1, <3>2, <4>1
    <3> QED
      BY <3>3, <3>4
  <2>2. high' \in Nat /\ high' <= Len(data)
    <3>1. Reads(last)
      BY <1>8
    <3> HIDE DEF last
    <3> QED
      BY <2>1, <3>1, ParserFacts, ReadsType
  <2>3. answers' \in Seq(Answer) /\ Len(answers') <= MaxAnswers
    <3>1. answers \in Seq(Answer) /\ Len(answers) <= MaxAnswers /\ MaxAnswers \in Nat
      BY ParserFacts
    <3>2. CASE stored
      <4>1. answers' = Append(answers, record) /\ Len(answers) < MaxAnswers
        BY <1>5, <1>8, <3>2
      <4>2. answers' \in Seq(Answer) /\ Len(answers') = Len(answers) + 1
        BY <1>3, <3>1, <4>1
      <4> QED
        BY <3>1, <4>1, <4>2
    <3>3. CASE ~stored
      BY <1>8, <3>1, <3>3
    <3> QED
      BY <3>2, <3>3
  <2>4. i' \in Nat /\ offset' \in Nat /\ offset' <= Len(data)
    <3>1. offset + 10 + rdlength \in Nat /\ offset + 10 + rdlength <= Len(data)
      <4>1. offset + 10 + rdlength <= Len(data)
        BY <1>8 DEF RecordFits
      <4>2. offset \in Nat
        BY ParserFacts
      <4> QED
        BY <1>2, <4>1, <4>2
    <3>2. offset' = offset + 10 + rdlength /\ i' = i + 1
      BY <1>8
    <3> QED
      BY <3>1, <3>2, ParserFacts
  <2> QED
    BY <1>1, <1>8, <2>2, <2>3, <2>4, ParserFacts, ParserStepInv
<1> QED
  BY <1>4, <1>6, <1>7, <1>8

\* Every step keeps the invariant.
LEMMA DnsStep == DnsInv /\ [DnsNext]_dvars => DnsInv'
<1>1. DnsInv /\ UNCHANGED dvars => DnsInv'
  BY DEF DnsInv, DnsTypeOK, ParserInBounds, Parsing, dvars, parser
<1> QED
  BY <1>1, DatagramInv, ParseHeaderInv, NextRecordInv, SkipNameInv, SkipQuestionInv,
     ParseAnswerInv DEF DnsNext, dns_parse_response

\* For every hostname, answer section, cut and damage: dns_parse_response stays
\* where it has checked that there is something to read.
THEOREM DnsInvariant == DnsSpec => []DnsInv
BY DnsInitInv, DnsStep, PTL DEF DnsSpec

\* The locals of dns_parse_response stay in range, the array of answers included.
THEOREM DnsTypeCorrect == DnsSpec => []DnsTypeOK
<1>1. DnsInv => DnsTypeOK
  BY DEF DnsInv
<1> QED
  BY <1>1, DnsInvariant, PTL

\* dns_parse_response reads nothing outside the datagram, whatever it holds.
THEOREM ReadsInBoundsHolds == DnsSpec => []ReadsInBounds
<1>1. DnsInv => ReadsInBounds
  BY DEF DnsInv, ParserInBounds, ReadsInBounds
<1> QED
  BY <1>1, DnsInvariant, PTL
-----------------------------------------------------------------------------
(***************************************************************************)
(* Where everything lies in a reply.                                       *)
(***************************************************************************)
\* A label of an accepted hostname, as it is encoded: its length, and behind
\* it the next label or the root.
LEMMA NameWalk ==
  ASSUME NEW h \in Seq(Byte), dns_build_a_query(h) # <<>>, NEW s \in Starts(h)
  PROVE  /\ EncodedName(h)[s] = LabelLen(h, s) /\ LabelLen(h, s) \in 1 .. MaxLabelLen
         /\ s \in 1 .. Len(h)
         /\ s + LabelLen(h, s) + 1 \in Starts(h) \cup {Len(h) + 2}
<1> DEFINE n == LabelLen(h, s)
           name == [k \in 1 .. (Len(h) + 1) |-> IF k \in Starts(h) THEN LabelLen(h, k) ELSE h[k - 1]]
<1>1. /\ ~(n = 0) /\ ~(n > MaxLabelLen)
      /\ \A k \in Starts(h) : ~(LabelLen(h, k) > MaxLabelLen)
  BY DEF dns_build_a_query
<1>2. /\ Starts(h) \subseteq 1 .. (Len(h) + 1) /\ Len(h) \in Nat
      /\ Ends(h) \subseteq 1 .. (Len(h) + 1)
  BY DEF Starts, Ends
<1>3. n \in 0 .. Len(h) /\ s + n \in Ends(h)
  BY <1>2, LabelLenType
<1>4. MaxLabelLen \in 1 .. 63
  BY DnsAssumption
<1>5. n \in 1 .. MaxLabelLen
  <2> HIDE DEF n
  <2> QED
    BY <1>1, <1>3, <1>4
<1>6. s \in 1 .. Len(h)
  <2> HIDE DEF n
  <2> QED
    BY <1>2, <1>3, <1>5
<1>7. s + n + 1 \in Starts(h) \cup {Len(h) + 2}
  <2> HIDE DEF n
  <2>1. CASE s + n = Len(h) + 1
    BY <1>2, <2>1
  <2>2. CASE s + n # Len(h) + 1
    BY <1>3, <2>2 DEF Starts
  <2> QED
    BY <2>1, <2>2
<1>8. EncodedName(h)[s] = n
  <2>1. EncodedName(h) = name \o <<0>>
    BY DEF EncodedName
  <2>2. name \in Seq(Nat) /\ Len(name) = Len(h) + 1 /\ name[s] = n
    <3>1. ASSUME NEW k \in 1 .. (Len(h) + 1) PROVE name[k] \in Nat
      <4>1. CASE k \in Starts(h)
        <5>1. LabelLen(h, k) \in 0 .. Len(h)
          BY <1>2, <4>1, LabelLenType
        <5> QED
          BY <4>1, <5>1
      <4>2. CASE k \notin Starts(h)
        <5>1. 1 \in Starts(h)
          BY DEF Starts
        <5>2. k - 1 \in 1 .. Len(h)
          BY <1>2, <4>2, <5>1
        <5>3. h[k - 1] \in Byte
          BY <5>2
        <5> QED
          BY <4>2, <5>3, WidthDef
      <4> QED
        BY <4>1, <4>2
    <3>2. name[s] = n
      BY <1>2
    <3>3. name \in [1 .. (Len(h) + 1) -> Nat] /\ Len(h) + 1 \in Nat
      BY <1>2, <3>1
    <3> HIDE DEF name
    <3> QED
      BY <3>2, <3>3
  <2> HIDE DEF name, n
  <2> QED
    BY <1>2, <2>1, <2>2
<1> QED
  BY <1>5, <1>6, <1>7, <1>8

\* The root ends the name.
LEMMA NameEnd ==
  ASSUME NEW h \in Seq(Byte), dns_build_a_query(h) # <<>>
  PROVE  /\ EncodedName(h) \in Seq(Byte) /\ Len(EncodedName(h)) = Len(h) + 2
         /\ EncodedName(h)[Len(h) + 2] = 0 /\ 1 \in Starts(h)
         /\ Len(h) \in Nat /\ Len(h) + 1 <= 2 * MaxLabels
<1>1. /\ \A s \in Starts(h) : ~(LabelLen(h, s) > MaxLabelLen)
      /\ ~(Len(h) > MaxHostname)
  BY DEF dns_build_a_query
<1>2. Len(h) \in Nat /\ MaxHostname \in Nat /\ MaxLabels \in Nat /\ 2 * MaxLabels >= MaxHostname + 1
  BY DnsAssumption
<1>3. EncodedName(h) \in Seq(Byte) /\ Len(EncodedName(h)) = Len(h) + 2
  BY <1>1, <1>2, EncodedNameType, BufferLen
<1> DEFINE name == [k \in 1 .. (Len(h) + 1) |-> IF k \in Starts(h) THEN LabelLen(h, k) ELSE h[k - 1]]
<1>4. EncodedName(h) = name \o <<0>> /\ DOMAIN name = 1 .. (Len(h) + 1)
  BY DEF EncodedName
<1>5. EncodedName(h)[Len(h) + 2] = 0
  <2>1. name \in Seq({name[k] : k \in 1 .. (Len(h) + 1)} \cup {0})
    BY <1>2
  <2>2. Len(name) = Len(h) + 1
    BY <1>2
  <2>3. <<0>> \in Seq({name[k] : k \in 1 .. (Len(h) + 1)} \cup {0})
    OBVIOUS
  <2> HIDE DEF name
  <2> QED
    BY <1>2, <1>4, <2>1, <2>2, <2>3
<1> QED
  BY <1>1, <1>2, <1>3, <1>5 DEF Starts

\* The message s consists of six parts.
SixParts(s, a, b, c, d, e, f) ==
  /\ s \in Seq(Byte) /\ Len(s) = Len(a) + Len(b) + Len(c) + Len(d) + Len(e) + Len(f)
  /\ Occurs(s, 0, a)
  /\ Occurs(s, Len(a), b)
  /\ Occurs(s, Len(a) + Len(b), c)
  /\ Occurs(s, Len(a) + Len(b) + Len(c), d)
  /\ Occurs(s, Len(a) + Len(b) + Len(c) + Len(d), e)
  /\ Occurs(s, Len(a) + Len(b) + Len(c) + Len(d) + Len(e), f)

\* Six buffers put one behind the other lie where their lengths say.
LEMMA SixPartsJoined ==
  ASSUME NEW a \in Seq(Byte), NEW b \in Seq(Byte), NEW c \in Seq(Byte),
         NEW d \in Seq(Byte), NEW e \in Seq(Byte), NEW f \in Seq(Byte)
  PROVE  SixParts(((((a \o b) \o c) \o d) \o e) \o f, a, b, c, d, e, f)
<1> DEFINE s1 == a \o b
           s2 == s1 \o c
           s3 == s2 \o d
           s4 == s3 \o e
           s5 == s4 \o f
<1>1. /\ Len(a) \in Nat /\ Len(b) \in Nat /\ Len(c) \in Nat
      /\ Len(d) \in Nat /\ Len(e) \in Nat /\ Len(f) \in Nat
  OBVIOUS
<1>2. /\ s1 \in Seq(Byte) /\ Len(s1) = Len(a) + Len(b)
      /\ Occurs(s1, 0, a) /\ Occurs(s1, Len(a), b)
  BY Joined
<1> HIDE DEF s1
<1>3. /\ s2 \in Seq(Byte) /\ Len(s2) = Len(s1) + Len(c)
      /\ Occurs(s2, 0, a) /\ Occurs(s2, Len(a), b) /\ Occurs(s2, Len(s1), c)
  BY <1>2, Joined
<1> HIDE DEF s2
<1>4. /\ s3 \in Seq(Byte) /\ Len(s3) = Len(s2) + Len(d)
      /\ Occurs(s3, 0, a) /\ Occurs(s3, Len(a), b) /\ Occurs(s3, Len(s1), c) /\ Occurs(s3, Len(s2), d)
  BY <1>3, Joined
<1> HIDE DEF s3
<1>5. /\ s4 \in Seq(Byte) /\ Len(s4) = Len(s3) + Len(e)
      /\ Occurs(s4, 0, a) /\ Occurs(s4, Len(a), b) /\ Occurs(s4, Len(s1), c) /\ Occurs(s4, Len(s2), d)
      /\ Occurs(s4, Len(s3), e)
  BY <1>4, Joined
<1> HIDE DEF s4
<1>6. /\ s5 \in Seq(Byte) /\ Len(s5) = Len(s4) + Len(f)
      /\ Occurs(s5, 0, a) /\ Occurs(s5, Len(a), b) /\ Occurs(s5, Len(s1), c) /\ Occurs(s5, Len(s2), d)
      /\ Occurs(s5, Len(s3), e) /\ Occurs(s5, Len(s4), f)
  BY <1>5, Joined
<1>7. s5 = ((((a \o b) \o c) \o d) \o e) \o f
  BY DEF s1, s2, s3, s4
<1> HIDE DEF s5
<1>8. SixParts(s5, a, b, c, d, e, f)
  BY <1>1, <1>2, <1>3, <1>4, <1>5, <1>6 DEF SixParts
<1> QED
  BY <1>7, <1>8

\* The two bytes of a 16-bit value.
LEMMA WordAt ==
  ASSUME NEW s, NEW o, NEW v \in U16, Occurs(s, o, write_u16_be(v))
  PROVE  o \in Nat /\ o + 2 <= Len(s) /\ s[o + 1] * 256 + s[o + 2] = v
<1>1. v \in Int
  BY WidthDef
<1>2. /\ o \in Nat /\ o + Len(<<v \div 256, v % 256>>) <= Len(s)
      /\ \A j \in 1 .. Len(<<v \div 256, v % 256>>) : s[o + j] = <<v \div 256, v % 256>>[j]
  BY DEF Occurs, write_u16_be
<1>3. Len(<<v \div 256, v % 256>>) = 2 /\ <<v \div 256, v % 256>>[1] = v \div 256
      /\ <<v \div 256, v % 256>>[2] = v % 256
  OBVIOUS
<1>4. o + 2 <= Len(s) /\ s[o + 1] = v \div 256 /\ s[o + 2] = v % 256
  BY <1>2, <1>3
<1> QED
  BY <1>1, <1>2, <1>4
-----------------------------------------------------------------------------
\* The query is the one of hostname h.
AskedFor(h) == h \in Hostnames /\ query = dns_build_a_query(h) /\ query # <<>>

\* The question repeats the encoded name.
LEMMA QuestionLayout ==
  ASSUME NEW h, AskedFor(h)
  PROVE  /\ h \in Seq(Byte) /\ query \in Seq(Byte) /\ Len(query) = Len(h) + 18 /\ Len(h) \in Nat
         /\ Question \in Seq(Byte) /\ Len(Question) = Len(h) + 6
         /\ Occurs(Question, 0, EncodedName(h))
         /\ SubSeq(Question, 1, Len(Question) - 4) = EncodedName(h)
<1> DEFINE hd == QueryHeader
           n  == EncodedName(h)
           t  == write_u16_be(DNS_TYPE_A)
           c  == write_u16_be(DNS_CLASS_IN)
<1>1. h \in Seq(Byte) /\ Len(h) \in Nat /\ dns_build_a_query(h) # <<>>
  BY DnsAssumption DEF AskedFor
<1>2. query \in Seq(Byte) /\ Len(query) = Len(h) + 18
  BY <1>1, QueryType, BufferLen DEF AskedFor
<1>3. query = ((hd \o n) \o t) \o c
  BY DEF AskedFor, dns_build_a_query
<1>4. n \in Seq(Byte) /\ Len(n) = Len(h) + 2
  BY <1>1, NameEnd
<1>5. t \in Seq(Byte) /\ c \in Seq(Byte) /\ Len(t) = 2 /\ Len(c) = 2
  <2>1. t \in Buffer(2) /\ c \in Buffer(2)
    BY WriteU16, WidthDef DEF DNS_TYPE_A, DNS_CLASS_IN
  <2> HIDE DEF t, c
  <2> QED
    BY <2>1, BufferLen
<1>6. hd \in Seq(Byte) /\ Len(hd) = 12
  <2> DEFINE id   == write_u16_be(TransactionId)
             rest == <<1, 0, 0, 1, 0, 0, 0, 0, 0, 0>>
  <2>1. id \in Seq(Byte) /\ Len(id) = 2
    BY DnsAssumption, WriteU16, BufferLen
  <2>2. rest \in Seq(Byte) /\ Len(rest) = 10
    BY DEF Byte
  <2>3. hd = id \o rest
    BY DEF QueryHeader
  <2> HIDE DEF id, rest, hd
  <2>4. id \o rest \in Seq(Byte) /\ Len(id \o rest) = Len(id) + Len(rest)
    BY <2>1, <2>2, Joined
  <2> QED
    BY <2>1, <2>2, <2>3, <2>4
<1> HIDE DEF hd, n, t, c
<1>7. Occurs(query, 12, n)
  <2>1. Occurs(hd \o n, Len(hd), n) /\ hd \o n \in Seq(Byte)
    BY <1>4, <1>6, OccursConcat
  <2>2. Occurs((hd \o n) \o t, Len(hd), n) /\ (hd \o n) \o t \in Seq(Byte)
    BY <1>4, <1>5, <2>1, Joined
  <2>3. Occurs(((hd \o n) \o t) \o c, Len(hd), n)
    BY <1>4, <1>5, <2>2, OccursLeft
  <2> QED
    BY <1>3, <1>6, <2>3
<1>8. /\ Question \in Seq(Byte) /\ Len(Question) = Len(h) + 6
      /\ \A j \in 1 .. Len(Question) : Question[j] = query[12 + j]
  <2>1. Question = SubSeq(query, 13, Len(query))
    BY DEF Question, From, DNS_HEADER_LEN
  <2>2. \A k \in 13 .. Len(query) : query[k] \in Byte
    BY <1>2
  <2>3. 13 \in Int /\ Len(query) \in Int
    BY <1>1, <1>2
  <2>4. /\ Question \in Seq(Byte)
        /\ Len(Question) = IF 13 <= Len(query) THEN Len(query) - 13 + 1 ELSE 0
        /\ \A k \in 1 .. (Len(query) - 13 + 1) : Question[k] = query[13 + k - 1]
    BY <2>1, <2>2, <2>3, SubSeqProperties
  <2> QED
    BY <1>1, <1>2, <2>4
<1>9. Occurs(Question, 0, n)
  <2>1. \A j \in 1 .. Len(n) : query[12 + j] = n[j]
    BY <1>7 DEF Occurs
  <2> QED
    BY <1>1, <1>4, <1>8, <2>1 DEF Occurs
<1>10. SubSeq(Question, 1, Len(Question) - 4) = n
  <2>1. Len(Question) - 4 \in 0 .. Len(Question) /\ Len(Question) - 4 = Len(h) + 2
    BY <1>1, <1>8
  <2> DEFINE q == SubSeq(Question, 1, Len(Question) - 4)
  <2>2. q \in Seq(Byte) /\ Len(q) = Len(h) + 2 /\ Occurs(Question, 0, q)
    BY <1>8, <2>1, OccursPrefix
  <2> HIDE DEF q
  <2>3. \A j \in 1 .. Len(n) : q[j] = n[j]
    BY <1>4, <1>9, <2>2 DEF Occurs
  <2>4. q = n
    BY <1>4, <2>2, <2>3, SeqEqual
  <2> QED
    BY <2>4 DEF q
<1> QED
  BY <1>1, <1>2, <1>8, <1>9, <1>10 DEF n

\* How long the owner of a record is, written out or as a pointer.
OwnerLen(r) == IF r.compressed THEN 2 ELSE Len(query) - 16

\* The parts of a record.
LEMMA RecordLayout ==
  ASSUME NEW h, AskedFor(h), NEW r \in ResourceRecord, Len(r.rdata) \in U16
  PROVE  LET b == RecordBytes(r)
             w == OwnerLen(r)
         IN  /\ b \in Seq(Byte) /\ Len(b) = w + 10 + Len(r.rdata) /\ w \in Nat /\ w >= 2
             /\ Occurs(b, 0, IF r.compressed THEN <<192, 12>> ELSE EncodedName(h))
             /\ Occurs(b, w, write_u16_be(r.type)) /\ Occurs(b, w + 2, write_u16_be(r.class))
             /\ Occurs(b, w + 4, write_u16_be(r.ttl[1])) /\ Occurs(b, w + 6, write_u16_be(r.ttl[2]))
             /\ Occurs(b, w + 8, write_u16_be(Len(r.rdata))) /\ Occurs(b, w + 10, r.rdata)
<1> DEFINE o == Owner(r)
           t == write_u16_be(r.type)
           c == write_u16_be(r.class)
           l == write_u32_be(r.ttl)
           n == write_u16_be(Len(r.rdata))
           w == OwnerLen(r)
           b == RecordBytes(r)
<1>1. /\ r.type \in U16 /\ r.class \in U16 /\ r.ttl \in U16 \X U16 /\ r.rdata \in Seq(Byte)
      /\ r.compressed \in BOOLEAN
  BY DEF ResourceRecord
<1>2. /\ t \in Seq(Byte) /\ c \in Seq(Byte) /\ n \in Seq(Byte)
      /\ Len(t) = 2 /\ Len(c) = 2 /\ Len(n) = 2
  BY <1>1, WriteU16, BufferLen
<1>3. l \in Seq(Byte) /\ Len(l) = 4
  BY <1>1, WriteU32, BufferLen
<1>4. o = (IF r.compressed THEN <<192, 12>> ELSE EncodedName(h))
      /\ o \in Seq(Byte) /\ Len(o) = w /\ w \in Nat /\ w >= 2
  <2>1. CASE r.compressed
    <3>1. o = <<192, 12>> /\ w = 2
      BY <2>1 DEF Owner, OwnerLen
    <3>2. 192 \in Byte /\ 12 \in Byte
      BY WidthDef
    <3> QED
      BY <2>1, <3>1, <3>2
  <2>2. CASE ~r.compressed
    <3>1. o = EncodedName(h) /\ w = Len(query) - 16 /\ Len(query) = Len(h) + 18 /\ Len(h) \in Nat
      BY <2>2, QuestionLayout DEF Owner, OwnerLen
    <3>2. o \in Seq(Byte) /\ Len(o) = Len(h) + 2
      BY <3>1, QuestionLayout, NameEnd DEF AskedFor
    <3> QED
      BY <2>2, <3>1, <3>2
  <2> QED
    BY <1>1, <2>1, <2>2
<1>5. b = ((((o \o t) \o c) \o l) \o n) \o r.rdata
  BY DEF RecordBytes
<1>6. l = write_u16_be(r.ttl[1]) \o write_u16_be(r.ttl[2])
  BY DEF write_u32_be
<1>7. Occurs(l, 0, write_u16_be(r.ttl[1])) /\ Occurs(l, 2, write_u16_be(r.ttl[2]))
  <2>1. r.ttl[1] \in U16 /\ r.ttl[2] \in U16
    BY <1>1
  <2>2. write_u16_be(r.ttl[1]) \in Seq(Byte) /\ write_u16_be(r.ttl[2]) \in Seq(Byte)
        /\ Len(write_u16_be(r.ttl[1])) = 2 /\ Len(write_u16_be(r.ttl[2])) = 2
    BY <2>1, WriteU16, BufferLen
  <2> QED
    BY <1>6, <2>2, OccursConcat
<1>8. Len(r.rdata) \in Nat
  BY <1>1
<1> HIDE DEF o, t, c, l, n, w, b
<1>9. /\ b \in Seq(Byte) /\ Len(b) = w + 2 + 2 + 4 + 2 + Len(r.rdata)
      /\ Occurs(b, 0, o) /\ Occurs(b, w, t) /\ Occurs(b, w + 2, c) /\ Occurs(b, w + 2 + 2, l)
      /\ Occurs(b, w + 2 + 2 + 4, n) /\ Occurs(b, w + 2 + 2 + 4 + 2, r.rdata)
  <2>1. /\ b \in Seq(Byte)
        /\ Len(b) = Len(o) + Len(t) + Len(c) + Len(l) + Len(n) + Len(r.rdata)
        /\ Occurs(b, 0, o) /\ Occurs(b, Len(o), t) /\ Occurs(b, Len(o) + Len(t), c)
        /\ Occurs(b, Len(o) + Len(t) + Len(c), l)
        /\ Occurs(b, Len(o) + Len(t) + Len(c) + Len(l), n)
        /\ Occurs(b, Len(o) + Len(t) + Len(c) + Len(l) + Len(n), r.rdata)
    <3>1. /\ o \in Seq(Byte) /\ t \in Seq(Byte) /\ c \in Seq(Byte)
          /\ l \in Seq(Byte) /\ n \in Seq(Byte) /\ r.rdata \in Seq(Byte)
      BY <1>1, <1>2, <1>3, <1>4
    <3>2. SixParts(((((o \o t) \o c) \o l) \o n) \o r.rdata, o, t, c, l, n, r.rdata)
      BY <3>1, SixPartsJoined, Zenon
    <3>3. SixParts(b, o, t, c, l, n, r.rdata)
      BY <1>5, <3>2, Zenon
    <3> QED
      BY <3>3 DEF SixParts
  <2> QED
    BY <1>2, <1>3, <1>4, <2>1
<1>10. /\ w + 2 + 2 = w + 4 /\ w + 2 + 2 + 4 = w + 8 /\ w + 2 + 2 + 4 + 2 = w + 10
       /\ w + 2 + 2 + 4 + 2 + Len(r.rdata) = w + 10 + Len(r.rdata)
  BY <1>4, <1>8
<1>11. Occurs(b, w + 4, write_u16_be(r.ttl[1])) /\ Occurs(b, w + 6, write_u16_be(r.ttl[2]))
  <2>1. Len(write_u16_be(r.ttl[1])) \in Nat /\ Len(write_u16_be(r.ttl[2])) \in Nat
    BY DEF write_u16_be
  <2>2. Len(b) \in Nat /\ Len(l) \in Nat
    BY <1>3, <1>9
  <2>3. Occurs(b, (w + 4) + 0, write_u16_be(r.ttl[1])) /\ Occurs(b, (w + 4) + 2, write_u16_be(r.ttl[2]))
    BY <1>7, <1>9, <1>10, <2>1, <2>2, OccursIn
  <2>4. (w + 4) + 0 = w + 4 /\ (w + 4) + 2 = w + 6
    BY <1>4
  <2> QED
    BY <2>3, <2>4
<1> QED
  BY <1>4, <1>9, <1>10, <1>11 DEF t, c, n, w, b

-----------------------------------------------------------------------------
\* The first records of an answer section, put together.
Prefix(l) == CHOOSE f : Joins(f, l)

\* Where the record behind the first k lies in a reply.
RecStart(l, k) == Len(query) + Len(Prefix(l)[k])

\* What a list of records that a server may send consists of.
LEMMA ListType ==
  ASSUME NEW l \in RecordLists
  PROVE  /\ l \in Seq(ResourceRecord) /\ Len(l) \in Nat /\ Len(l) \in U16
         /\ \A k \in 1 .. Len(l) : l[k] \in ResourceRecord /\ Len(l[k].rdata) \in U16
<1>1. l \in Seq(ResourceRecord) /\ Len(l) \in U16 /\ \A k \in 1 .. Len(l) : Len(l[k].rdata) \in U16
  BY DnsAssumption
<1> QED
  BY <1>1

\* The records are put one behind the other.
LEMMA PrefixStep ==
  ASSUME NEW h, AskedFor(h), NEW l \in RecordLists
  PROVE  /\ Prefix(l)[0] = <<>> /\ AllRecords(l) = Prefix(l)[Len(l)]
         /\ \A k \in 0 .. Len(l) : Prefix(l)[k] \in Seq(Byte)
         /\ \A k \in 1 .. Len(l) : /\ RecordBytes(l[k]) \in Seq(Byte)
                                   /\ Prefix(l)[k] = Prefix(l)[k - 1] \o RecordBytes(l[k])
<1> DEFINE f == Prefix(l)
<1>1. Len(l) \in Nat /\ \A k \in 1 .. Len(l) : RecordBytes(l[k]) \in Seq(Byte)
  BY ListType, RecordLayout
<1>2. Joins(f, l)
  BY <1>1, JoinsExists DEF Prefix
<1>3. AllRecords(l) = f[Len(l)]
  BY DEF AllRecords, Joins, Prefix
<1> HIDE DEF f
<1>4. \A k \in 0 .. Len(l) : f[k] = IF k = 0 THEN <<>> ELSE f[k - 1] \o RecordBytes(l[k])
  BY <1>2 DEF Joins
<1>5. f[0] = <<>> /\ \A k \in 1 .. Len(l) : f[k] = f[k - 1] \o RecordBytes(l[k])
  <2>1. 0 \in 0 .. Len(l) /\ \A k \in 1 .. Len(l) : k \in 0 .. Len(l) /\ k # 0
    BY <1>1
  <2> QED
    BY <1>4, <2>1, Zenon
<1> DEFINE S == {n \in Nat : n <= Len(l) => f[n] \in Seq(Byte)}
<1>6. 0 \in S
  <2>1. <<>> \in Seq(Byte)
    OBVIOUS
  <2>2. f[0] \in Seq(Byte)
    BY <1>5, <2>1, Zenon
  <2> QED
    BY <2>2
<1>7. ASSUME NEW n \in Nat, n \in S PROVE n + 1 \in S
  <2> SUFFICES ASSUME n + 1 <= Len(l) PROVE f[n + 1] \in Seq(Byte)
    OBVIOUS
  <2>1. n + 1 \in 1 .. Len(l) /\ (n + 1) - 1 = n
    BY <1>1
  <2>2. f[n] \in Seq(Byte) /\ RecordBytes(l[n + 1]) \in Seq(Byte)
    BY <1>1, <1>7, <2>1
  <2>3. f[n + 1] = f[n] \o RecordBytes(l[n + 1])
    BY <1>5, <2>1
  <2> QED
    BY <2>2, <2>3
<1>8. Nat \subseteq S
  <2> HIDE DEF S
  <2> QED
    BY <1>6, <1>7, SetInduction
<1>9. \A k \in 0 .. Len(l) : f[k] \in Seq(Byte)
  BY <1>1, <1>8
<1> QED
  BY <1>1, <1>3, <1>5, <1>9 DEF f

\* Every record lies behind the ones before it.
LEMMA RecordsLayout ==
  ASSUME NEW h, AskedFor(h), NEW l \in RecordLists
  PROVE  \A k \in 1 .. Len(l) : Occurs(AllRecords(l), Len(Prefix(l)[k - 1]), RecordBytes(l[k]))
<1> DEFINE f == Prefix(l)
           P(n) == \A k \in 1 .. n : Occurs(f[n], Len(f[k - 1]), RecordBytes(l[k]))
           S == {n \in Nat : n <= Len(l) => P(n)}
<1>1. Len(l) \in Nat
  BY ListType
<1>2. /\ \A k \in 0 .. Len(l) : f[k] \in Seq(Byte)
      /\ \A k \in 1 .. Len(l) : RecordBytes(l[k]) \in Seq(Byte) /\ f[k] = f[k - 1] \o RecordBytes(l[k])
  BY PrefixStep
<1> HIDE DEF f
<1>3. 0 \in S
  OBVIOUS
<1>4. ASSUME NEW n \in Nat, n \in S PROVE n + 1 \in S
  <2> SUFFICES ASSUME n + 1 <= Len(l) PROVE P(n + 1)
    OBVIOUS
  <2>1. n + 1 \in 1 .. Len(l) /\ (n + 1) - 1 = n /\ n \in 0 .. Len(l)
    BY <1>1
  <2> DEFINE b == RecordBytes(l[n + 1])
  <2>2. f[n] \in Seq(Byte) /\ b \in Seq(Byte) /\ f[n + 1] = f[n] \o b
    BY <1>2, <2>1
  <2>3. ASSUME NEW k \in 1 .. (n + 1) PROVE Occurs(f[n + 1], Len(f[k - 1]), RecordBytes(l[k]))
    <3>1. CASE k = n + 1
      <4>1. Occurs(f[n] \o b, Len(f[n]), b)
        BY <2>2, OccursConcat
      <4> QED
        BY <2>1, <2>2, <3>1, <4>1
    <3>2. CASE k # n + 1
      <4>1. k \in 1 .. n /\ k \in 1 .. Len(l)
        BY <1>1, <2>1, <3>2
      <4>2. Occurs(f[n], Len(f[k - 1]), RecordBytes(l[k])) /\ RecordBytes(l[k]) \in Seq(Byte)
        <5>1. P(n)
          BY <1>1, <1>4
        <5> QED
          BY <1>2, <4>1, <5>1
      <4> HIDE DEF b
      <4>3. Occurs(f[n] \o b, Len(f[k - 1]), RecordBytes(l[k]))
        BY <2>2, <4>2, OccursLeft
      <4> QED
        BY <2>2, <4>3
    <3> QED
      BY <3>1, <3>2
  <2> QED
    BY <2>3
<1>5. Nat \subseteq S
  <2> HIDE DEF S
  <2> QED
    BY <1>3, <1>4, SetInduction
<1>6. P(Len(l)) /\ AllRecords(l) = f[Len(l)]
  <2>1. P(Len(l))
    BY <1>1, <1>5
  <2>2. AllRecords(l) = f[Len(l)]
    BY PrefixStep DEF f
  <2> QED
    BY <2>1, <2>2
<1> QED
  BY <1>6 DEF f

\* The message F is a reply with the records of l to the query for h.
ReplyTo(F, id, h, l) ==
  /\ F \in Seq(Byte) /\ Len(F) = RecStart(l, Len(l)) /\ Len(query) <= Len(F)
  /\ Occurs(F, 0, write_u16_be(id)) /\ Occurs(F, 2, <<129, 128, 0, 1>>)
  /\ Occurs(F, 6, write_u16_be(Len(l))) /\ Occurs(F, 12, EncodedName(h))
  /\ RecStart(l, 0) = Len(query)
  /\ \A k \in 1 .. Len(l) :
       /\ Occurs(F, RecStart(l, k - 1), RecordBytes(l[k]))
       /\ RecStart(l, k) = RecStart(l, k - 1) + Len(RecordBytes(l[k]))
       /\ RecStart(l, k) \in Nat /\ RecStart(l, k - 1) \in Nat

\* The server's reply: header, question and records.
LEMMA ReplyLayout ==
  ASSUME NEW h, AskedFor(h), NEW l \in RecordLists, NEW id \in U16
  PROVE  ReplyTo(Reply(id, l), id, h, l)
<1> DEFINE a == write_u16_be(id)
           b == <<129, 128, 0, 1>>
           c == write_u16_be(Len(l))
           d == <<0, 0, 0, 0>>
           q == Question
           rs == AllRecords(l)
           F == Reply(id, l)
<1>1. /\ a \in Seq(Byte) /\ c \in Seq(Byte) /\ Len(a) = 2 /\ Len(c) = 2
  BY ListType, WriteU16, BufferLen
<1>2. b \in Seq(Byte) /\ d \in Seq(Byte) /\ Len(b) = 4 /\ Len(d) = 4
  <2>1. 129 \in Byte /\ 128 \in Byte /\ 0 \in Byte /\ 1 \in Byte
    BY WidthDef
  <2> QED
    BY <2>1
<1>3. /\ q \in Seq(Byte) /\ Len(q) = Len(h) + 6 /\ Len(h) \in Nat /\ Len(query) = Len(h) + 18
      /\ Occurs(q, 0, EncodedName(h))
  BY QuestionLayout
<1>4. /\ rs \in Seq(Byte) /\ rs = Prefix(l)[Len(l)] /\ Prefix(l)[0] = <<>>
      /\ \A k \in 0 .. Len(l) : Prefix(l)[k] \in Seq(Byte)
      /\ \A k \in 1 .. Len(l) : /\ RecordBytes(l[k]) \in Seq(Byte)
                                /\ Prefix(l)[k] = Prefix(l)[k - 1] \o RecordBytes(l[k])
  <2>1. Len(l) \in 0 .. Len(l)
    BY ListType
  <2> QED
    BY <2>1, PrefixStep
<1>5. F = ((((a \o b) \o c) \o d) \o q) \o rs
  BY DEF Reply
<1>6. \A k \in 1 .. Len(l) : Occurs(rs, Len(Prefix(l)[k - 1]), RecordBytes(l[k]))
  BY RecordsLayout
<1> HIDE DEF a, b, c, d, q, rs, F
<1>7. SixParts(((((a \o b) \o c) \o d) \o q) \o rs, a, b, c, d, q, rs)
  BY <1>1, <1>2, <1>3, <1>4, SixPartsJoined, Zenon
<1>8. SixParts(F, a, b, c, d, q, rs)
  BY <1>5, <1>7, Zenon
<1>9. /\ F \in Seq(Byte) /\ Len(F) = Len(query) + Len(rs) /\ Len(rs) \in Nat
      /\ Occurs(F, 0, a) /\ Occurs(F, 2, b) /\ Occurs(F, 6, c) /\ Occurs(F, 12, q)
      /\ Occurs(F, Len(query), rs)
  BY <1>1, <1>2, <1>3, <1>4, <1>8 DEF SixParts
<1>10. Len(F) = RecStart(l, Len(l)) /\ Len(query) <= Len(F) /\ RecStart(l, 0) = Len(query)
  <2>1. Len(Prefix(l)[0]) = 0
    BY <1>4
  <2>2. RecStart(l, 0) = Len(query) + 0 /\ RecStart(l, Len(l)) = Len(query) + Len(rs)
    BY <1>4, <2>1 DEF RecStart
  <2> QED
    BY <1>3, <1>9, <2>2
<1>11. Occurs(F, 12, EncodedName(h))
  <2>1. EncodedName(h) \in Seq(Byte)
    BY QuestionLayout, NameEnd DEF AskedFor
  <2>2. Occurs(F, 12 + 0, EncodedName(h))
    <3>1. Len(F) \in Nat /\ Len(q) \in Nat /\ Len(EncodedName(h)) \in Nat
      BY <1>3, <1>9, <2>1
    <3> QED
      BY <1>3, <1>9, <3>1, OccursIn
  <2> QED
    BY <2>2
<1>12. ASSUME NEW k \in 1 .. Len(l)
       PROVE  /\ Occurs(F, RecStart(l, k - 1), RecordBytes(l[k]))
              /\ RecStart(l, k) = RecStart(l, k - 1) + Len(RecordBytes(l[k]))
              /\ RecStart(l, k) \in Nat /\ RecStart(l, k - 1) \in Nat
  <2>1. k \in 0 .. Len(l) /\ k - 1 \in 0 .. Len(l)
    BY ListType
  <2>2. /\ Prefix(l)[k] \in Seq(Byte) /\ Prefix(l)[k - 1] \in Seq(Byte) /\ RecordBytes(l[k]) \in Seq(Byte)
        /\ Prefix(l)[k] = Prefix(l)[k - 1] \o RecordBytes(l[k])
        /\ Occurs(rs, Len(Prefix(l)[k - 1]), RecordBytes(l[k]))
    BY <1>4, <1>6, <2>1
  <2>3. Occurs(F, Len(query) + Len(Prefix(l)[k - 1]), RecordBytes(l[k]))
    <3>1. Len(F) \in Nat /\ Len(rs) \in Nat /\ Len(RecordBytes(l[k])) \in Nat
      BY <1>9, <2>2
    <3> QED
      BY <1>9, <2>2, <3>1, OccursIn
  <2>4. Len(Prefix(l)[k]) = Len(Prefix(l)[k - 1]) + Len(RecordBytes(l[k]))
    BY <2>2, OccursConcat
  <2>5. Len(query) \in Nat /\ Len(Prefix(l)[k - 1]) \in Nat /\ Len(RecordBytes(l[k])) \in Nat
    BY <1>3, <2>2
  <2>6. /\ RecStart(l, k) = Len(query) + Len(Prefix(l)[k])
        /\ RecStart(l, k - 1) = Len(query) + Len(Prefix(l)[k - 1])
    BY DEF RecStart
  <2>7. Occurs(F, RecStart(l, k - 1), RecordBytes(l[k]))
    BY <2>3, <2>6, Zenon
  <2>8. /\ RecStart(l, k) = RecStart(l, k - 1) + Len(RecordBytes(l[k]))
        /\ RecStart(l, k) \in Nat /\ RecStart(l, k - 1) \in Nat
    <3> DEFINE x == RecStart(l, k)
               y == RecStart(l, k - 1)
               u == Len(Prefix(l)[k])
               v == Len(Prefix(l)[k - 1])
               w == Len(RecordBytes(l[k]))
               z == Len(query)
    <3>1. u = v + w /\ z \in Nat /\ v \in Nat /\ w \in Nat /\ x = z + u /\ y = z + v
      BY <2>4, <2>5, <2>6
    <3> HIDE DEF x, y, u, v, w, z
    <3>2. x = y + w /\ x \in Nat /\ y \in Nat
      BY <3>1
    <3> QED
      BY <3>2 DEF x, y, w
  <2> QED
    BY <2>7, <2>8
<1> QED
  BY <1>9, <1>10, <1>11, <1>12 DEF ReplyTo, a, b, c, F

\* All that a record of a reply holds, and where.
RecordAt(F, p, r, h) ==
  LET w == OwnerLen(r)
  IN  /\ Occurs(F, p, IF r.compressed THEN <<192, 12>> ELSE EncodedName(h))
      /\ Occurs(F, p + w, write_u16_be(r.type)) /\ Occurs(F, p + w + 2, write_u16_be(r.class))
      /\ Occurs(F, p + w + 4, write_u16_be(r.ttl[1])) /\ Occurs(F, p + w + 6, write_u16_be(r.ttl[2]))
      /\ Occurs(F, p + w + 8, write_u16_be(Len(r.rdata))) /\ Occurs(F, p + w + 10, r.rdata)

\* The record that comes next in a reply.
LEMMA RecordInReply ==
  ASSUME NEW h, AskedFor(h), NEW l \in RecordLists, NEW id, NEW F, ReplyTo(F, id, h, l),
         NEW k \in 1 .. Len(l)
  PROVE  /\ RecordAt(F, RecStart(l, k - 1), l[k], h)
         /\ RecStart(l, k - 1) \in Nat /\ OwnerLen(l[k]) \in Nat /\ OwnerLen(l[k]) >= 2
         /\ RecStart(l, k) = RecStart(l, k - 1) + OwnerLen(l[k]) + 10 + Len(l[k].rdata)
         /\ RecStart(l, k) <= Len(F)
<1> DEFINE p == RecStart(l, k - 1)
           r == l[k]
           w == OwnerLen(r)
           b == RecordBytes(r)
           o == IF r.compressed THEN <<192, 12>> ELSE EncodedName(h)
<1>1. r \in ResourceRecord /\ Len(r.rdata) \in U16
  BY ListType
<1>2. /\ Occurs(F, p, b) /\ RecStart(l, k) = p + Len(b) /\ p \in Nat
      /\ F \in Seq(Byte) /\ Len(F) \in Nat
  BY DEF ReplyTo
<1>3. /\ b \in Seq(Byte) /\ Len(b) = w + 10 + Len(r.rdata) /\ w \in Nat /\ w >= 2
      /\ Occurs(b, 0, o)
      /\ Occurs(b, w, write_u16_be(r.type)) /\ Occurs(b, w + 2, write_u16_be(r.class))
      /\ Occurs(b, w + 4, write_u16_be(r.ttl[1])) /\ Occurs(b, w + 6, write_u16_be(r.ttl[2]))
      /\ Occurs(b, w + 8, write_u16_be(Len(r.rdata))) /\ Occurs(b, w + 10, r.rdata)
  BY <1>1, RecordLayout
<1>4. /\ Len(b) \in Nat /\ Len(o) \in Nat /\ Len(r.rdata) \in Nat
      /\ \A v : Len(write_u16_be(v)) \in Nat
  <2>1. r.rdata \in Seq(Byte)
    BY <1>1 DEF ResourceRecord
  <2>2. EncodedName(h) \in Seq(Byte)
    BY QuestionLayout, NameEnd DEF AskedFor
  <2>3. Len(b) \in Nat /\ Len(r.rdata) \in Nat /\ Len(EncodedName(h)) \in Nat
    BY <1>3, <2>1, <2>2, SeqIsFunction, Zenon
  <2>4. Len(<<192, 12>>) \in Nat /\ \A v : Len(write_u16_be(v)) \in Nat
    BY DEF write_u16_be
  <2> QED
    BY <2>3, <2>4
<1> HIDE DEF p, w, b, o
<1>5. p + Len(b) <= Len(F)
  BY <1>2 DEF Occurs
<1>6. /\ Occurs(F, p + 0, o)
      /\ Occurs(F, p + w, write_u16_be(r.type)) /\ Occurs(F, p + (w + 2), write_u16_be(r.class))
      /\ Occurs(F, p + (w + 4), write_u16_be(r.ttl[1])) /\ Occurs(F, p + (w + 6), write_u16_be(r.ttl[2]))
      /\ Occurs(F, p + (w + 8), write_u16_be(Len(r.rdata))) /\ Occurs(F, p + (w + 10), r.rdata)
  <2>1. ASSUME NEW q, NEW x, Len(x) \in Nat, Occurs(b, q, x) PROVE Occurs(F, p + q, x)
    BY <1>2, <1>4, <2>1, OccursIn
  <2> QED
    BY <1>3, <1>4, <2>1, Zenon
<1>7. /\ p + 0 = p /\ p + (w + 2) = p + w + 2 /\ p + (w + 4) = p + w + 4 /\ p + (w + 6) = p + w + 6
      /\ p + (w + 8) = p + w + 8 /\ p + (w + 10) = p + w + 10
  <2>1. p \in Nat /\ w \in Nat
    BY <1>2, <1>3, Zenon
  <2> QED
    BY <2>1
<1>8. RecordAt(F, p, r, h)
  BY <1>6, <1>7 DEF RecordAt, w, o
<1>9. RecStart(l, k) = p + w + 10 + Len(r.rdata) /\ RecStart(l, k) <= Len(F)
  <2> DEFINE x == RecStart(l, k)
             n == Len(r.rdata)
             m == Len(b)
             e == Len(F)
  <2>1. /\ x = p + m /\ p \in Nat /\ m = w + 10 + n /\ w \in Nat /\ n \in Nat /\ e \in Nat
        /\ p + m <= e
    BY <1>2, <1>3, <1>4, <1>5
  <2> HIDE DEF x, n, m, e
  <2>2. x = p + w + 10 + n /\ x <= e
    BY <2>1
  <2> QED
    BY <2>2 DEF x, n, e
<1> QED
  BY <1>2, <1>3, <1>8, <1>9 DEF p, w
-----------------------------------------------------------------------------
(***************************************************************************)
(* The addresses a reply holds.                                            *)
(***************************************************************************)
\* What the parser keeps of a record.
AnswerOf(r) == [address |-> r.rdata, ttl |-> r.ttl]

\* A function that collects the addresses among the first records of l.
Collects(f, l) ==
  f = [k \in 0 .. Len(l) |->
         IF k = 0 THEN <<>>
         ELSE IF IsA(l[k]) THEN Append(f[k - 1], [address |-> l[k].rdata, ttl |-> l[k].ttl])
         ELSE f[k - 1]]

\* The addresses among the first records.
AddressesUpTo(l) == CHOOSE f : Collects(f, l)

\* The addresses are collected from left to right.
LEMMA AddressesStep ==
  ASSUME NEW l \in RecordLists
  PROVE  /\ AddressesUpTo(l)[0] = <<>> /\ Addresses(l) = AddressesUpTo(l)[Len(l)]
         /\ \A k \in 0 .. Len(l) : AddressesUpTo(l)[k] \in Seq(Answer)
         /\ \A k \in 1 .. Len(l) :
              /\ IsA(l[k]) => /\ AnswerOf(l[k]) \in Answer
                              /\ AddressesUpTo(l)[k] = Append(AddressesUpTo(l)[k - 1], AnswerOf(l[k]))
              /\ ~IsA(l[k]) => AddressesUpTo(l)[k] = AddressesUpTo(l)[k - 1]
<1>1. Len(l) \in Nat /\ \A k \in 1 .. Len(l) : l[k] \in ResourceRecord
  BY ListType
<1>2. ASSUME NEW k \in 1 .. Len(l), IsA(l[k]) PROVE AnswerOf(l[k]) \in Answer
  <2>1. l[k].rdata \in Seq(Byte) /\ Len(l[k].rdata) = 4 /\ l[k].ttl \in U16 \X U16
    BY <1>1, <1>2 DEF IsA, ResourceRecord
  <2>2. l[k].rdata \in [1 .. 4 -> Byte]
    BY <2>1, SeqIsFunction, Zenon
  <2> QED
    BY <2>1, <2>2 DEF AnswerOf, Answer
<1> DEFINE V == Seq(Answer)
           step == [k \in Nat |-> [v \in V |->
                     IF k \in 1 .. Len(l) /\ IsA(l[k]) THEN Append(v, AnswerOf(l[k])) ELSE v]]
<1>3. step \in [Nat -> [V -> V]]
  <2>1. ASSUME NEW k \in Nat, NEW v \in V
        PROVE  (IF k \in 1 .. Len(l) /\ IsA(l[k]) THEN Append(v, AnswerOf(l[k])) ELSE v) \in V
    <3>1. CASE k \in 1 .. Len(l) /\ IsA(l[k])
      <4>1. AnswerOf(l[k]) \in Answer
        BY <1>2, <3>1
      <4> QED
        BY <3>1, <4>1
    <3>2. CASE ~(k \in 1 .. Len(l) /\ IsA(l[k]))
      BY <3>2
    <3> QED
      BY <3>1, <3>2
  <2> QED
    BY <2>1, Zenon
<1>4. PICK g \in [0 .. Len(l) -> V] : Computes(g, Len(l), <<>>, step)
  <2>1. <<>> \in V
    OBVIOUS
  <2> HIDE DEF V, step
  <2> QED
    BY <1>1, <1>3, <2>1, RecursionExists
<1>5. Collects(g, l)
  <2>1. g = [k \in 0 .. Len(l) |-> IF k = 0 THEN <<>> ELSE step[k][g[k - 1]]]
    BY <1>4 DEF Computes
  <2>2. ASSUME NEW k \in 0 .. Len(l)
        PROVE  (IF k = 0 THEN <<>> ELSE step[k][g[k - 1]])
                 = IF k = 0 THEN <<>>
                   ELSE IF IsA(l[k]) THEN Append(g[k - 1], [address |-> l[k].rdata, ttl |-> l[k].ttl])
                   ELSE g[k - 1]
    <3>1. CASE k = 0
      BY <3>1
    <3>2. CASE k # 0
      <4>1. k \in Nat /\ k \in 1 .. Len(l) /\ k - 1 \in 0 .. Len(l)
        BY <1>1, <3>2
      <4>2. g[k - 1] \in V
        BY <4>1
      <4>3. step[k][g[k - 1]] = IF k \in 1 .. Len(l) /\ IsA(l[k]) THEN Append(g[k - 1], AnswerOf(l[k])) ELSE g[k - 1]
        BY <4>1, <4>2, Zenon
      <4> HIDE DEF step, V
      <4> QED
        BY <3>2, <4>1, <4>3 DEF AnswerOf
    <3> QED
      BY <3>1, <3>2
  <2> HIDE DEF step, V
  <2> QED
    BY <2>1, <2>2, Zenon DEF Collects
<1> DEFINE f == AddressesUpTo(l)
<1>6. Collects(f, l)
  BY <1>5 DEF AddressesUpTo
<1>7. Addresses(l) = f[Len(l)]
  BY DEF Addresses, Collects, AddressesUpTo
<1> HIDE DEF f, step, V
<1>8. \A k \in 0 .. Len(l) : f[k] = IF k = 0 THEN <<>>
                                    ELSE IF IsA(l[k]) THEN Append(f[k - 1], AnswerOf(l[k]))
                                    ELSE f[k - 1]
  BY <1>6 DEF Collects, AnswerOf
<1>9. f[0] = <<>>
  <2>1. 0 \in 0 .. Len(l)
    BY <1>1
  <2> QED
    BY <1>8, <2>1, Zenon
<1>10. ASSUME NEW k \in 1 .. Len(l)
      PROVE  /\ IsA(l[k]) => f[k] = Append(f[k - 1], AnswerOf(l[k]))
             /\ ~IsA(l[k]) => f[k] = f[k - 1]
  <2>1. k \in 0 .. Len(l) /\ k # 0
    BY <1>1
  <2> QED
    BY <1>8, <2>1, Zenon
<1> DEFINE S == {n \in Nat : n <= Len(l) => f[n] \in Seq(Answer)}
<1>11. 0 \in S
  <2>1. <<>> \in Seq(Answer)
    OBVIOUS
  <2>2. f[0] \in Seq(Answer)
    BY <1>9, <2>1, Zenon
  <2> QED
    BY <2>2
<1>12. ASSUME NEW n \in Nat, n \in S PROVE n + 1 \in S
  <2> SUFFICES ASSUME n + 1 <= Len(l) PROVE f[n + 1] \in Seq(Answer)
    OBVIOUS
  <2>1. n + 1 \in 1 .. Len(l) /\ (n + 1) - 1 = n /\ f[n] \in Seq(Answer)
    BY <1>1, <1>12
  <2>2. CASE IsA(l[n + 1])
    <3>1. AnswerOf(l[n + 1]) \in Answer /\ f[n + 1] = Append(f[n], AnswerOf(l[n + 1]))
      BY <1>2, <1>10, <2>1, <2>2
    <3> QED
      BY <2>1, <3>1
  <2>3. CASE ~IsA(l[n + 1])
    BY <1>10, <2>1, <2>3
  <2> QED
    BY <2>2, <2>3
<1>13. Nat \subseteq S
  <2> HIDE DEF S
  <2> QED
    BY <1>11, <1>12, SetInduction
<1>14. \A k \in 0 .. Len(l) : f[k] \in Seq(Answer)
  BY <1>1, <1>13
<1> QED
  BY <1>2, <1>7, <1>9, <1>10, <1>14 DEF f

\* The array takes addresses until it is full.
LEMMA FirstAnswersStep ==
  ASSUME NEW S, NEW v \in Seq(S), NEW x \in S
  PROVE  /\ Len(FirstAnswers(v)) < MaxAnswers <=> Len(v) < MaxAnswers
         /\ Len(FirstAnswers(v)) < MaxAnswers =>
              FirstAnswers(Append(v, x)) = Append(FirstAnswers(v), x)
         /\ ~(Len(FirstAnswers(v)) < MaxAnswers) => FirstAnswers(Append(v, x)) = FirstAnswers(v)
<1> DEFINE m == IF Len(v) < MaxAnswers THEN Len(v) ELSE MaxAnswers
           t == Append(v, x)
           n == IF Len(t) < MaxAnswers THEN Len(t) ELSE MaxAnswers
<1>1. Len(v) \in Nat /\ MaxAnswers \in Nat
  BY DnsAssumption
<1>2. t \in Seq(S) /\ Len(t) = Len(v) + 1 /\ (\A k \in 1 .. Len(v) : t[k] = v[k]) /\ t[Len(v) + 1] = x
  OBVIOUS
<1>3. m \in 0 .. Len(v) /\ n \in 0 .. Len(t)
  <2> HIDE DEF t
  <2> QED
    BY <1>1, <1>2
<1> DEFINE a == SubSeq(v, 1, m)
           b == SubSeq(t, 1, n)
<1>4. a = FirstAnswers(v) /\ b = FirstAnswers(t)
  BY DEF FirstAnswers
<1> HIDE DEF t
<1>5. a \in Seq(S) /\ Len(a) = m /\ Occurs(v, 0, a)
  <2> HIDE DEF m
  <2> QED
    BY <1>3, OccursPrefix
<1>6. b \in Seq(S) /\ Len(b) = n /\ Occurs(t, 0, b)
  <2> HIDE DEF n
  <2> QED
    BY <1>2, <1>3, OccursPrefix
<1> HIDE DEF a, b
<1>7. (\A k \in 1 .. m : a[k] = v[k]) /\ (\A k \in 1 .. n : b[k] = t[k])
  <2> HIDE DEF m, n
  <2> QED
    BY <1>3, <1>5, <1>6 DEF Occurs
<1>8. Len(a) < MaxAnswers <=> Len(v) < MaxAnswers
  BY <1>1, <1>5
<1>9. ASSUME Len(a) < MaxAnswers PROVE b = Append(a, x)
  <2>1. m = Len(v) /\ n = Len(v) + 1
    BY <1>1, <1>2, <1>8, <1>9
  <2> HIDE DEF m, n
  <2>2. Append(a, x) \in Seq(S) /\ Len(Append(a, x)) = Len(b)
    BY <1>5, <1>6, <2>1
  <2>3. ASSUME NEW k \in 1 .. Len(b) PROVE b[k] = Append(a, x)[k]
    <3>1. CASE k \in 1 .. Len(v)
      <4>1. b[k] = v[k] /\ a[k] = v[k]
        BY <1>1, <1>2, <1>7, <2>1, <3>1
      <4>2. Append(a, x)[k] = a[k]
        BY <1>5, <2>1, <3>1
      <4> QED
        BY <4>1, <4>2
    <3>2. CASE k = Len(v) + 1
      <4>1. b[k] = x
        BY <1>1, <1>2, <1>7, <2>1, <3>2
      <4>2. Append(a, x)[k] = x
        BY <1>5, <2>1, <3>2
      <4> QED
        BY <4>1, <4>2
    <3>3. k \in 1 .. Len(v) \/ k = Len(v) + 1
      <4>1. Len(b) = Len(v) + 1
        BY <1>6, <2>1
      <4> QED
        BY <1>1, <4>1
    <3> QED
      BY <3>1, <3>2, <3>3
  <2> QED
    BY <1>6, <2>2, <2>3, SeqEqual
<1>10. ASSUME ~(Len(a) < MaxAnswers) PROVE b = a
  <2>1. m = MaxAnswers /\ n = MaxAnswers /\ MaxAnswers <= Len(v)
    BY <1>1, <1>2, <1>8, <1>10
  <2> HIDE DEF m, n
  <2>2. \A k \in 1 .. Len(b) : b[k] = a[k]
    BY <1>1, <1>2, <1>5, <1>6, <1>7, <2>1
  <2> QED
    BY <1>5, <1>6, <2>1, <2>2, SeqEqual
<1> QED
  BY <1>4, <1>8, <1>9, <1>10 DEF t

-----------------------------------------------------------------------------
(***************************************************************************)
(* A reply that nothing but a cut happened to.  The operators that depend  *)
(* on the query take it as a parameter here, so that they mean the same    *)
(* before and after a step.                                                *)
(***************************************************************************)
\* A record of the reply to query q.
RecordFor(q, r) ==
  (IF r.compressed THEN <<192, 12>>
   ELSE SubSeq(From(q, DNS_HEADER_LEN), 1, Len(From(q, DNS_HEADER_LEN)) - 4))
  \o write_u16_be(r.type) \o write_u16_be(r.class) \o write_u32_be(r.ttl)
  \o write_u16_be(Len(r.rdata)) \o r.rdata

\* The records put together.
PrefixFor(q, l) ==
  CHOOSE f : f = [k \in 0 .. Len(l) |-> IF k = 0 THEN <<>> ELSE f[k - 1] \o RecordFor(q, l[k])]

\* Where the record behind the first k lies.
StartFor(q, l, k) == Len(q) + Len(PrefixFor(q, l)[k])

\* The reply.
ReplyFor(q, id, l) ==
  write_u16_be(id) \o <<129, 128, 0, 1>> \o write_u16_be(Len(l)) \o <<0, 0, 0, 0>>
  \o From(q, DNS_HEADER_LEN) \o PrefixFor(q, l)[Len(l)]

\* For the query that was sent.
LEMMA ForTheQuery ==
  ASSUME NEW l
  PROVE  /\ \A k : StartFor(query, l, k) = RecStart(l, k)
         /\ \A id : ReplyFor(query, id, l) = Reply(id, l)
<1>1. \A r : RecordFor(query, r) = RecordBytes(r)
  BY DEF RecordFor, RecordBytes, Owner, Question
<1>2. PrefixFor(query, l) = Prefix(l)
  BY DEF PrefixFor, Prefix, Joins, RecordFor, RecordBytes, Owner, Question
<1>3. AllRecords(l) = Prefix(l)[Len(l)]
  BY DEF AllRecords, Prefix, Joins
<1> QED
  BY <1>2, <1>3 DEF StartFor, RecStart, ReplyFor, Reply, Question

\* Nobody damaged the reply, though its end may be missing.
Genuine == whole \/ cut

\* The datagram is the reply F, or what a cut left of it.
Received(F) ==
  /\ F \in Seq(Byte) /\ Occurs(F, 0, data)
  /\ whole => data = F /\ ~cut
  /\ cut => Len(data) < Len(F)

\* Where the datagram comes from.
Datagram ==
  /\ pc # "done" => rc = 0
  /\ pc = "query" => query = <<>>
  /\ query = <<>> => pc \in {"query", "done"} /\ data = <<>> /\ ~cut
  /\ query # <<>> => \E h : AskedFor(h)
  /\ pc = "server" => ~cut
  /\ query # <<>> /\ pc # "server" => list \in RecordLists
  /\ pc = "network" => /\ ~cut
                       /\ \E id \in U16 : data = ReplyFor(query, id, list) /\ (whole <=> id = TransactionId)
  /\ query # <<>> /\ pc \notin {"server", "network"} /\ Genuine =>
       \E id \in U16 : Received(ReplyFor(query, id, list)) /\ (whole => id = TransactionId)

\* dns_skip_name stands before a label of a name that begins at o, or before
\* its root, and has passed no more labels than fit before that.
InName(o) ==
  \E h : /\ AskedFor(h)
         /\ \E s \in Starts(h) \cup {Len(h) + 2} : pos = o + s - 1 /\ 2 * labels_seen <= s - 1

\* In the question section, of which there is one entry.
InQuestion ==
  /\ answers = <<>> /\ i \in 0 .. 1
  /\ pc = "record" => offset = IF i = 0 THEN 12 ELSE Len(query)
  /\ pc = "name" => i = 0 /\ InName(12)
  /\ pc = "fixed" => i = 0 /\ offset = Len(query) - 4

\* In the answer section: i records are passed, their addresses collected.
InAnswer ==
  /\ i \in 0 .. Len(list) /\ answers = FirstAnswers(AddressesUpTo(list)[i])
  /\ pc = "record" => offset = StartFor(query, list, i)
  /\ pc # "record" => i < Len(list)
  /\ pc = "name" => IF list[i + 1].compressed THEN pos = StartFor(query, list, i)
                    ELSE InName(StartFor(query, list, i))
  /\ pc = "fixed" => offset = StartFor(query, list, i) + OwnerLen(list[i + 1])

\* Where the parser stands in a reply, and what it has collected.
Walk ==
  /\ Parsing /\ Genuine => IF section = "question" THEN InQuestion ELSE InAnswer
  /\ ReplyUnderstood /\ CutReplyRefused

\* The inductive invariant of the parser on a reply.
ReplyInv == Datagram /\ Walk

\* Nothing was sent and nothing received.
LEMMA ReplyInitInv == DnsInit => ReplyInv
BY DEF DnsInit, ReplyInv, Datagram, Walk, Parsing, ReplyUnderstood, CutReplyRefused

\* The query, the server's reply and what the network does to it.
LEMMA ReplyArrives ==
  ASSUME DnsInv, ReplyInv, BuildQuery \/ Serve \/ Deliver
  PROVE  ReplyInv'
<1>1. Datagram /\ Walk
  BY DEF ReplyInv
<1>2. CASE BuildQuery
  <2>1. PICK h \in Hostnames : query' = dns_build_a_query(h)
    BY <1>2 DEF BuildQuery
  <2>2. query' # <<>> => \E g : AskedFor(g)'
    BY <2>1 DEF AskedFor
  <2>3. /\ pc = "query" /\ data = <<>> /\ ~cut /\ rc = 0
        /\ pc' = (IF query' = <<>> THEN "done" ELSE "server")
        /\ rc' = (IF query' = <<>> THEN -1 ELSE rc)
        /\ data' = data /\ cut' = cut
    BY <1>1, <1>2 DEF BuildQuery, Datagram
  <2>4. Datagram'
    BY <2>2, <2>3 DEF Datagram
  <2>5. Walk'
    BY <2>3 DEF Walk, Parsing, ReplyUnderstood, CutReplyRefused
  <2> QED
    BY <2>4, <2>5 DEF ReplyInv
<1>3. CASE Serve
  <2>1. PICK l \in RecordLists, id \in {TransactionId, StaleId} :
          list' = l /\ data' = Reply(id, l) /\ whole' = (id = TransactionId)
    BY <1>3 DEF Serve
  <2>2. /\ pc = "server" /\ pc' = "network" /\ query' = query /\ cut' = cut /\ rc' = rc
        /\ ~cut /\ rc = 0 /\ query # <<>>
    BY <1>1, <1>3 DEF Serve, parser, Datagram
  <2>3. id \in U16
    BY DnsAssumption
  <2>4. data' = ReplyFor(query', id, list')
    BY <2>1, <2>2, ForTheQuery
  <2>5. \E h : AskedFor(h)'
    BY <1>1, <2>2 DEF Datagram, AskedFor
  <2>6. Datagram'
    <3>1. \E d \in U16 : data' = ReplyFor(query', d, list') /\ (whole' <=> d = TransactionId)
      BY <2>1, <2>3, <2>4, Zenon
    <3>2. list' \in RecordLists
      BY <2>1
    <3> QED
      BY <2>2, <2>5, <3>1, <3>2 DEF Datagram
  <2>7. Walk'
    BY <2>2 DEF Walk, Parsing, ReplyUnderstood, CutReplyRefused
  <2> QED
    BY <2>6, <2>7 DEF ReplyInv
<1>4. CASE Deliver
  <2>1. /\ pc = "network" /\ pc' = "header" /\ query' = query /\ list' = list /\ rc' = rc
        /\ ~cut /\ rc = 0 /\ query # <<>> /\ list \in RecordLists
    BY <1>1, <1>4 DEF Deliver, parser, Datagram
  <2>2. PICK id \in U16 : data = ReplyFor(query, id, list) /\ (whole <=> id = TransactionId)
    BY <1>1, <2>1 DEF Datagram
  <2>3. \E h : AskedFor(h)'
    BY <1>1, <2>1 DEF Datagram, AskedFor
  <2>4. data \in Seq(Byte)
    BY DEF DnsInv, DnsTypeOK
  <2>5. ASSUME Genuine'
        PROVE  /\ Occurs(data, 0, data') /\ (whole' => data' = data /\ ~cut' /\ id = TransactionId)
               /\ cut' => Len(data') < Len(data)
    <3>1. CASE UNCHANGED <<data, whole, cut>>
      <4>1. Occurs(data, 0, data)
        BY <2>4, OccursSelf
      <4> QED
        BY <2>1, <2>2, <3>1, <4>1
    <3>2. CASE /\ \E n \in 0 .. (Len(data) - 1) : data' = SubSeq(data, 1, n)
               /\ whole' = FALSE /\ cut' = TRUE
      <4>1. PICK n \in 0 .. (Len(data) - 1) : data' = SubSeq(data, 1, n)
        BY <3>2
      <4>2. n \in 0 .. Len(data) /\ n < Len(data)
        BY <2>4
      <4>3. Len(data') = n /\ Occurs(data, 0, data')
        BY <2>4, <4>1, <4>2, OccursPrefix
      <4> QED
        BY <3>2, <4>2, <4>3
    <3>3. CASE /\ \E k \in 1 .. Len(data), v \in DamageTo : data' = [data EXCEPT ![k] = v]
               /\ whole' = FALSE /\ UNCHANGED cut
      BY <2>1, <2>5, <3>3 DEF Genuine
    <3> QED
      BY <1>4, <3>1, <3>2, <3>3 DEF Deliver
  <2>6. Genuine' => \E d \in U16 : Received(ReplyFor(query, d, list))' /\ (whole' => d = TransactionId)
    <3>1. ReplyFor(query', id, list') = data
      BY <2>1, <2>2
    <3> QED
      BY <2>4, <2>5, <3>1 DEF Received
  <2>7. Datagram'
    BY <2>1, <2>3, <2>6 DEF Datagram
  <2>8. Walk'
    BY <2>1 DEF Walk, Parsing, ReplyUnderstood, CutReplyRefused
  <2> QED
    BY <2>7, <2>8 DEF ReplyInv
<1> QED
  BY <1>2, <1>3, <1>4

-----------------------------------------------------------------------------
(***************************************************************************)
(* The parser in a reply.                                                  *)
(***************************************************************************)
\* The reply of which the parser meets as much as the datagram holds.
Meets(F, id) ==
  /\ id \in U16 /\ list \in RecordLists /\ Received(F) /\ (whole => id = TransactionId)
  /\ \A h : AskedFor(h) => ReplyTo(F, id, h, list)

\* While the parser runs, there is one.
LEMMA ParserMeets ==
  ASSUME ReplyInv, Genuine, pc \in {"header", "record", "name", "fixed"}
  PROVE  (\E h : AskedFor(h)) /\ \E F, id : Meets(F, id)
<1>1. query # <<>> /\ list \in RecordLists /\ (\E h : AskedFor(h))
  BY DEF ReplyInv, Datagram
<1>2. PICK id \in U16 : Received(ReplyFor(query, id, list)) /\ (whole => id = TransactionId)
  BY <1>1 DEF ReplyInv, Datagram
<1>3. \A h : AskedFor(h) => ReplyTo(Reply(id, list), id, h, list)
  BY <1>1, ReplyLayout
<1>4. ReplyFor(query, id, list) = Reply(id, list)
  BY ForTheQuery
<1>5. Meets(Reply(id, list), id)
  BY <1>1, <1>2, <1>3, <1>4 DEF Meets
<1> QED
  BY <1>1, <1>5

\* What lies in the reply lies in the datagram if it ends there; in a whole one
\* it does.
LEMMA ReceivedHas ==
  ASSUME NEW F, Received(F), data \in Seq(Byte), NEW o, NEW x, Len(x) \in Nat, Occurs(F, o, x)
  PROVE  /\ o + Len(x) <= Len(data) => Occurs(data, o, x)
         /\ whole => o + Len(x) <= Len(data)
<1>1. Len(data) \in Nat /\ o \in Nat /\ o + Len(x) <= Len(F)
  BY DEF Occurs
<1>2. \A j \in 1 .. Len(data) : data[j] = F[j]
  BY <1>1 DEF Received, Occurs
<1>3. ASSUME o + Len(x) <= Len(data) PROVE Occurs(data, o, x)
  <2>1. \A j \in 1 .. Len(x) : o + j \in 1 .. Len(data)
    BY <1>1, <1>3
  <2>2. \A j \in 1 .. Len(x) : F[o + j] = x[j]
    BY DEF Occurs
  <2>3. \A j \in 1 .. Len(x) : data[o + j] = x[j]
    BY <1>2, <2>1, <2>2
  <2> QED
    BY <1>1, <1>3, <2>3 DEF Occurs
<1>4. whole => o + Len(x) <= Len(data)
  BY <1>1 DEF Received
<1> QED
  BY <1>3, <1>4

\* Reading what lies in the datagram.
LEMMA ReadBack ==
  ASSUME data \in Seq(Byte), NEW o, NEW x, Len(x) \in Nat, Occurs(data, o, x)
  PROVE  \A j \in 1 .. Len(x) : ByteAt(o + j - 1) = x[j]
<1>1. o \in Nat /\ o + Len(x) <= Len(data) /\ \A j \in 1 .. Len(x) : data[o + j] = x[j]
  BY DEF Occurs
<1>2. ASSUME NEW j \in 1 .. Len(x) PROVE ByteAt(o + j - 1) = x[j]
  <2>1. (o + j - 1) < Len(data) /\ (o + j - 1) + 1 = o + j
    BY <1>1
  <2> QED
    BY <1>1, <2>1 DEF ByteAt
<1> QED
  BY <1>2

\* Reading a 16-bit value.
LEMMA WordBack ==
  ASSUME data \in Seq(Byte), NEW o, NEW v \in U16, Occurs(data, o, write_u16_be(v))
  PROVE  U16At(o) = v
<1>1. o \in Nat /\ o + 2 <= Len(data) /\ data[o + 1] * 256 + data[o + 2] = v
  BY WordAt
<1>2. o < Len(data) /\ o + 1 < Len(data) /\ (o + 1) + 1 = o + 2
  BY <1>1
<1>3. ByteAt(o) = data[o + 1] /\ ByteAt(o + 1) = data[o + 2]
  BY <1>2 DEF ByteAt
<1> QED
  BY <1>1, <1>3 DEF U16At

\* The same, if the datagram has the two bytes.
LEMMA WordMet ==
  ASSUME NEW F, Received(F), data \in Seq(Byte), NEW o, NEW v \in U16,
         Occurs(F, o, write_u16_be(v)), o + 2 <= Len(data)
  PROVE  U16At(o) = v
<1>1. Len(write_u16_be(v)) = 2
  BY DEF write_u16_be
<1>2. Occurs(data, o, write_u16_be(v))
  <2>1. o + Len(write_u16_be(v)) <= Len(data) /\ Len(write_u16_be(v)) \in Nat
    BY <1>1
  <2> QED
    BY <2>1, ReceivedHas
<1> QED
  BY <1>2, WordBack

\* What a step of the parser has to establish.
LEMMA ParserStep ==
  ASSUME ReplyInv, pc \in {"header", "record", "name", "fixed"},
         pc' \in {"record", "name", "fixed", "done"},
         UNCHANGED <<query, list, whole, cut, data>>,
         pc' # "done" => rc' = 0,
         Genuine => Walk'
  PROVE  ReplyInv'
<1>1. Datagram
  BY DEF ReplyInv
<1>2. query' # <<>> => \E h : AskedFor(h)'
  BY <1>1 DEF Datagram, AskedFor
<1>3. Genuine' => Genuine
  BY DEF Genuine
<1>4. query # <<>> /\ Genuine =>
        \E id \in U16 : Received(ReplyFor(query, id, list))' /\ (whole' => id = TransactionId)
  BY <1>1 DEF Datagram, Received
<1>5. Datagram'
  <2>1. query # <<>> /\ list \in RecordLists
    BY <1>1 DEF Datagram
  <2>2. list' \in RecordLists /\ query' # <<>>
    BY <2>1
  <2> QED
    BY <1>2, <1>3, <1>4, <2>1, <2>2 DEF Datagram
<1>6. Walk'
  <2>1. CASE ~Genuine
    BY <2>1 DEF Walk, Genuine, ReplyUnderstood, CutReplyRefused
  <2> QED
    BY <2>1
<1> QED
  BY <1>5, <1>6 DEF ReplyInv

\* A refusal is right for what was cut.
LEMMA Refused ==
  ASSUME pc' = "done", rc' # 0, UNCHANGED whole, ~whole
  PROVE  Walk'
BY DEF Walk, Parsing, ReplyUnderstood, CutReplyRefused

\* Sizes of the parts that come first.
LEMMA MeetsHeader ==
  ASSUME DnsInv, NEW F, NEW id, Meets(F, id), NEW h, AskedFor(h)
  PROVE  /\ Len(query) \in Nat /\ Len(query) = Len(h) + 18 /\ Len(h) \in Nat
         /\ F \in Seq(Byte) /\ Len(F) \in Nat /\ Len(query) <= Len(F) /\ Len(data) \in Nat
         /\ whole => Len(data) = Len(F)
         /\ cut => Len(data) < Len(F)
         /\ Len(data) >= 12 => /\ U16At(0) = id /\ ByteAt(2) = 129
                               /\ question_count = 1 /\ answer_count = Len(list)
<1>1. Len(query) = Len(h) + 18 /\ Len(h) \in Nat
  BY QuestionLayout
<1>2. data \in Seq(Byte) /\ Len(data) \in Nat
  BY ParserFacts
<1>3. ReplyTo(F, id, h, list) /\ Received(F) /\ id \in U16 /\ Len(list) \in U16
  BY ListType DEF Meets
<1>4. /\ F \in Seq(Byte) /\ Len(F) \in Nat /\ Len(query) <= Len(F)
      /\ Occurs(F, 0, write_u16_be(id)) /\ Occurs(F, 2, <<129, 128, 0, 1>>)
      /\ Occurs(F, 6, write_u16_be(Len(list)))
  BY <1>3 DEF ReplyTo
<1>5. (whole => Len(data) = Len(F)) /\ (cut => Len(data) < Len(F))
  BY <1>3 DEF Received
<1>6. ASSUME Len(data) >= 12
      PROVE  U16At(0) = id /\ ByteAt(2) = 129 /\ question_count = 1 /\ answer_count = Len(list)
  <2>1. 0 + 2 <= Len(data) /\ 6 + 2 <= Len(data)
    BY <1>2, <1>6
  <2>2. U16At(0) = id /\ U16At(6) = Len(list)
    BY <1>2, <1>3, <1>4, <2>1, WordMet
  <2> DEFINE x == <<129, 128, 0, 1>>
  <2>3. Len(x) = 4 /\ x[1] = 129 /\ x[3] = 0 /\ x[4] = 1
    OBVIOUS
  <2> HIDE DEF x
  <2>4. Occurs(data, 2, x)
    <3>1. Occurs(F, 2, x) /\ 2 + Len(x) <= Len(data) /\ Len(x) \in Nat
      BY <1>2, <1>4, <1>6, <2>3 DEF x
    <3> QED
      BY <1>2, <1>3, <3>1, ReceivedHas
  <2>5. \A j \in 1 .. Len(x) : ByteAt(2 + j - 1) = x[j]
    BY <1>2, <2>3, <2>4, ReadBack
  <2>6. ByteAt(2 + 1 - 1) = 129 /\ ByteAt(2 + 3 - 1) = 0 /\ ByteAt(2 + 4 - 1) = 1
    BY <2>3, <2>5
  <2>7. ByteAt(2) = 129 /\ ByteAt(4) = 0 /\ ByteAt(4 + 1) = 1
    BY <2>6
  <2>8. U16At(4) = 1
    BY <2>7 DEF U16At
  <2> QED
    BY <2>2, <2>7, <2>8 DEF question_count, answer_count
<1> QED
  BY <1>1, <1>2, <1>4, <1>5, <1>6

\* The header of a whole reply is accepted.
LEMMA HeaderMet == DnsInv /\ ReplyInv /\ ParseHeader => ReplyInv'
<1> SUFFICES ASSUME DnsInv, ReplyInv, ParseHeader PROVE ReplyInv'
  OBVIOUS
<1>1. pc = "header" /\ UNCHANGED <<query, list, whole, cut, data, pos, labels_seen>> /\ rc = 0
  BY DEF ParseHeader, ReplyInv, Datagram
<1>2. \/ Len(data) < 12 /\ Return(-2)
      \/ Len(data) >= 12 /\ U16At(0) # TransactionId /\ Return(-3)
      \/ Len(data) >= 12 /\ ByteAt(2) < 128 /\ Return(-4)
      \/ /\ pc' = "record" /\ section' = "question" /\ i' = 0
         /\ offset' = 12 /\ answers' = <<>> /\ rc' = rc
  BY ParserFacts DEF ParseHeader, DNS_HEADER_LEN
<1>3. pc' \in {"record", "done"} /\ (pc' # "done" => rc' = 0)
  BY <1>1, <1>2 DEF Return
<1>4. ASSUME Genuine PROVE Walk'
  <2>1. PICK h : AskedFor(h)
    BY <1>1, <1>4, ParserMeets
  <2>2. PICK F, id : Meets(F, id)
    BY <1>1, <1>4, ParserMeets
  <2>3. /\ Len(query) \in Nat /\ Len(query) = Len(h) + 18 /\ Len(h) \in Nat
        /\ Len(F) \in Nat /\ Len(query) <= Len(F) /\ Len(data) \in Nat
        /\ whole => Len(data) = Len(F)
        /\ Len(data) >= 12 => U16At(0) = id /\ ByteAt(2) = 129
    BY <2>1, <2>2, MeetsHeader
  <2>4. whole => id = TransactionId
    BY <2>2 DEF Meets
  <2>5. CASE pc' = "done"
    <3>1. ~whole
      <4>1. whole => Len(data) >= 12
        BY <2>3
      <4>2. ~(129 < 128)
        OBVIOUS
      <4> QED
        BY <1>2, <2>3, <2>4, <2>5, <4>1, <4>2
    <3>2. rc' # 0
      BY <1>2, <2>5 DEF Return
    <3> QED
      BY <1>1, <2>5, <3>1, <3>2, Refused
  <2>6. CASE pc' # "done"
    <3>1. /\ pc' = "record" /\ section' = "question" /\ i' = 0
          /\ offset' = 12 /\ answers' = <<>>
      BY <1>2, <2>6 DEF Return
    <3>2. InQuestion'
      BY <3>1 DEF InQuestion
    <3> QED
      BY <3>1, <3>2 DEF Walk, Parsing, ReplyUnderstood, CutReplyRefused
  <2> QED
    BY <2>5, <2>6
<1> QED
  BY <1>1, <1>3, <1>4, ParserStep

\* Where the next record lies, if there is one.
LEMMA MeetsRecord ==
  ASSUME NEW F, NEW id, Meets(F, id), NEW h, AskedFor(h), NEW n \in 0 .. Len(list)
  PROVE  /\ StartFor(query, list, n) \in Nat /\ Len(query) <= StartFor(query, list, n)
         /\ StartFor(query, list, 0) = Len(query) /\ StartFor(query, list, Len(list)) = Len(F)
         /\ n < Len(list) =>
              LET r == list[n + 1]
                  p == StartFor(query, list, n)
              IN  /\ r \in ResourceRecord /\ Len(r.rdata) \in U16 /\ Len(r.rdata) \in Nat
                  /\ RecordAt(F, p, r, h) /\ OwnerLen(r) \in Nat /\ OwnerLen(r) >= 2
                  /\ StartFor(query, list, n + 1) = p + OwnerLen(r) + 10 + Len(r.rdata)
                  /\ p + OwnerLen(r) + 10 + Len(r.rdata) <= Len(F)
<1>1. list \in RecordLists /\ ReplyTo(F, id, h, list) /\ Len(list) \in Nat
  BY ListType DEF Meets
<1>2. \A k : StartFor(query, list, k) = RecStart(list, k)
  BY ForTheQuery
<1>3. RecStart(list, 0) = Len(query) /\ RecStart(list, Len(list)) = Len(F)
  BY <1>1 DEF ReplyTo
<1>4. RecStart(list, n) \in Nat /\ Len(query) <= RecStart(list, n)
  <2>1. n \in 0 .. Len(list) /\ Prefix(list)[n] \in Seq(Byte)
    BY <1>1, PrefixStep
  <2>2. Len(Prefix(list)[n]) \in Nat
    BY <2>1, SeqIsFunction, Zenon
  <2>3. Len(query) \in Nat
    BY QuestionLayout
  <2> QED
    BY <2>2, <2>3 DEF RecStart
<1>5. ASSUME n < Len(list)
      PROVE  /\ list[n + 1] \in ResourceRecord /\ Len(list[n + 1].rdata) \in U16
             /\ Len(list[n + 1].rdata) \in Nat
             /\ RecordAt(F, RecStart(list, n), list[n + 1], h)
             /\ OwnerLen(list[n + 1]) \in Nat /\ OwnerLen(list[n + 1]) >= 2
             /\ RecStart(list, n + 1) = RecStart(list, n) + OwnerLen(list[n + 1]) + 10 + Len(list[n + 1].rdata)
             /\ RecStart(list, n + 1) <= Len(F)
  <2>1. n + 1 \in 1 .. Len(list) /\ (n + 1) - 1 = n
    BY <1>1, <1>5
  <2>2. /\ RecordAt(F, RecStart(list, (n + 1) - 1), list[n + 1], h)
        /\ OwnerLen(list[n + 1]) \in Nat /\ OwnerLen(list[n + 1]) >= 2
        /\ RecStart(list, n + 1) = RecStart(list, (n + 1) - 1) + OwnerLen(list[n + 1]) + 10 + Len(list[n + 1].rdata)
        /\ RecStart(list, n + 1) <= Len(F)
    BY <1>1, <2>1, RecordInReply
  <2>3. list[n + 1] \in ResourceRecord /\ Len(list[n + 1].rdata) \in U16
    BY <1>1, <2>1, ListType
  <2>4. Len(list[n + 1].rdata) \in Nat
    BY <2>3, WidthDef
  <2> QED
    BY <2>1, <2>2, <2>3, <2>4, Zenon
<1> QED
  BY <1>2, <1>3, <1>4, <1>5, Zenon

\* Before a record: the loop goes on as long as the reply has records.
LEMMA RecordMet == DnsInv /\ ReplyInv /\ NextRecord => ReplyInv'
<1> SUFFICES ASSUME DnsInv, ReplyInv, NextRecord PROVE ReplyInv'
  OBVIOUS
<1>1. /\ pc = "record" /\ UNCHANGED <<query, list, whole, cut, data, offset, answers, high>>
      /\ rc = 0 /\ section \in {"question", "answer"} /\ offset <= Len(data)
  BY DEF NextRecord, ReplyInv, Datagram, DnsInv, DnsTypeOK, ParserInBounds, Parsing
<1>2. \/ i < Count /\ offset >= Len(data) /\ Return(-5)
      \/ /\ i < Count /\ pc' = "name" /\ pos' = offset /\ labels_seen' = 0
         /\ UNCHANGED <<section, i, rc>>
      \/ /\ i = Count /\ section = "question" /\ section' = "answer" /\ i' = 0
         /\ UNCHANGED <<pc, rc>>
      \/ i = Count /\ section = "answer" /\ Return(0)
  BY DEF NextRecord
<1>3. pc' \in {"record", "name", "done"} /\ (pc' # "done" => rc' = 0)
  BY <1>1, <1>2 DEF Return
<1>4. ASSUME Genuine PROVE Walk'
  <2>1. PICK h : AskedFor(h)
    BY <1>1, <1>4, ParserMeets
  <2>2. PICK F, id : Meets(F, id)
    BY <1>1, <1>4, ParserMeets
  <2>3. /\ Len(query) \in Nat /\ Len(query) = Len(h) + 18 /\ Len(h) \in Nat
        /\ Len(F) \in Nat /\ Len(query) <= Len(F) /\ Len(data) \in Nat
        /\ whole => Len(data) = Len(F)
        /\ cut => Len(data) < Len(F)
        /\ Len(data) >= 12 => question_count = 1 /\ answer_count = Len(list)
    BY <2>1, <2>2, MeetsHeader
  <2>4. IF section = "question" THEN InQuestion ELSE InAnswer
    BY <1>1, <1>4 DEF ReplyInv, Walk, Parsing
  <2>5. /\ list \in RecordLists /\ Len(list) \in Nat /\ i \in Nat /\ offset \in Nat
        /\ 1 \in Starts(h)
    <3>1. list \in RecordLists /\ i \in Nat /\ offset \in Nat /\ h \in Seq(Byte)
      BY <2>1, <2>2, ParserFacts, QuestionLayout DEF Meets
    <3> QED
      BY <3>1, ListType DEF Starts
  <2>6. CASE section = "question"
    <3>1. answers = <<>> /\ i \in 0 .. 1 /\ offset = IF i = 0 THEN 12 ELSE Len(query)
      BY <1>1, <2>4, <2>6 DEF InQuestion
    <3>2. Count = 1
      <4>1. Len(data) >= 12
        BY <1>1, <2>3, <2>5, <3>1
      <4> QED
        BY <2>3, <2>6, <4>1 DEF Count
    <3>3. CASE i < Count /\ offset >= Len(data) /\ Return(-5)
      <4>1. i = 0 /\ offset = 12
        BY <2>5, <3>1, <3>2, <3>3
      <4>2. ~whole
        BY <2>3, <3>3, <4>1
      <4> QED
        BY <1>1, <3>3, <4>2, Refused DEF Return
    <3>4. CASE /\ i < Count /\ pc' = "name" /\ pos' = offset /\ labels_seen' = 0
               /\ UNCHANGED <<section, i, rc>>
      <4>1. i = 0 /\ offset = 12
        BY <2>5, <3>1, <3>2, <3>4
      <4>2. pos' = 12 + 1 - 1 /\ 2 * labels_seen' <= 1 - 1
        BY <3>4, <4>1
      <4>3. InName(12)'
        BY <1>1, <2>1, <2>5, <4>2 DEF InName, AskedFor
      <4>4. InQuestion'
        BY <1>1, <3>1, <3>4, <4>1, <4>3 DEF InQuestion
      <4> QED
        BY <2>6, <3>4, <4>4 DEF Walk, Parsing, ReplyUnderstood, CutReplyRefused
    <3>5. CASE /\ i = Count /\ section = "question" /\ section' = "answer" /\ i' = 0
               /\ UNCHANGED <<pc, rc>>
      <4>1. offset = Len(query)
        BY <3>1, <3>2, <3>5
      <4>2. 0 \in 0 .. Len(list)
        BY <2>5
      <4>3. StartFor(query, list, 0) = Len(query)
        BY <2>1, <2>2, <4>2, MeetsRecord
      <4>4. FirstAnswers(AddressesUpTo(list)[0]) = <<>>
        <5>1. AddressesUpTo(list)[0] = <<>>
          BY <2>5, AddressesStep
        <5>2. FirstAnswers(<<>>) = <<>>
          <6>1. Len(<<>>) = 0 /\ MaxAnswers \in Nat
            BY DnsAssumption
          <6>2. (IF Len(<<>>) < MaxAnswers THEN Len(<<>>) ELSE MaxAnswers) = 0
            BY <6>1
          <6>3. SubSeq(<<>>, 1, 0) = <<>>
            OBVIOUS
          <6> QED
            BY <6>2, <6>3 DEF FirstAnswers
        <5> QED
          BY <5>1, <5>2
      <4>5. InAnswer'
        BY <1>1, <3>1, <3>5, <4>1, <4>2, <4>3, <4>4 DEF InAnswer
      <4> QED
        BY <1>1, <3>5, <4>5 DEF Walk, Parsing, ReplyUnderstood, CutReplyRefused
    <3> QED
      BY <1>2, <2>6, <3>3, <3>4, <3>5
  <2>7. CASE section = "answer"
    <3>1. /\ i \in 0 .. Len(list) /\ answers = FirstAnswers(AddressesUpTo(list)[i])
          /\ offset = StartFor(query, list, i)
      BY <1>1, <2>4, <2>7 DEF InAnswer
    <3> DEFINE r == list[i + 1]
               p == StartFor(query, list, i)
    <3>2. /\ p \in Nat /\ Len(query) <= p /\ StartFor(query, list, Len(list)) = Len(F)
          /\ i < Len(list) => /\ r \in ResourceRecord /\ Len(r.rdata) \in Nat
                              /\ OwnerLen(r) \in Nat /\ OwnerLen(r) >= 2
                              /\ p + OwnerLen(r) + 10 + Len(r.rdata) <= Len(F)
      BY <2>1, <2>2, <3>1, MeetsRecord
    <3> HIDE DEF r, p
    <3>3. Count = Len(list)
      <4>1. Len(data) >= 12
        BY <1>1, <2>3, <2>5, <3>1, <3>2 DEF p
      <4> QED
        BY <2>3, <2>7, <4>1 DEF Count
    <3>4. CASE i < Count /\ offset >= Len(data) /\ Return(-5)
      <4>1. ~whole
        <5>1. offset < Len(F)
          <6> DEFINE w == OwnerLen(r)
                     n == Len(r.rdata)
                     e == Len(F)
          <6>1. i < Len(list)
            BY <3>3, <3>4
          <6>2. p \in Nat /\ n \in Nat /\ w \in Nat /\ w >= 2 /\ p + w + 10 + n <= e /\ e \in Nat
            BY <2>3, <3>2, <6>1
          <6> HIDE DEF w, n, e
          <6>3. p < e
            BY <6>2
          <6> QED
            BY <3>1, <6>3 DEF p, e
        <5> QED
          BY <2>3, <2>5, <3>4, <5>1
      <4> QED
        BY <1>1, <3>4, <4>1, Refused DEF Return
    <3>5. CASE /\ i < Count /\ pc' = "name" /\ pos' = offset /\ labels_seen' = 0
               /\ UNCHANGED <<section, i, rc>>
      <4>1. pos' = p + 1 - 1 /\ 2 * labels_seen' <= 1 - 1
        BY <3>1, <3>2, <3>5 DEF p
      <4>2. InName(StartFor(query, list, i))'
        BY <1>1, <2>1, <2>5, <3>5, <4>1 DEF InName, AskedFor, p
      <4>3. InAnswer'
        BY <1>1, <3>1, <3>3, <3>5, <4>2 DEF InAnswer
      <4> QED
        BY <2>7, <3>5, <4>3 DEF Walk, Parsing, ReplyUnderstood, CutReplyRefused
    <3>6. CASE i = Count /\ section = "answer" /\ Return(0)
      <4>1. offset = Len(F) /\ ~cut
        BY <1>1, <2>3, <3>1, <3>2, <3>3, <3>6
      <4>2. answers = FirstAnswers(Addresses(list))
        BY <2>5, <3>1, <3>3, <3>6, AddressesStep
      <4>3. pc' = "done" /\ rc' = 0 /\ answers' = FirstAnswers(Addresses(list')) /\ ~cut'
        BY <1>1, <3>6, <4>1, <4>2 DEF Return
      <4> QED
        BY <4>3 DEF Walk, Parsing, ReplyUnderstood, CutReplyRefused
    <3> QED
      BY <1>2, <2>7, <3>4, <3>5, <3>6
  <2> QED
    BY <1>1, <2>6, <2>7
<1> QED
  BY <1>1, <1>3, <1>4, ParserStep

\* One turn of dns_skip_name in a name that begins behind o bytes.
LEMMA NameStep ==
  ASSUME DnsInv, SkipName, NEW F, Received(F), NEW h, AskedFor(h), NEW o \in Nat,
         Occurs(F, o, EncodedName(h)), NEW s \in Starts(h) \cup {Len(h) + 2},
         pos = o + s - 1, 2 * labels_seen <= s - 1
  PROVE  \/ ~whole /\ Return(-5)
         \/ /\ pc' = "name" /\ rc' = rc
            /\ \E t \in Starts(h) \cup {Len(h) + 2} : pos' = o + t - 1 /\ 2 * labels_seen' <= t - 1
         \/ pc' = "fixed" /\ rc' = rc /\ offset' = o + Len(h) + 2
<1> DEFINE name == EncodedName(h)
<1>1. /\ data \in Seq(Byte) /\ Len(data) \in Nat /\ pos \in Nat /\ pos < Len(data) /\ pc = "name"
      /\ labels_seen \in Nat /\ MaxLabels \in Nat
  BY ParserFacts DEF SkipName, DnsInv, ParserInBounds
<1>2. h \in Seq(Byte) /\ Len(h) \in Nat /\ dns_build_a_query(h) # <<>>
  BY QuestionLayout DEF AskedFor
<1>3. /\ name \in Seq(Byte) /\ Len(name) = Len(h) + 2 /\ name[Len(h) + 2] = 0
      /\ Len(h) + 1 <= 2 * MaxLabels
  BY <1>2, NameEnd
<1> HIDE DEF name
<1>4. /\ F \in Seq(Byte) /\ Len(F) \in Nat /\ o + Len(name) <= Len(F)
      /\ \A j \in 1 .. Len(name) : F[o + j] = name[j]
      /\ \A j \in 1 .. Len(data) : data[j] = F[j]
      /\ whole => data = F
  <2>1. Occurs(F, o, name) /\ F \in Seq(Byte) /\ Occurs(F, 0, data) /\ (whole => data = F)
    BY DEF Received, name
  <2>2. \A j \in 1 .. Len(data) : F[0 + j] = data[j]
    BY <2>1 DEF Occurs
  <2>3. \A j \in 1 .. Len(data) : data[j] = F[j]
    BY <2>2
  <2>4. Len(F) \in Nat /\ o + Len(name) <= Len(F) /\ \A j \in 1 .. Len(name) : F[o + j] = name[j]
    BY <2>1 DEF Occurs
  <2> QED
    BY <2>1, <2>3, <2>4
<1>5. Starts(h) \subseteq 1 .. Len(h)
  BY <1>2, NameWalk
<1>6. ByteAt(pos) = name[s]
  <2>1. s \in 1 .. Len(name) /\ pos + 1 = o + s /\ o + s \in 1 .. Len(data)
    BY <1>1, <1>2, <1>3, <1>5, SMTT(30)
  <2>2. data[pos + 1] = name[s]
    BY <1>4, <2>1
  <2> QED
    BY <1>1, <2>2 DEF ByteAt
<1>7. CASE s = Len(h) + 2
  <2>1. ByteAt(pos) = 0
    BY <1>3, <1>6, <1>7
  <2>2. pc' = "fixed" /\ offset' = pos + 1 /\ rc' = rc
    BY <2>1 DEF SkipName
  <2>3. pos + 1 = o + Len(h) + 2
    BY <1>2, <1>7
  <2> QED
    BY <2>2, <2>3
<1>8. CASE s # Len(h) + 2
  <2> DEFINE n == LabelLen(h, s)
             t == s + n + 1
  <2>1. s \in Starts(h) /\ s \in 1 .. Len(h)
    BY <1>5, <1>8
  <2>2. name[s] = n /\ n \in 1 .. MaxLabelLen /\ s + n + 1 \in Starts(h) \cup {Len(h) + 2}
    BY <1>2, <2>1, NameWalk DEF name
  <2>3. MaxLabelLen \in 1 .. 63
    BY DnsAssumption
  <2> HIDE DEF n
  <2>4. n \in Nat /\ n >= 1 /\ n <= 63 /\ ~(n > MaxLabelLen)
    BY <2>2, <2>3
  <2>5. ByteAt(pos) = n
    BY <1>6, <2>2
  <2>6. Label(n)
    <3>1. ~(n >= 192) /\ ~(n \in 64 .. 191) /\ n # 0
      BY <2>4
    <3> QED
      BY <2>5, <3>1 DEF SkipName
  <2>7. ~TooManyLabels
    <3>1. 2 * (labels_seen + 1) <= Len(h) + 1
      BY <1>1, <1>2, <2>1
    <3>2. labels_seen + 1 <= MaxLabels
      BY <1>1, <1>2, <1>3, <3>1
    <3> QED
      BY <1>1, <3>2 DEF TooManyLabels
  <2>8. t \in Nat /\ t <= Len(h) + 2 /\ pos + 1 + n = o + t - 1 /\ 2 * (labels_seen + 1) <= t - 1
    BY <1>1, <1>2, <1>5, <2>1, <2>2, <2>4
  <2>9. CASE pos + 1 + n >= Len(data)
    <3>1. Return(-5)
      BY <2>6, <2>9 DEF Label
    <3>2. ~whole
      <4>1. pos + 1 + n < Len(F)
        BY <1>2, <1>3, <1>4, <2>8
      <4> QED
        BY <1>1, <1>4, <2>4, <2>9, <4>1
    <3> QED
      BY <3>1, <3>2
  <2>10. CASE ~(pos + 1 + n >= Len(data))
    <3>1. pos' = pos + 1 + n /\ labels_seen' = labels_seen + 1 /\ pc' = pc /\ rc' = rc
      BY <2>4, <2>6, <2>7, <2>10 DEF Label
    <3>2. t \in Starts(h) \cup {Len(h) + 2} /\ pos' = o + t - 1 /\ 2 * labels_seen' <= t - 1
      BY <2>2, <2>8, <3>1
    <3> QED
      BY <1>1, <3>1, <3>2
  <2> QED
    BY <2>9, <2>10
<1> QED
  BY <1>7, <1>8

\* The walk through a name ends behind it.
LEMMA NameMet == DnsInv /\ ReplyInv /\ SkipName => ReplyInv'
<1> SUFFICES ASSUME DnsInv, ReplyInv, SkipName PROVE ReplyInv'
  OBVIOUS
<1>1. /\ pc = "name" /\ UNCHANGED <<query, list, whole, cut, data, section, i, answers>>
      /\ rc = 0 /\ section \in {"question", "answer"} /\ pos < Len(data)
  BY DEF SkipName, ReplyInv, Datagram, DnsInv, DnsTypeOK, ParserInBounds
<1>2. pc' \in {"name", "fixed", "done"} /\ (pc' # "done" => rc' = 0)
  <2>1. \/ Pointer
        \/ Return(-5)
        \/ pc' = "fixed" /\ rc' = rc
        \/ Label(ByteAt(pos))
    BY DEF SkipName
  <2> QED
    BY <1>1, <2>1 DEF Pointer, Label, Return
<1>3. ASSUME Genuine PROVE Walk'
  <2>1. PICK F, id : Meets(F, id)
    BY <1>1, <1>3, ParserMeets
  <2>2. IF section = "question" THEN InQuestion ELSE InAnswer
    BY <1>1, <1>3 DEF ReplyInv, Walk, Parsing
  <2>3. /\ Received(F) /\ list \in RecordLists
        /\ pos \in Nat /\ Len(data) \in Nat /\ data \in Seq(Byte)
    BY <2>1, ParserFacts DEF Meets
  <2>4. ASSUME ~whole, Return(-5) PROVE Walk'
    BY <1>1, <2>4, Refused DEF Return
  <2>5. CASE section = "question"
    <3>1. answers = <<>> /\ i = 0 /\ InName(12)
      BY <1>1, <2>2, <2>5 DEF InQuestion
    <3>2. PICK h : /\ AskedFor(h)
                   /\ \E s \in Starts(h) \cup {Len(h) + 2} : pos = 12 + s - 1 /\ 2 * labels_seen <= s - 1
      BY <3>1 DEF InName
    <3>3. PICK s \in Starts(h) \cup {Len(h) + 2} : pos = 12 + s - 1 /\ 2 * labels_seen <= s - 1
      BY <3>2
    <3>4. /\ Occurs(F, 12, EncodedName(h)) /\ Len(query) = Len(h) + 18 /\ Len(h) \in Nat
      BY <2>1, <3>2, QuestionLayout DEF Meets, ReplyTo
    <3>5. \/ ~whole /\ Return(-5)
          \/ /\ pc' = "name" /\ rc' = rc
             /\ \E t \in Starts(h) \cup {Len(h) + 2} : pos' = 12 + t - 1 /\ 2 * labels_seen' <= t - 1
          \/ pc' = "fixed" /\ rc' = rc /\ offset' = 12 + Len(h) + 2
      BY <2>3, <3>2, <3>3, <3>4, NameStep
    <3>6. CASE /\ pc' = "name" /\ rc' = rc
               /\ \E t \in Starts(h) \cup {Len(h) + 2} : pos' = 12 + t - 1 /\ 2 * labels_seen' <= t - 1
      <4>1. InName(12)'
        BY <1>1, <3>2, <3>6 DEF InName, AskedFor
      <4>2. InQuestion'
        BY <1>1, <3>1, <3>6, <4>1 DEF InQuestion
      <4> QED
        BY <1>1, <2>5, <3>6, <4>2 DEF Walk, Parsing, ReplyUnderstood, CutReplyRefused
    <3>7. CASE pc' = "fixed" /\ rc' = rc /\ offset' = 12 + Len(h) + 2
      <4>1. offset' = Len(query') - 4
        BY <1>1, <3>4, <3>7
      <4>2. InQuestion'
        BY <1>1, <3>1, <3>7, <4>1 DEF InQuestion
      <4> QED
        BY <1>1, <2>5, <3>7, <4>2 DEF Walk, Parsing, ReplyUnderstood, CutReplyRefused
    <3> QED
      BY <2>4, <3>5, <3>6, <3>7
  <2>6. CASE section = "answer"
    <3> DEFINE r == list[i + 1]
               p == StartFor(query, list, i)
    <3>1. /\ i \in 0 .. Len(list) /\ answers = FirstAnswers(AddressesUpTo(list)[i]) /\ i < Len(list)
          /\ IF r.compressed THEN pos = p ELSE InName(p)
      BY <1>1, <2>2, <2>6 DEF InAnswer
    <3>2. ASSUME NEW h, AskedFor(h)
          PROVE  /\ r \in ResourceRecord /\ p \in Nat /\ RecordAt(F, p, r, h)
                 /\ OwnerLen(r) \in Nat /\ Len(r.rdata) \in Nat /\ Len(F) \in Nat
                 /\ p + OwnerLen(r) + 10 + Len(r.rdata) <= Len(F)
                 /\ Len(query) = Len(h) + 18 /\ Len(h) \in Nat
                 /\ whole => Len(data) = Len(F)
      BY <2>1, <3>1, <3>2, MeetsRecord, MeetsHeader
    <3> HIDE DEF r, p
    <3>3. ASSUME pc' = "fixed", rc' = rc, offset' = p + OwnerLen(r) PROVE Walk'
      <4>1. InAnswer'
        BY <1>1, <3>1, <3>3 DEF InAnswer, OwnerLen, r, p
      <4> QED
        BY <1>1, <2>6, <3>3, <4>1 DEF Walk, Parsing, ReplyUnderstood, CutReplyRefused
    <3>4. CASE r.compressed
      <4>1. PICK h : AskedFor(h)
        BY <1>1, <1>3, ParserMeets
      <4>2. Occurs(F, p, <<192, 12>>) /\ OwnerLen(r) = 2
        BY <3>2, <3>4, <4>1 DEF RecordAt, OwnerLen
      <4>3. ByteAt(pos) = 192
        <5>1. F[p + 1] = 192
          <6> DEFINE x == <<192, 12>>
          <6>1. Len(x) = 2 /\ x[1] = 192
            OBVIOUS
          <6> HIDE DEF x
          <6>2. \A j \in 1 .. Len(x) : F[p + j] = x[j]
            BY <4>2 DEF Occurs, x
          <6> QED
            BY <6>1, <6>2
        <5>2. \A j \in 1 .. Len(data) : F[0 + j] = data[j]
          BY <2>3 DEF Received, Occurs
        <5>3. data[p + 1] = 192
          <6>1. p + 1 \in 1 .. Len(data) /\ 0 + (p + 1) = p + 1
            BY <1>1, <2>3, <3>1, <3>4
          <6> QED
            BY <5>1, <5>2, <6>1
        <5> QED
          BY <1>1, <2>3, <3>1, <3>4, <5>3 DEF ByteAt
      <4>4. Pointer
        BY <4>3 DEF SkipName
      <4>5. CASE pos + 1 >= Len(data)
        <5>1. Return(-5)
          BY <4>4, <4>5 DEF Pointer
        <5>2. ~whole
          <6> DEFINE w == OwnerLen(r)
                     n == Len(r.rdata)
                     e == Len(F)
          <6>1. /\ p \in Nat /\ w = 2 /\ n \in Nat /\ e \in Nat /\ p + w + 10 + n <= e
                /\ whole => Len(data) = e
            BY <3>2, <4>1, <4>2
          <6> HIDE DEF w, n, e
          <6>2. pos + 1 < e
            BY <3>1, <3>4, <6>1
          <6> QED
            BY <2>3, <4>5, <6>1, <6>2
        <5> QED
          BY <2>4, <5>1, <5>2
      <4>6. CASE ~(pos + 1 >= Len(data))
        <5>1. pc' = "fixed" /\ rc' = rc /\ offset' = p + OwnerLen(r)
          BY <3>1, <3>4, <4>2, <4>4, <4>6 DEF Pointer
        <5> QED
          BY <3>3, <5>1
      <4> QED
        BY <4>5, <4>6
    <3>5. CASE ~r.compressed
      <4>1. PICK h : /\ AskedFor(h)
                     /\ \E s \in Starts(h) \cup {Len(h) + 2} : pos = p + s - 1 /\ 2 * labels_seen <= s - 1
        BY <3>1, <3>5 DEF InName
      <4>2. PICK s \in Starts(h) \cup {Len(h) + 2} : pos = p + s - 1 /\ 2 * labels_seen <= s - 1
        BY <4>1
      <4>3. Occurs(F, p, EncodedName(h)) /\ p \in Nat
        BY <3>2, <3>5, <4>1 DEF RecordAt
      <4>4. OwnerLen(r) = Len(h) + 2 /\ Len(h) \in Nat
        BY <3>2, <3>5, <4>1 DEF OwnerLen
      <4>5. \/ ~whole /\ Return(-5)
            \/ /\ pc' = "name" /\ rc' = rc
               /\ \E t \in Starts(h) \cup {Len(h) + 2} : pos' = p + t - 1 /\ 2 * labels_seen' <= t - 1
            \/ pc' = "fixed" /\ rc' = rc /\ offset' = p + Len(h) + 2
        BY <2>3, <4>1, <4>2, <4>3, NameStep
      <4>6. CASE /\ pc' = "name" /\ rc' = rc
                 /\ \E t \in Starts(h) \cup {Len(h) + 2} : pos' = p + t - 1 /\ 2 * labels_seen' <= t - 1
        <5>1. InName(StartFor(query, list, i))'
          BY <1>1, <4>1, <4>6 DEF InName, AskedFor, p
        <5>2. InAnswer'
          BY <1>1, <3>1, <3>5, <4>6, <5>1 DEF InAnswer, r
        <5> QED
          BY <1>1, <2>6, <4>6, <5>2 DEF Walk, Parsing, ReplyUnderstood, CutReplyRefused
      <4>7. CASE pc' = "fixed" /\ rc' = rc /\ offset' = p + Len(h) + 2
        <5>1. offset' = p + OwnerLen(r)
          BY <4>3, <4>4, <4>7
        <5> QED
          BY <3>3, <4>7, <5>1
      <4> QED
        BY <2>4, <4>5, <4>6, <4>7
    <3> QED
      BY <3>4, <3>5
  <2> QED
    BY <1>1, <2>5, <2>6
<1> QED
  BY <1>1, <1>2, <1>3, ParserStep

\* Behind the question the records begin.
LEMMA QuestionMet == DnsInv /\ ReplyInv /\ SkipQuestion => ReplyInv'
<1> SUFFICES ASSUME DnsInv, ReplyInv, SkipQuestion PROVE ReplyInv'
  OBVIOUS
<1>1. /\ pc = "fixed" /\ section = "question" /\ rc = 0
      /\ UNCHANGED <<query, list, whole, cut, data, section, pos, labels_seen, answers, high>>
  BY DEF SkipQuestion, ReplyInv, Datagram
<1>2. \/ offset + 4 > Len(data) /\ Return(-5)
      \/ pc' = "record" /\ i' = i + 1 /\ offset' = offset + 4 /\ rc' = rc
  BY DEF SkipQuestion
<1>3. pc' \in {"record", "done"} /\ (pc' # "done" => rc' = 0)
  BY <1>1, <1>2 DEF Return
<1>4. ASSUME Genuine PROVE Walk'
  <2>1. PICK h : AskedFor(h)
    BY <1>1, <1>4, ParserMeets
  <2>2. PICK F, id : Meets(F, id)
    BY <1>1, <1>4, ParserMeets
  <2>3. /\ Len(query) \in Nat /\ Len(query) = Len(h) + 18 /\ Len(h) \in Nat
        /\ Len(F) \in Nat /\ Len(query) <= Len(F) /\ Len(data) \in Nat
        /\ whole => Len(data) = Len(F)
    BY <2>1, <2>2, MeetsHeader
  <2>4. answers = <<>> /\ i = 0 /\ offset = Len(query) - 4
    BY <1>1, <1>4 DEF ReplyInv, Walk, Parsing, InQuestion
  <2>5. CASE offset + 4 > Len(data) /\ Return(-5)
    <3>1. ~whole
      BY <2>3, <2>4, <2>5
    <3> QED
      BY <1>1, <2>5, <3>1, Refused DEF Return
  <2>6. CASE pc' = "record" /\ i' = i + 1 /\ offset' = offset + 4 /\ rc' = rc
    <3>1. i' = 1 /\ offset' = Len(query')
      BY <1>1, <2>3, <2>4, <2>6
    <3>2. InQuestion'
      BY <1>1, <2>4, <2>6, <3>1 DEF InQuestion
    <3> QED
      BY <1>1, <2>6, <3>2 DEF Walk, Parsing, ReplyUnderstood, CutReplyRefused
  <2> QED
    BY <1>2, <2>5, <2>6
<1> QED
  BY <1>1, <1>3, <1>4, ParserStep

\* A record's fixed part, read from a reply.
LEMMA FixedPartMet ==
  ASSUME DnsInv, NEW F, Received(F), NEW h, NEW p \in Nat, NEW r \in ResourceRecord,
         RecordAt(F, p, r, h), Len(r.rdata) \in U16, OwnerLen(r) \in Nat,
         offset = p + OwnerLen(r), offset + 10 <= Len(data)
  PROVE  /\ U16At(offset) = r.type /\ U16At(offset + 2) = r.class
         /\ <<U16At(offset + 4), U16At(offset + 6)>> = r.ttl
         /\ U16At(offset + 8) = Len(r.rdata)
<1> DEFINE w == OwnerLen(r)
<1>1. data \in Seq(Byte) /\ Len(data) \in Nat /\ offset \in Nat
  BY ParserFacts
<1>2. /\ r.type \in U16 /\ r.class \in U16 /\ r.ttl \in U16 \X U16
  BY DEF ResourceRecord
<1>3. r.ttl[1] \in U16 /\ r.ttl[2] \in U16 /\ r.ttl = <<r.ttl[1], r.ttl[2]>>
  BY <1>2
<1>4. /\ Occurs(F, p + w, write_u16_be(r.type)) /\ Occurs(F, p + w + 2, write_u16_be(r.class))
      /\ Occurs(F, p + w + 4, write_u16_be(r.ttl[1])) /\ Occurs(F, p + w + 6, write_u16_be(r.ttl[2]))
      /\ Occurs(F, p + w + 8, write_u16_be(Len(r.rdata)))
  BY DEF RecordAt
<1> HIDE DEF w
<1>5. offset = p + w
  BY DEF w
<1>6. /\ offset + 2 <= Len(data) /\ (offset + 2) + 2 <= Len(data) /\ (offset + 4) + 2 <= Len(data)
      /\ (offset + 6) + 2 <= Len(data) /\ (offset + 8) + 2 <= Len(data)
  BY <1>1, SMTT(30)
<1>7. U16At(offset) = r.type
  BY <1>1, <1>2, <1>4, <1>5, <1>6, WordMet
<1>8. U16At(offset + 2) = r.class
  BY <1>1, <1>2, <1>4, <1>5, <1>6, WordMet
<1>9. U16At(offset + 4) = r.ttl[1]
  BY <1>1, <1>3, <1>4, <1>5, <1>6, WordMet
<1>10. U16At(offset + 6) = r.ttl[2]
  BY <1>1, <1>3, <1>4, <1>5, <1>6, WordMet
<1>11. U16At(offset + 8) = Len(r.rdata)
  BY <1>1, <1>4, <1>5, <1>6, WordMet
<1> QED
  BY <1>3, <1>7, <1>8, <1>9, <1>10, <1>11

\* An address, read from a reply.
LEMMA AddressMet ==
  ASSUME DnsInv, NEW F, Received(F), NEW h, NEW p \in Nat, NEW r \in ResourceRecord,
         RecordAt(F, p, r, h), Len(r.rdata) = 4, OwnerLen(r) \in Nat,
         offset = p + OwnerLen(r), offset + 14 <= Len(data)
  PROVE  [k \in 1 .. 4 |-> ByteAt(offset + 9 + k)] = r.rdata
<1> DEFINE x == r.rdata
<1>1. data \in Seq(Byte) /\ Len(data) \in Nat /\ offset \in Nat
  BY ParserFacts
<1>2. x \in Seq(Byte)
  BY DEF ResourceRecord
<1>3. Occurs(F, p + OwnerLen(r) + 10, x)
  BY DEF RecordAt
<1> HIDE DEF x
<1>4. x \in [1 .. 4 -> Byte] /\ Len(x) = 4
  BY <1>2, SeqIsFunction DEF x
<1>5. Occurs(data, offset + 10, x)
  <2>1. Occurs(F, offset + 10, x) /\ (offset + 10) + Len(x) <= Len(data) /\ Len(x) \in Nat
    BY <1>1, <1>3, <1>4
  <2> QED
    BY <1>1, <2>1, ReceivedHas
<1>6. \A j \in 1 .. Len(x) : ByteAt((offset + 10) + j - 1) = x[j]
  <2>1. Len(x) \in Nat
    BY <1>4
  <2> QED
    BY <1>1, <1>5, <2>1, ReadBack
<1>7. ASSUME NEW k \in 1 .. 4 PROVE ByteAt(offset + 9 + k) = x[k]
  <2>1. k \in 1 .. Len(x) /\ (offset + 10) + k - 1 = offset + 9 + k
    BY <1>1, <1>4
  <2> QED
    BY <1>6, <2>1
<1>8. [k \in 1 .. 4 |-> ByteAt(offset + 9 + k)] = x
  BY <1>4, <1>7
<1> QED
  BY <1>8 DEF x

\* A record is stored if it is an address and there is room.
LEMMA AnswerMet == DnsInv /\ ReplyInv /\ ParseAnswer => ReplyInv'
<1> SUFFICES ASSUME DnsInv, ReplyInv, ParseAnswer PROVE ReplyInv'
  OBVIOUS
<1> DEFINE rdlength == U16At(offset + 8)
           record   == [address |-> [k \in 1 .. 4 |-> ByteAt(offset + 9 + k)],
                        ttl |-> <<U16At(offset + 4), U16At(offset + 6)>>]
           isA      == U16At(offset) = DNS_TYPE_A /\ U16At(offset + 2) = DNS_CLASS_IN /\ rdlength = 4
           stored   == isA /\ RoomForAnswer
<1>1. /\ pc = "fixed" /\ section = "answer" /\ rc = 0
      /\ UNCHANGED <<query, list, whole, cut, data, section, pos, labels_seen>>
  BY DEF ParseAnswer, ReplyInv, Datagram
<1>2. \/ ~FixedPartFits /\ Return(-5)
      \/ FixedPartFits /\ ~RecordFits(rdlength) /\ Return(-5)
      \/ /\ FixedPartFits /\ RecordFits(rdlength)
         /\ answers' = IF stored THEN Append(answers, record) ELSE answers
         /\ offset' = offset + 10 + rdlength /\ i' = i + 1 /\ pc' = "record" /\ rc' = rc
  BY DEF ParseAnswer
<1>3. pc' \in {"record", "done"} /\ (pc' # "done" => rc' = 0)
  BY <1>1, <1>2 DEF Return
<1>4. ASSUME Genuine PROVE Walk'
  <2>1. PICK h : AskedFor(h)
    BY <1>1, <1>4, ParserMeets
  <2>2. PICK F, id : Meets(F, id)
    BY <1>1, <1>4, ParserMeets
  <2> DEFINE r == list[i + 1]
             p == StartFor(query, list, i)
  <2>3. /\ i \in 0 .. Len(list) /\ answers = FirstAnswers(AddressesUpTo(list)[i]) /\ i < Len(list)
        /\ offset = p + OwnerLen(r)
    BY <1>1, <1>4 DEF ReplyInv, Walk, Parsing, InAnswer
  <2>4. /\ r \in ResourceRecord /\ Len(r.rdata) \in U16 /\ Len(r.rdata) \in Nat
        /\ RecordAt(F, p, r, h) /\ OwnerLen(r) \in Nat /\ p \in Nat
        /\ StartFor(query, list, i + 1) = p + OwnerLen(r) + 10 + Len(r.rdata)
        /\ p + OwnerLen(r) + 10 + Len(r.rdata) <= Len(F)
    BY <2>1, <2>2, <2>3, MeetsRecord
  <2>5. /\ Received(F) /\ list \in RecordLists /\ Len(list) \in Nat
        /\ Len(F) \in Nat /\ Len(data) \in Nat /\ offset \in Nat
        /\ whole => Len(data) = Len(F)
    BY <2>1, <2>2, MeetsHeader, ListType, ParserFacts DEF Meets
  <2> HIDE DEF r, p, rdlength, record, isA, stored
  <2>6. whole => FixedPartFits /\ RecordFits(Len(r.rdata))
    <3> DEFINE n == Len(r.rdata)
               e == Len(F)
    <3>1. n \in Nat /\ e \in Nat /\ offset + 10 + n <= e /\ (whole => Len(data) = e)
      BY <2>3, <2>4, <2>5
    <3> HIDE DEF n, e
    <3>2. whole => offset + 10 <= Len(data) /\ offset + 10 + n <= Len(data)
      BY <2>5, <3>1
    <3> QED
      BY <3>2 DEF FixedPartFits, RecordFits, n
  <2>7. FixedPartFits => /\ U16At(offset) = r.type /\ U16At(offset + 2) = r.class
                         /\ <<U16At(offset + 4), U16At(offset + 6)>> = r.ttl
                         /\ rdlength = Len(r.rdata)
    BY <2>3, <2>4, <2>5, FixedPartMet DEF FixedPartFits, rdlength
  <2>8. CASE Return(-5)
    <3>1. ~whole
      BY <1>2, <2>6, <2>7, <2>8 DEF Return
    <3> QED
      BY <1>1, <2>8, <3>1, Refused DEF Return
  <2>9. CASE /\ FixedPartFits /\ RecordFits(rdlength)
             /\ answers' = IF stored THEN Append(answers, record) ELSE answers
             /\ offset' = offset + 10 + rdlength /\ i' = i + 1 /\ pc' = "record" /\ rc' = rc
    <3>1. rdlength = Len(r.rdata) /\ (isA <=> IsA(r))
      BY <2>7, <2>9 DEF isA, IsA
    <3>2. isA => record = AnswerOf(r)
      <4>1. SUFFICES ASSUME isA PROVE record = AnswerOf(r)
        OBVIOUS
      <4>2. Len(r.rdata) = 4 /\ offset + 14 <= Len(data)
        BY <2>5, <2>9, <3>1, <4>1 DEF isA, RecordFits
      <4>3. [k \in 1 .. 4 |-> ByteAt(offset + 9 + k)] = r.rdata
        BY <2>3, <2>4, <2>5, <4>2, AddressMet
      <4> QED
        BY <2>7, <2>9, <4>3 DEF record, AnswerOf
    <3>3. i + 1 \in 1 .. Len(list) /\ (i + 1) - 1 = i /\ i \in 0 .. Len(list)
      BY <2>3, <2>5
    <3> DEFINE a == AddressesUpTo(list)[i]
               b == AddressesUpTo(list)[i + 1]
    <3>4. /\ a \in Seq(Answer)
          /\ IsA(r) => AnswerOf(r) \in Answer /\ b = Append(a, AnswerOf(r))
          /\ ~IsA(r) => b = a
      BY <2>5, <3>3, AddressesStep DEF r
    <3>5. answers = FirstAnswers(a)
      BY <2>3
    <3> HIDE DEF a, b
    <3>6. answers' = FirstAnswers(b)
      <4>1. CASE IsA(r)
        <5>1. /\ Len(FirstAnswers(a)) < MaxAnswers =>
                   FirstAnswers(Append(a, AnswerOf(r))) = Append(FirstAnswers(a), AnswerOf(r))
              /\ ~(Len(FirstAnswers(a)) < MaxAnswers) =>
                   FirstAnswers(Append(a, AnswerOf(r))) = FirstAnswers(a)
          BY <3>4, <4>1, FirstAnswersStep
        <5>2. answers' = IF Len(answers) < MaxAnswers THEN Append(answers, AnswerOf(r)) ELSE answers
          BY <2>9, <3>1, <3>2, <4>1 DEF stored, RoomForAnswer
        <5>3. b = Append(a, AnswerOf(r))
          BY <3>4, <4>1
        <5> QED
          BY <3>5, <5>1, <5>2, <5>3, Zenon
      <4>2. CASE ~IsA(r)
        BY <2>9, <3>1, <3>4, <3>5, <4>2 DEF stored
      <4> QED
        BY <4>1, <4>2
    <3>7. offset' = StartFor(query, list, i + 1)
      BY <2>3, <2>4, <2>9, <3>1
    <3>8. InAnswer'
      <4>1. i' \in 0 .. Len(list')
        BY <1>1, <2>5, <2>9, <3>3
      <4>2. answers' = FirstAnswers(AddressesUpTo(list')[i'])
        BY <1>1, <2>9, <3>6 DEF b
      <4>3. offset' = StartFor(query', list', i')
        BY <1>1, <2>9, <3>7
      <4> QED
        BY <2>9, <4>1, <4>2, <4>3 DEF InAnswer
    <3> QED
      BY <1>1, <2>9, <3>8 DEF Walk, Parsing, ReplyUnderstood, CutReplyRefused
  <2> QED
    BY <1>2, <2>8, <2>9
<1> QED
  BY <1>1, <1>3, <1>4, ParserStep

\* Every step.
LEMMA ReplyStep == DnsInv /\ ReplyInv /\ [DnsNext]_dvars => ReplyInv'
<1> SUFFICES ASSUME DnsInv, ReplyInv, [DnsNext]_dvars PROVE ReplyInv'
  OBVIOUS
<1>1. CASE UNCHANGED dvars
  BY <1>1 DEF dvars, parser, ReplyInv, Datagram, Walk, Genuine, Received, InQuestion, InAnswer,
     InName, AskedFor, OwnerLen, Parsing, ReplyUnderstood, CutReplyRefused
<1> QED
  BY <1>1, ReplyArrives, HeaderMet, RecordMet, NameMet, QuestionMet, AnswerMet
     DEF DnsNext, dns_parse_response

\* In a reply that nothing but a cut happened to, dns_parse_response always
\* stands where the server has put the next label or record.
THEOREM ReplyInvariant == DnsSpec => []ReplyInv
BY ReplyInitInv, ReplyStep, DnsInvariant, PTL DEF DnsSpec

\* A reply to the tool's own query is understood, for every hostname that
\* dns_build_a_query accepts and every answer section: the limit on labels is
\* never met, and the addresses are the server's first MaxAnswers.
THEOREM ReplyUnderstoodHolds == DnsSpec => []ReplyUnderstood
<1>1. ReplyInv => ReplyUnderstood
  BY DEF ReplyInv, Walk
<1> QED
  BY <1>1, ReplyInvariant, PTL

\* A reply cut anywhere is refused.
THEOREM CutReplyRefusedHolds == DnsSpec => []CutReplyRefused
<1>1. ReplyInv => CutReplyRefused
  BY DEF ReplyInv, Walk
<1> QED
  BY <1>1, ReplyInvariant, PTL
==================================================================================
